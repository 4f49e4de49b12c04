------------------------ MODULE InPlacePython_proofs ------------------------
(***************************************************************************)
(* Proofs about in-place patches in Python, for every request that is not  *)
(* refused, and whose minimum shift size is at least a segment and at most *)
(* the memory: the header has the geometry that the C applier needs, and   *)
(* the Python applier makes the new image.  The creator checks neither     *)
(* bound (the hazard at create.py:287).                                    *)
(*                                                                         *)
(* The argument.  Sizes are counted in segments: what calc_shift returns   *)
(* is a whole number of them, so is the rest of the memory, and a piece of *)
(* the old image no longer than that rest does not round up beyond it.     *)
(* The applier never writes beyond the end of the segment it works on, and *)
(* the creator let the records refer to old cells from there on only: the  *)
(* new cells are behind that line and the old ones, shifted, before it.    *)
(***************************************************************************)
EXTENDS InPlacePython, TLAPS

ShiftPossible ==
    \A r \in Requests :
        LET minimum == IF r.minimum = None THEN 2 * r.segment ELSE r.minimum
        IN  minimum \in r.segment .. r.memory

\* A size that leaves no rest is a number of segments, and the other way around.
LEMMA Whole ==
    ASSUME NEW s \in Nat \ {0}, NEW a \in Nat
    PROVE  /\ a % s = 0 => \E k \in Nat : a = k * s
           /\ \A k \in Nat : a = k * s => a % s = 0
<1> DEFINE q == a \div s
           r == a % s
<1>1. q \in Nat /\ r \in Nat /\ r < s /\ a = s * q + r
  BY SMT
<1> HIDE DEF q, r
<1>2. s * q = q * s
  BY <1>1
<1>3. r = 0 => a = q * s
  BY <1>1, <1>2
<1>4. ASSUME NEW k \in Nat, a = k * s PROVE r = 0
  <2>1. CASE k <= q
    <3>1. k * s <= q * s
      BY <1>1, <2>1, SMT
    <3> QED BY <1>1, <1>2, <1>4, <3>1
  <2>2. CASE k > q
    <3>1. k * s >= (q + 1) * s /\ (q + 1) * s = q * s + s
      BY <1>1, <2>2, SMT
    <3> QED BY <1>1, <1>2, <1>4, <3>1
  <2> QED BY <1>1, <2>1, <2>2
<1> QED BY <1>1, <1>3, <1>4 DEF r

\* The least number of segments that hold a bytes is at most that of any more bytes
\* that are a whole number of segments.
LEMMA RoundsWithin ==
    ASSUME NEW s \in Nat \ {0}, NEW a \in Nat, NEW k \in Nat, a <= k * s
    PROVE  div_ceil(a, s) \in Nat /\ div_ceil(a, s) <= k
<1>1. div_ceil(a, s) \in Nat /\ div_ceil(a, s) * s < a + s
  BY SMT DEF div_ceil
<1>2. div_ceil(a, s) * s < (k + 1) * s
  BY <1>1
<1>3. div_ceil(a, s) < k + 1
  BY <1>1, <1>2, SMT
<1> QED BY <1>1, <1>3

\* A whole number of segments is as many as it rounds to.
LEMMA RoundsExactly ==
    ASSUME NEW s \in Nat \ {0}, NEW k \in Nat
    PROVE  div_ceil(k * s, s) = k
  BY SMT DEF div_ceil

\* What is known of a request that is not refused.
LEMMA RequestFacts ==
    ASSUME request \in Requests, ~ Refused, ShiftPossible
    PROVE  /\ request.segment \in Nat \ {0} /\ request.memory \in Nat
           /\ request.from \in Nat /\ request.from <= request.memory
           /\ minimum_shift_size \in Nat
           /\ request.segment <= minimum_shift_size
           /\ minimum_shift_size <= request.memory
           /\ \E k \in Nat : request.memory = k * request.segment
           /\ \E k \in Nat : minimum_shift_size = k * request.segment
<1>1. /\ request.segment \in Nat \ {0} /\ request.memory \in Nat
      /\ request.from \in Nat /\ request.from <= request.memory
  BY RequestsAssumption
<1>2. minimum_shift_size \in request.segment .. request.memory
  BY DEF ShiftPossible, minimum_shift_size
<1>3. request.memory % request.segment = 0 /\ minimum_shift_size % request.segment = 0
  BY DEF Refused
<1>4. \E k \in Nat : request.memory = k * request.segment
  BY <1>1, <1>3, Whole
<1>5. minimum_shift_size \in Nat
  BY <1>1, <1>2
<1>6. \E k \in Nat : minimum_shift_size = k * request.segment
  BY <1>1, <1>3, <1>5, Whole
<1> QED BY <1>1, <1>2, <1>4, <1>5, <1>6

\* calc_shift returns a whole number of segments, from one segment to all of the memory.
LEMMA ShiftFacts ==
    ASSUME request \in Requests, ~ Refused, ShiftPossible
    PROVE  /\ \E j \in Nat : CalcShift = j * request.segment
           /\ request.segment <= CalcShift /\ CalcShift <= request.memory
<1> DEFINE s == request.segment
           c == div_ceil(request.from, s)
<1>1. /\ s \in Nat \ {0} /\ request.memory \in Nat
      /\ request.from \in Nat /\ request.from <= request.memory
      /\ minimum_shift_size \in Nat
      /\ s <= minimum_shift_size /\ minimum_shift_size <= request.memory
  BY RequestFacts
<1>2. PICK m \in Nat : request.memory = m * s
  BY RequestFacts
<1>3. PICK n \in Nat : minimum_shift_size = n * s
  BY RequestFacts
<1>4. div_ceil(request.memory, s) = m
  BY <1>1, <1>2, RoundsExactly
<1>5. c \in Nat /\ c <= m
  BY <1>1, <1>2, RoundsWithin
<1>6. CalcShift = MaxOf((m - c) * s, n * s)
  BY <1>3, <1>4 DEF CalcShift
<1> HIDE DEF s, c
<1>7. (m - c) * s \in Nat /\ (m - c) * s <= m * s
  <2>1. m - c \in Nat /\ m - c <= m
    BY <1>5
  <2> QED BY <1>1, <2>1, SMT
<1>8. CASE CalcShift = (m - c) * s /\ n * s <= (m - c) * s
  BY <1>1, <1>2, <1>3, <1>5, <1>7, <1>8 DEF s
<1>9. CASE CalcShift = n * s
  BY <1>1, <1>2, <1>3, <1>9 DEF s
<1> QED BY <1>1, <1>3, <1>6, <1>7, <1>8, <1>9 DEF MaxOf

\* What is kept of the old image is shifted to whole segments that are in the memory.
LEMMA KeptFits ==
    ASSUME request \in Requests, ~ Refused, ShiftPossible, header = CalcShift
    PROVE  div_ceil(Kept, request.segment) * request.segment + header <= request.memory
<1> DEFINE s == request.segment
<1>1. /\ s \in Nat \ {0} /\ request.memory \in Nat /\ request.from \in Nat
      /\ header <= request.memory
  BY RequestFacts, ShiftFacts
<1>2. PICK m \in Nat : request.memory = m * s
  BY RequestFacts
<1>3. PICK j \in Nat : header = j * s
  BY ShiftFacts
<1>4. j <= m
  <2>1. CASE j > m
    <3>1. j * s >= (m + 1) * s /\ (m + 1) * s = m * s + s
      BY <1>1, <2>1, SMT
    <3> QED BY <1>1, <1>2, <1>3, <3>1
  <2> QED BY <2>1
<1>5. m - j \in Nat /\ (m - j) * s = m * s - j * s
  BY <1>1, <1>4, SMT
<1>6. Kept \in Nat /\ Kept <= (m - j) * s
  BY <1>1, <1>2, <1>3, <1>5 DEF Kept, MinOf
<1>7. div_ceil(Kept, s) \in Nat /\ div_ceil(Kept, s) <= m - j
  BY <1>1, <1>5, <1>6, RoundsWithin
<1> HIDE DEF s
<1>8. div_ceil(Kept, s) * s <= (m - j) * s
  BY <1>1, <1>5, <1>7, SMT
<1> QED BY <1>1, <1>2, <1>3, <1>5, <1>7, <1>8 DEF s

\* What is decided when the patch is created, and does not change.
Laid ==
    /\ request \in Requests
    /\ doing \notin {"create", "refused"} => header = CalcShift /\ ~ Refused

\* Every step keeps it: only Create decides anything.
LEMMA LaidStep == Laid /\ [Next]_vars => Laid'
<1> SUFFICES ASSUME Laid, [Next]_vars PROVE Laid'
  OBVIOUS
<1>1. CASE Create
  BY <1>1 DEF Create, Laid, CalcShift, Refused, minimum_shift_size
<1>2. ASSUME doing \notin {"create", "refused"}, patch' = patch PROVE Laid'
  BY <1>2 DEF Laid, CalcShift, Refused, minimum_shift_size, patch
<1>3. CASE ShiftMemory \/ BeginSegment \/ DiffChunk \/ DiffDone \/ ExtraChunk \/ Adjustment
  <2>1. doing \notin {"create", "refused"} /\ patch' = patch
    BY <1>3 DEF ShiftMemory, BeginSegment, DiffChunk, DiffDone, ExtraChunk, Adjustment, patch
  <2> QED BY <1>2, <2>1
<1>4. CASE Idle \/ UNCHANGED vars
  BY <1>4 DEF Idle, vars, patch, Laid, CalcShift, Refused, minimum_shift_size
<1> QED BY <1>1, <1>3, <1>4 DEF Next

\* A patch that create_patch_in_place makes meets the assumptions that the C applier
\* and the proofs about it make of a header: whole segments, at least one of them to
\* shift by, and room for what is kept of the old image.
THEOREM HeaderFitsInPlaceAlways ==
    ASSUME ShiftPossible
    PROVE  Spec => []HeaderFitsInPlace
<1>1. Init => Laid
  BY DEF Init, Laid
<1>2. Laid => HeaderFitsInPlace
  <2> SUFFICES ASSUME Laid, doing \notin {"create", "refused"} PROVE HeaderFitsInPlace
    BY DEF HeaderFitsInPlace
  <2>1. request \in Requests /\ header = CalcShift /\ ~ Refused
    BY DEF Laid
  <2>2. request.memory % request.segment = 0
    BY <2>1 DEF Refused
  <2>3. /\ \E j \in Nat : header = j * request.segment
        /\ request.segment <= header /\ header <= request.memory
    BY <2>1, ShiftFacts
  <2>4. request.segment \in Nat \ {0} /\ request.memory \in Nat
    BY <2>1, RequestFacts
  <2>5. header \in Nat
    <3>1. PICK j \in Nat : header = j * request.segment
      BY <2>3
    <3> QED BY <2>4, <3>1, SMT
  <2>6. header % request.segment = 0
    BY <2>3, <2>4, <2>5, Whole
  <2>7. div_ceil(Kept, request.segment) * request.segment + header <= request.memory
    BY <2>1, KeptFits
  <2> QED BY <2>2, <2>3, <2>4, <2>5, <2>6, <2>7 DEF HeaderFitsInPlace
<1> QED BY <1>1, <1>2, LaidStep, PTL DEF Spec

-----------------------------------------------------------------------------
\* The applier is at work on the segments.
Applying == doing \in {"segment", "diff", "extra"}

\* The memory has its size, and holds the old image until it is shifted.
Memory ==
    /\ mem = [a \in 0 .. request.memory - 1 |-> mem[a]]
    /\ doing \in {"create", "apply"} => \A a \in 0 .. request.from - 1 : mem[a] = Old(a)

\* Old cells that this segment or a later one may need are still there.
OldAhead ==
    Applying => \A f \in FirstFrom(index) .. Kept - 1 : mem[f + header] = Old(f)

\* The new image is there as far as the applier has come.
NewBehind ==
    Applying => \A t \in 0 .. request.to - 1 :
        t < index * request.segment + (IF doing = "segment" THEN 0 ELSE to_pos)
            => mem[t] = New(t)

\* The record stays in the old piece and in the new one, and the applier reads where
\* the creator stood.
InRecord ==
    doing \in {"diff", "extra"} =>
        LET last == FirstFrom(index) + OldPiece(index)
            diff == IF doing = "diff" THEN left ELSE 0
            extra == IF doing = "diff" THEN record.extra ELSE left
        IN  /\ index * request.segment < request.to
            /\ left \in Nat /\ to_pos \in Nat /\ record.extra \in Nat
            /\ old_pos \in Int /\ record.adjust \in Int
            /\ from_offset = old_pos + header
            /\ FirstFrom(index) <= old_pos /\ old_pos + diff <= last
            /\ old_pos + diff + record.adjust \in FirstFrom(index) .. last
            /\ to_pos + diff + extra <= NewPiece(index)

Inv ==
    /\ Laid
    /\ doing \in {"create", "refused", "apply", "segment", "diff", "extra", "done"}
    /\ index \in Nat
    /\ Memory /\ OldAhead /\ NewBehind /\ InRecord
    /\ MemoryIsImage

\* What the header of a created patch says of the memory.
LEMMA Geometry ==
    ASSUME Laid, doing \notin {"create", "refused"}, ShiftPossible
    PROVE  /\ request.segment \in Nat \ {0} /\ request.memory \in Nat
           /\ request.from \in Nat /\ request.from <= request.memory
           /\ request.to \in Nat /\ request.to <= request.memory
           /\ header \in Nat /\ request.segment <= header /\ header <= request.memory
           /\ Kept \in Nat /\ Kept <= request.from /\ header + Kept <= request.memory
<1>1. request \in Requests /\ header = CalcShift /\ ~ Refused
  BY DEF Laid
<1>2. /\ request.segment \in Nat \ {0} /\ request.memory \in Nat
      /\ request.from \in Nat /\ request.from <= request.memory
      /\ request.to \in Nat /\ request.to <= request.memory
  BY <1>1, RequestsAssumption
<1>3. PICK j \in Nat : header = j * request.segment
  BY <1>1, ShiftFacts
<1>4. header \in Nat
  BY <1>2, <1>3, SMT
<1>5. request.segment <= header /\ header <= request.memory
  BY <1>1, ShiftFacts
<1> QED BY <1>2, <1>4, <1>5 DEF Kept, MinOf

\* Where the pieces of a segment are: its new cells end before the place to which the
\* first of its old cells is shifted.
LEMMA Pieces ==
    ASSUME Laid, doing \notin {"create", "refused"}, ShiftPossible, NEW s \in Nat
    PROVE  /\ s * request.segment \in Nat
           /\ (s + 1) * request.segment = s * request.segment + request.segment
           /\ FirstFrom(s) \in Nat /\ FirstFrom(s) <= FirstFrom(s + 1)
           /\ FromOffset(s) = FirstFrom(s) + header
           /\ s * request.segment + request.segment <= FirstFrom(s) + header
           /\ OldPiece(s) \in Nat /\ NewPiece(s) \in Int
           /\ OldPiece(s) > 0 => FirstFrom(s) + OldPiece(s) = Kept
           /\ s * request.segment < request.to =>
                 /\ NewPiece(s) \in 1 .. request.segment
                 /\ s * request.segment + NewPiece(s) <= request.to
                 /\ NewPiece(s) < request.segment =>
                       s * request.segment + NewPiece(s) = request.to
<1>1. /\ request.segment \in Nat \ {0} /\ request.to \in Nat /\ header \in Nat /\ Kept \in Nat
  BY Geometry
<1> DEFINE n == request.segment
           b == s * n
<1>2. b \in Nat /\ (s + 1) * n = b + n /\ n * (s + 1) = b + n
      /\ (s + 1) * n + n - header = b + n + n - header
  BY <1>1, SMT
<1>3. FirstFrom(s) = MaxOf(b + n - header, 0)
  BY DEF FirstFrom
<1>4. FirstFrom(s + 1) = MaxOf(b + n + n - header, 0)
  BY <1>2 DEF FirstFrom
<1>5. FromOffset(s) = MaxOf(b + n, header)
  BY <1>2 DEF FromOffset
<1>6. NewPiece(s) = MinOf(n, request.to - b)
  BY DEF NewPiece
<1> HIDE DEF b
<1>7. FirstFrom(s) \in Nat /\ FirstFrom(s) <= FirstFrom(s + 1)
  BY <1>1, <1>2, <1>3, <1>4 DEF MaxOf
<1>8. FromOffset(s) = FirstFrom(s) + header /\ b + n <= FirstFrom(s) + header
  BY <1>1, <1>2, <1>3, <1>5 DEF MaxOf
<1>9. OldPiece(s) \in Nat /\ (OldPiece(s) > 0 => FirstFrom(s) + OldPiece(s) = Kept)
  BY <1>1, <1>7 DEF OldPiece, MaxOf
<1>10. NewPiece(s) \in Int
  BY <1>1, <1>2, <1>6 DEF MinOf
<1>11. b < request.to => /\ NewPiece(s) \in 1 .. n /\ b + NewPiece(s) <= request.to
                         /\ NewPiece(s) < n => b + NewPiece(s) = request.to
  BY <1>1, <1>2, <1>6 DEF MinOf
<1> QED BY <1>2, <1>7, <1>8, <1>9, <1>10, <1>11 DEF b

\* What is only about the request and the header stays as they are.
LEMMA SamePatch ==
    ASSUME patch' = patch
    PROVE  /\ request' = request /\ header' = header /\ Kept' = Kept
           /\ \A s : FirstFrom(s)' = FirstFrom(s)
           /\ \A s : OldPiece(s)' = OldPiece(s)
           /\ \A s : NewPiece(s)' = NewPiece(s)
  BY DEF patch, Kept, FirstFrom, OldPiece, NewPiece

LEMMA InvCreate == ASSUME Inv, Create, Laid' PROVE Inv'
<1> USE DEF Inv
<1>1. Memory' /\ index' \in Nat /\ doing' \in {"apply", "refused"}
  BY DEF Create, Memory, piece
<1> QED BY <1>1 DEF Applying, OldAhead, NewBehind, InRecord, MemoryIsImage

\* The old image is moved as a whole, so that each of its cells is where the header says.
LEMMA InvShift ==
    ASSUME Inv, ShiftMemory, Laid', ShiftPossible, index = 0
    PROVE  Inv'
<1>1. /\ request.memory \in Nat /\ request.from \in Nat /\ header \in Nat
      /\ Kept \in Nat /\ Kept <= request.from /\ header + Kept <= request.memory
      /\ request.from <= request.memory
  BY Geometry DEF Inv, ShiftMemory
<1>2. patch' = patch /\ index' = 0 /\ doing' \in {"done", "segment"}
  BY DEF ShiftMemory, piece
<1>3. FirstFrom(0) \in Nat
  BY <1>2, Pieces DEF Inv, ShiftMemory
<1>4. Memory'
  BY <1>2, SamePatch DEF Memory, Inv, ShiftMemory
<1>5. doing' = "segment" => \A f \in 0 .. Kept - 1 : mem'[f + header] = Old(f)
  <2> SUFFICES ASSUME doing' = "segment", NEW f \in 0 .. Kept - 1
               PROVE  mem'[f + header] = Old(f)
    OBVIOUS
  <2>0. \A a \in 0 .. request.from - 1 : mem[a] = Old(a)
    BY DEF Inv, Memory, ShiftMemory
  <2>1. mem[f] = Old(f)
    BY <1>1, <2>0
  <2>2. f + header \in header .. header + Kept - 1 /\ f + header \in 0 .. request.memory - 1
    BY <1>1
  <2>3. f + header \in DOMAIN mem
    BY <2>2 DEF Inv, Memory
  <2>4. mem'[f + header] = mem[(f + header) - header]
    BY <2>2, <2>3 DEF ShiftMemory
  <2>5. (f + header) - header = f
    BY <1>1
  <2> QED BY <2>1, <2>4, <2>5
<1>6. OldAhead'
  BY <1>1, <1>2, <1>3, <1>5, SamePatch DEF OldAhead, Applying
<1>7. NewBehind'
  <2>1. index' * request'.segment = 0
    BY <1>2, Geometry, SamePatch, SMT DEF Inv, ShiftMemory
  <2> QED BY <1>2, <2>1 DEF NewBehind, Applying
<1>8. MemoryIsImage'
  BY <1>2, SamePatch DEF MemoryIsImage, ShiftMemory
<1> QED BY <1>2, <1>4, <1>6, <1>7, <1>8 DEF Inv, InRecord

LEMMA InvBegin ==
    ASSUME Inv, BeginSegment, Laid', ShiftPossible
    PROVE  Inv'
<1>1. patch' = patch /\ index' = index /\ mem' = mem /\ doing = "segment"
      /\ index \in Nat
  BY DEF BeginSegment, Inv
<1>2. /\ request' = request /\ header' = header /\ Kept' = Kept
      /\ \A s : FirstFrom(s)' = FirstFrom(s)
      /\ \A s : OldPiece(s)' = OldPiece(s)
      /\ \A s : NewPiece(s)' = NewPiece(s)
  BY <1>1, SamePatch
<1>3. /\ FirstFrom(index) \in Nat /\ OldPiece(index) \in Nat
      /\ FromOffset(index) = FirstFrom(index) + header
      /\ index * request.segment \in Nat /\ request.to \in Nat
      /\ NewPiece(index) \in Int
  <2>1. Laid /\ doing \notin {"create", "refused"}
    BY <1>1 DEF Inv
  <2>2. request.segment \in Nat /\ request.to \in Nat
    BY <2>1, Geometry
  <2> QED BY <1>1, <2>1, <2>2, Pieces
<1>4. Memory' /\ index' \in Nat /\ doing' \in {"diff", "done"}
  BY <1>1, <1>2 DEF Memory, Inv, BeginSegment
<1>5. OldAhead'
  BY <1>1, <1>2 DEF OldAhead, Applying, Inv
<1>6. CASE index * request.segment < request.to
  <2>1. /\ record' \in PossibleRecords(index, 0, 0, 1)
        /\ old_pos' = FirstFrom(index) /\ from_offset' = FromOffset(index)
        /\ to_pos' = 0 /\ left' = record'.diff /\ doing' = "diff"
    BY <1>6 DEF BeginSegment
  <2>2. /\ record'.diff \in Nat /\ record'.extra \in Nat /\ record'.adjust \in Int
        /\ record'.diff <= OldPiece(index)
        /\ record'.diff + record'.adjust \in 0 .. OldPiece(index)
        /\ record'.diff + record'.extra <= NewPiece(index)
    BY <1>3, <1>6, <2>1 DEF PossibleRecords
  <2>3. InRecord'
    BY <1>1, <1>2, <1>3, <1>6, <2>1, <2>2 DEF InRecord
  <2>4. NewBehind'
    BY <1>1, <1>2, <1>3, <2>1 DEF NewBehind, Applying, Inv
  <2> QED BY <1>4, <1>5, <2>1, <2>3, <2>4 DEF Inv, MemoryIsImage
<1>7. CASE ~ (index * request.segment < request.to)
  <2>1. doing' = "done"
    BY <1>7 DEF BeginSegment
  <2>2. \A t \in 0 .. request.to - 1 : mem[t] = New(t)
    BY <1>1, <1>3, <1>7 DEF Inv, NewBehind, Applying
  <2> QED
    BY <1>1, <1>2, <1>4, <1>5, <2>1, <2>2 DEF Inv, InRecord, NewBehind, Applying, MemoryIsImage
<1> QED BY <1>6, <1>7

\* A chunk of new cells is written behind the old ones that are still needed.
LEMMA WriteChunk ==
    ASSUME Inv, ShiftPossible, doing \in {"diff", "extra"}, left > 0,
           NEW cells, mem' = Written(cells),
           \A k \in 0 .. Chunk - 1 : cells[k] = New(Target + k),
           patch' = patch, index' = index, doing' = doing, to_pos' = to_pos + Chunk
    PROVE  Chunk \in 1 .. left /\ Memory' /\ OldAhead' /\ NewBehind'
<1>1. Laid /\ doing \notin {"create", "refused"} /\ index \in Nat
  BY DEF Inv
<1>2. /\ request.segment \in Nat \ {0} /\ request.memory \in Nat
      /\ request.to \in Nat /\ request.to <= request.memory /\ header \in Nat
      /\ Kept \in Nat
  BY <1>1, Geometry
<1> DEFINE b == index * request.segment
<1>3. /\ b \in Nat /\ FirstFrom(index) \in Nat
      /\ b + request.segment <= FirstFrom(index) + header
      /\ NewPiece(index) \in 1 .. request.segment /\ b + NewPiece(index) <= request.to
  BY <1>1, Pieces DEF Inv, InRecord
<1>4. /\ left \in Nat /\ to_pos \in Nat /\ to_pos + left <= NewPiece(index)
  BY <1>2, <1>3 DEF Inv, InRecord
<1>5. Chunk \in 1 .. left
  BY <1>4, RequestsAssumption DEF Chunk, MinOf
<1>6. request' = request /\ header' = header /\ Kept' = Kept
      /\ \A s : FirstFrom(s)' = FirstFrom(s)
  BY SamePatch
<1>7. Target = b + to_pos /\ b' = b
  BY <1>6 DEF Target
<1> DEFINE old == 0 .. request.memory - 1
<1>8. DOMAIN mem = old
  BY DEF Inv, Memory
<1>9. mem' = [a \in old |-> IF a \in Target .. Target + Chunk - 1
                            THEN cells[a - Target] ELSE mem[a]]
  BY <1>8 DEF Written
<1> HIDE DEF b, old
<1>10. Memory'
  BY <1>1, <1>6, <1>9 DEF Memory, old
<1>11. ASSUME NEW f \in FirstFrom(index) .. Kept - 1 PROVE mem'[f + header] = Old(f)
  <2>1. header + Kept <= request.memory
    BY <1>1, Geometry
  <2>2. f \in Nat /\ f < Kept /\ FirstFrom(index) <= f
    BY <1>2, <1>3, <1>11
  <2>3. f + header \in old /\ ~ (f + header \in Target .. Target + Chunk - 1)
    BY <1>2, <1>3, <1>4, <1>5, <1>7, <2>1, <2>2 DEF old
  <2>4. mem[f + header] = Old(f)
    BY <1>1, <1>11 DEF Inv, OldAhead, Applying
  <2> QED BY <1>9, <2>3, <2>4
<1>12. OldAhead'
  BY <1>6, <1>11 DEF OldAhead, Applying
<1>13. ASSUME NEW t \in 0 .. request.to - 1, t < b + (to_pos + Chunk)
       PROVE  mem'[t] = New(t)
  <2>1. t \in old
    BY <1>2, <1>13 DEF old
  <2>2. CASE t \in Target .. Target + Chunk - 1
    <3>1. t - Target \in 0 .. Chunk - 1 /\ Target + (t - Target) = t
      BY <1>3, <1>4, <1>5, <1>7, <2>2
    <3>2. cells[t - Target] = New(t)
      BY <3>1
    <3> QED BY <1>9, <2>1, <2>2, <3>2
  <2>3. CASE ~ (t \in Target .. Target + Chunk - 1)
    <3>1. t < b + to_pos
      BY <1>3, <1>4, <1>5, <1>7, <1>13, <2>3
    <3>2. mem[t] = New(t)
      BY <3>1 DEF Inv, NewBehind, Applying, b
    <3> QED BY <1>9, <2>1, <2>3, <3>2
  <2> QED BY <2>2, <2>3
<1>14. NewBehind'
  BY <1>6, <1>7, <1>13 DEF NewBehind, Applying, b
<1> QED BY <1>5, <1>10, <1>12, <1>14

\* A diff byte is added to the old byte that it was made from.
LEMMA InvDiffChunk ==
    ASSUME Inv, DiffChunk, Laid', ShiftPossible
    PROVE  Inv'
<1>1. /\ doing = "diff" /\ left > 0 /\ doing' = doing /\ index' = index
      /\ patch' = patch /\ record' = record /\ to_pos' = to_pos + Chunk
      /\ left' = left - Chunk /\ old_pos' = old_pos + Chunk
      /\ from_offset' = from_offset + Chunk
  BY DEF DiffChunk, piece
<1>2. Laid /\ index \in Nat
  BY DEF Inv
<1>3. /\ header \in Nat /\ Kept \in Nat
  BY <1>1, <1>2, Geometry
<1>4. /\ FirstFrom(index) \in Nat /\ OldPiece(index) \in Nat
      /\ OldPiece(index) > 0 => FirstFrom(index) + OldPiece(index) = Kept
      /\ NewPiece(index) \in Int
  BY <1>1, <1>2, Pieces
<1>5. /\ index * request.segment < request.to
      /\ left \in Nat /\ to_pos \in Nat /\ record.extra \in Nat
      /\ old_pos \in Int /\ record.adjust \in Int
      /\ from_offset = old_pos + header
      /\ FirstFrom(index) <= old_pos
      /\ old_pos + left <= FirstFrom(index) + OldPiece(index)
      /\ old_pos + left + record.adjust
            \in FirstFrom(index) .. FirstFrom(index) + OldPiece(index)
      /\ to_pos + left + record.extra <= NewPiece(index)
  BY <1>1 DEF Inv, InRecord
<1>6. Chunk \in 1 .. left
  BY <1>1, <1>5, RequestsAssumption DEF Chunk, MinOf
<1> DEFINE cells == [k \in 0 .. Chunk - 1 |->
                        AddDiff(mem[from_offset + k], old_pos + k, Target + k)]
<1>7. \A k \in 0 .. Chunk - 1 : cells[k] = New(Target + k)
  <2> SUFFICES ASSUME NEW k \in 0 .. Chunk - 1
               PROVE  AddDiff(mem[from_offset + k], old_pos + k, Target + k) = New(Target + k)
    OBVIOUS
  <2>1. /\ old_pos + k \in FirstFrom(index) .. Kept - 1
        /\ from_offset + k = (old_pos + k) + header
    BY <1>1, <1>3, <1>4, <1>5, <1>6
  <2>2. mem[(old_pos + k) + header] = Old(old_pos + k)
    BY <1>1, <2>1 DEF Inv, OldAhead, Applying
  <2> QED BY <2>1, <2>2 DEF AddDiff
<1>8. mem' = Written(cells)
  BY DEF DiffChunk
<1> HIDE DEF cells
<1>9. Memory' /\ OldAhead' /\ NewBehind'
  BY <1>1, <1>7, <1>8, WriteChunk
<1>10. request' = request /\ (\A s : FirstFrom(s)' = FirstFrom(s))
       /\ (\A s : OldPiece(s)' = OldPiece(s)) /\ (\A s : NewPiece(s)' = NewPiece(s))
       /\ header' = header
  BY <1>1, SamePatch
<1>11. InRecord'
  BY <1>1, <1>2, <1>3, <1>4, <1>5, <1>6, <1>10 DEF InRecord
<1> QED BY <1>1, <1>2, <1>9, <1>11 DEF Inv, MemoryIsImage

LEMMA InvDiffDone ==
    ASSUME Inv, DiffDone, Laid', ShiftPossible
    PROVE  Inv'
<1>1. /\ doing = "diff" /\ left = 0 /\ doing' = "extra" /\ index' = index
      /\ patch' = patch /\ record' = record /\ to_pos' = to_pos /\ mem' = mem
      /\ left' = record.extra /\ old_pos' = old_pos /\ from_offset' = from_offset
  BY DEF DiffDone, piece
<1>2. request' = request /\ header' = header /\ Kept' = Kept
      /\ (\A s : FirstFrom(s)' = FirstFrom(s))
      /\ (\A s : OldPiece(s)' = OldPiece(s)) /\ (\A s : NewPiece(s)' = NewPiece(s))
  BY <1>1, SamePatch
<1>3. index \in Nat /\ Laid
  BY DEF Inv
<1>4. FirstFrom(index) \in Nat /\ OldPiece(index) \in Nat
      /\ NewPiece(index) \in Int
  BY <1>1, <1>3, Pieces
<1>5. InRecord'
  BY <1>1, <1>2, <1>4 DEF Inv, InRecord
<1>6. Memory'
  BY <1>1, <1>2 DEF Inv, Memory
<1>7. OldAhead' /\ NewBehind'
  BY <1>1, <1>2 DEF Inv, OldAhead, NewBehind, Applying
<1> QED BY <1>1, <1>3, <1>5, <1>6, <1>7 DEF Inv, MemoryIsImage

LEMMA InvExtraChunk ==
    ASSUME Inv, ExtraChunk, Laid', ShiftPossible
    PROVE  Inv'
<1>1. /\ doing = "extra" /\ left > 0 /\ doing' = doing /\ index' = index
      /\ patch' = patch /\ record' = record /\ to_pos' = to_pos + Chunk
      /\ left' = left - Chunk /\ old_pos' = old_pos /\ from_offset' = from_offset
  BY DEF ExtraChunk, piece
<1>2. request' = request /\ header' = header
      /\ (\A s : FirstFrom(s)' = FirstFrom(s))
      /\ (\A s : OldPiece(s)' = OldPiece(s)) /\ (\A s : NewPiece(s)' = NewPiece(s))
  BY <1>1, SamePatch
<1>3. index \in Nat /\ Laid
  BY DEF Inv
<1>4. FirstFrom(index) \in Nat /\ OldPiece(index) \in Nat
      /\ NewPiece(index) \in Int
  BY <1>1, <1>3, Pieces
<1> DEFINE cells == [k \in 0 .. Chunk - 1 |-> New(Target + k)]
<1>5. mem' = Written(cells) /\ \A k \in 0 .. Chunk - 1 : cells[k] = New(Target + k)
  BY DEF ExtraChunk
<1> HIDE DEF cells
<1>6. Chunk \in 1 .. left /\ Memory' /\ OldAhead' /\ NewBehind'
  BY <1>1, <1>5, WriteChunk
<1>7. InRecord'
  BY <1>1, <1>2, <1>4, <1>6 DEF Inv, InRecord
<1> QED BY <1>1, <1>3, <1>6, <1>7 DEF Inv, MemoryIsImage

\* A record that ends before its segment leads to a place in the old piece; one that
\* ends its segment leads to the next, whose old cells are later.
LEMMA InvAdjustment ==
    ASSUME Inv, Adjustment, Laid', ShiftPossible
    PROVE  Inv'
<1>1. /\ doing = "extra" /\ left = 0 /\ patch' = patch /\ to_pos' = to_pos /\ mem' = mem
      /\ old_pos' = old_pos + record.adjust /\ from_offset' = from_offset + record.adjust
  BY DEF Adjustment
<1>2. request' = request /\ header' = header /\ Kept' = Kept
      /\ (\A s : FirstFrom(s)' = FirstFrom(s))
      /\ (\A s : OldPiece(s)' = OldPiece(s)) /\ (\A s : NewPiece(s)' = NewPiece(s))
  BY <1>1, SamePatch
<1>3. index \in Nat /\ Laid
  BY DEF Inv
<1>4. /\ request.segment \in Nat \ {0} /\ request.to \in Nat /\ header \in Nat /\ Kept \in Nat
  BY <1>1, <1>3, Geometry
<1>5. /\ index * request.segment < request.to /\ to_pos \in Nat
      /\ old_pos \in Int /\ record.adjust \in Int
      /\ from_offset = old_pos + header
      /\ old_pos + record.adjust \in FirstFrom(index) .. FirstFrom(index) + OldPiece(index)
      /\ to_pos <= NewPiece(index)
  <2>1. NewPiece(index) \in Int \/ ~ (index * request.segment < request.to)
    BY <1>1, <1>3, <1>4, Pieces
  <2>2. FirstFrom(index) \in Nat /\ OldPiece(index) \in Nat
    BY <1>1, <1>3, Pieces
  <2> QED BY <1>1, <2>1, <2>2 DEF Inv, InRecord
<1>6. /\ index * request.segment \in Nat
      /\ (index + 1) * request.segment = index * request.segment + request.segment
      /\ FirstFrom(index) \in Nat /\ FirstFrom(index) <= FirstFrom(index + 1)
      /\ OldPiece(index) \in Nat
      /\ NewPiece(index) \in 1 .. request.segment
      /\ index * request.segment + NewPiece(index) <= request.to
      /\ NewPiece(index) < request.segment =>
            index * request.segment + NewPiece(index) = request.to
  BY <1>1, <1>3, <1>5, Pieces
<1>7. Memory'
  BY <1>1, <1>2 DEF Inv, Memory, Adjustment
<1>8. CASE to_pos < NewPiece(index)
  <2> DEFINE position == old_pos + record.adjust - FirstFrom(index)
  <2>1. /\ record' \in PossibleRecords(index, position, to_pos, rec + 1)
        /\ left' = record'.diff /\ doing' = "diff" /\ index' = index
    BY <1>8 DEF Adjustment
  <2>2. position \in Nat /\ old_pos' = FirstFrom(index) + position
    BY <1>1, <1>5, <1>6
  <2> HIDE DEF position
  <2>3. /\ record'.diff \in Nat /\ record'.extra \in Nat /\ record'.adjust \in Int
        /\ position + record'.diff <= OldPiece(index)
        /\ position + record'.diff + record'.adjust \in 0 .. OldPiece(index)
        /\ to_pos + record'.diff + record'.extra <= NewPiece(index)
    BY <1>5, <1>6, <2>1, <2>2 DEF PossibleRecords
  <2>4. from_offset' = old_pos' + header
    BY <1>1, <1>4, <1>5
  <2>5. InRecord'
    BY <1>1, <1>2, <1>5, <1>6, <2>1, <2>2, <2>3, <2>4 DEF InRecord
  <2>6. OldAhead' /\ NewBehind'
    BY <1>1, <1>2, <2>1 DEF Inv, OldAhead, NewBehind, Applying
  <2> QED BY <1>3, <1>7, <2>1, <2>5, <2>6 DEF Inv, MemoryIsImage
<1>9. CASE ~ (to_pos < NewPiece(index))
  <2>1. index' = index + 1 /\ doing' = "segment"
    BY <1>9 DEF Adjustment
  <2>2. ASSUME NEW f \in FirstFrom(index + 1) .. Kept - 1 PROVE mem[f + header] = Old(f)
    <3>1. FirstFrom(index + 1) \in Nat
      BY <1>1, <1>3, Pieces
    <3>2. f \in FirstFrom(index) .. Kept - 1
      BY <1>4, <1>6, <2>2, <3>1
    <3> QED BY <1>1, <3>2 DEF Inv, OldAhead, Applying
  <2>3. OldAhead'
    BY <1>1, <1>2, <2>1, <2>2 DEF OldAhead, Applying
  <2>4. ASSUME NEW t \in 0 .. request.to - 1, t < (index + 1) * request.segment + 0
        PROVE  mem[t] = New(t)
    <3>1. t < index * request.segment + to_pos
      BY <1>4, <1>5, <1>6, <1>9, <2>4
    <3> QED BY <1>1, <3>1 DEF Inv, NewBehind, Applying
  <2>5. NewBehind'
    BY <1>1, <1>2, <2>1, <2>4 DEF NewBehind, Applying
  <2> QED BY <1>3, <1>7, <2>1, <2>3, <2>5 DEF Inv, InRecord, MemoryIsImage
<1> QED BY <1>8, <1>9

\* No segment has been applied before the old image is shifted.
Start == doing \in {"create", "apply"} => index = 0

LEMMA InvStep ==
    ASSUME Inv, Start, [Next]_vars, ShiftPossible
    PROVE  Inv' /\ Start'
<1>1. Laid'
  BY LaidStep DEF Inv
<1>2. CASE Create
  BY <1>1, <1>2, InvCreate DEF Create, Start, piece
<1>3. CASE ShiftMemory
  BY <1>1, <1>3, InvShift DEF ShiftMemory, Start
<1>4. CASE BeginSegment
  BY <1>1, <1>4, InvBegin DEF BeginSegment, Start
<1>5. CASE DiffChunk
  BY <1>1, <1>5, InvDiffChunk DEF DiffChunk, Start
<1>6. CASE DiffDone
  BY <1>1, <1>6, InvDiffDone DEF DiffDone, Start
<1>7. CASE ExtraChunk
  BY <1>1, <1>7, InvExtraChunk DEF ExtraChunk, Start
<1>8. CASE Adjustment
  BY <1>1, <1>8, InvAdjustment DEF Adjustment, Start
<1>9. CASE Idle \/ UNCHANGED vars
  <2>1. UNCHANGED vars
    BY <1>9 DEF Idle
  <2>2. patch' = patch /\ doing' = doing /\ mem' = mem /\ index' = index /\ record' = record
        /\ old_pos' = old_pos /\ from_offset' = from_offset /\ to_pos' = to_pos
        /\ left' = left
    BY <2>1 DEF vars, piece
  <2>3. request' = request /\ header' = header /\ Kept' = Kept
        /\ (\A s : FirstFrom(s)' = FirstFrom(s))
        /\ (\A s : OldPiece(s)' = OldPiece(s)) /\ (\A s : NewPiece(s)' = NewPiece(s))
    BY <2>2, SamePatch
  <2>4. Memory'
    BY <2>2, <2>3 DEF Inv, Memory
  <2>5. OldAhead' /\ NewBehind'
    BY <2>2, <2>3 DEF Inv, OldAhead, NewBehind, Applying
  <2>6. InRecord'
    BY <2>2, <2>3 DEF Inv, InRecord
  <2>7. MemoryIsImage'
    BY <2>2, <2>3 DEF Inv, MemoryIsImage
  <2> QED BY <1>1, <2>2, <2>4, <2>5, <2>6, <2>7 DEF Inv, Start
<1> QED BY <1>2, <1>3, <1>4, <1>5, <1>6, <1>7, <1>8, <1>9 DEF Next

LEMMA InvAlways ==
    ASSUME ShiftPossible
    PROVE  Spec => []Inv
<1>1. Init => Inv /\ Start
  <2> SUFFICES ASSUME Init PROVE Inv /\ Start
    OBVIOUS
  <2>1. request \in Requests /\ request.memory \in Nat /\ request.from \in 0 .. request.memory
    BY RequestsAssumption DEF Init
  <2>2. Memory
    BY <2>1 DEF Init, Memory
  <2> QED
    BY <2>1, <2>2 DEF Init, Inv, Start, Laid, OldAhead, NewBehind, InRecord, Applying,
       MemoryIsImage
<1>2. Inv /\ Start /\ [Next]_vars => Inv' /\ Start'
  BY InvStep
<1> QED BY <1>1, <1>2, PTL DEF Spec

\* When apply_patch_in_place returns, the memory holds the new image, whatever records
\* the creator chose, and however the images, the segments and the shift overlap.
THEOREM MemoryIsImageAlways ==
    ASSUME ShiftPossible
    PROVE  Spec => []MemoryIsImage
<1>1. Inv => MemoryIsImage
  BY DEF Inv
<1> QED BY <1>1, InvAlways, PTL

\* The old bytes that the records of a segment refer to, and those of the segments
\* after it, are in the memory when it begins.
THEOREM OldIsThereAlways ==
    ASSUME ShiftPossible
    PROVE  Spec => []OldIsThere
<1>1. Inv => OldIsThere
  BY DEF Inv, OldAhead, OldIsThere, Applying
<1> QED BY <1>1, InvAlways, PTL
=============================================================================
