------------------------------- MODULE Bsdiff -------------------------------
(***************************************************************************)
(* The creation of a patch as detools/create.py calls it: the suffix array *)
(* of the old image (detools/suffix_array.c), and the records that make    *)
(* the new image of it (detools/bsdiff.c).  The two are extensions of      *)
(* Python: they hold the buffers of the caller's objects while they work,  *)
(* and any call to Python may fail.                                        *)
(*                                                                         *)
(* The new image is scanned for matches in the old one, found by a search  *)
(* of its suffix array, and cut into records.  A record ends where a match *)
(* at another offset is better, by more than slack bytes, than the old     *)
(* image at the offset of the record before.  A record takes as much of    *)
(* the approximate match before it (diff) and after it (which the next one *)
(* begins with) as agrees in more than half of the bytes; what is left     *)
(* between is extra.                                                       *)
(***************************************************************************)
EXTENDS PatchFormat, FiniteSetsExt, SequencesExt

CONSTANTS
    Cases  \* pairs of images, the slack (8 in create_patch_loop), and, as a
           \* bound, whether calls to Python may fail

ASSUME CasesAssumption ==
    Cases \subseteq [from : Seq(Byte), to : Seq(Byte), slack : Nat, faulty : BOOLEAN]

VARIABLES
    from, to, slack, faulty,          \* the case
    sa,                               \* the suffix array of the old image
    scan, pos, len, scsc,             \* the match at scan, and what is scored of it
    last_scan, last_pos, last_offset, \* where the last record ended
    from_score,
    chunks,                           \* the records written
    loop,                             \* where the call is
    views,                            \* the buffers that are held (Py_buffer)
    list                              \* the list: "none", "held", "returned", "freed"

case == <<from, to, slack, faulty>>
images == <<case, sa>>
python == <<views, list>>
match == <<scan, pos, len, scsc, from_score>>
last == <<last_scan, last_pos, last_offset>>
vars == <<images, match, last, chunks, loop, python>>

from_size == Len(from)
to_size == Len(to)

\* The byte at an index of C.
FromAt(k) == from[k + 1]
ToAt(k) == to[k + 1]

Agree(f, t) == f < from_size /\ FromAt(f) = ToAt(t)

-----------------------------------------------------------------------------
\* The first difference of two suffixes, or the length of the shorter one.
matchlen(f, t) ==
    LET n == Min({from_size - f, to_size - t})
        Differ == {k \in 0 .. n - 1 : FromAt(f + k) # ToAt(t + k)}
    IN  IF Differ = {} THEN n ELSE Min(Differ)

\* Mutant: the sign of memcmp is mistaken.
After(f, t) ==
    LET k == matchlen(f, t)
    IN  f + k < from_size /\ t + k < to_size /\ FromAt(f + k) > ToAt(t + k)

\* memcmp over the length of the shorter one.
Before(f, t) ==
    LET k == matchlen(f, t)
    IN  f + k < from_size /\ t + k < to_size /\ FromAt(f + k) < ToAt(t + k)

\* The suffix of an image from f on comes before that from g on in lexicographic order.
Precedes(image, f, g) ==
    LET n == Len(image)
    IN  \E k \in 0 .. n - Max({f, g}) :
           /\ \A j \in 1 .. k : image[f + j] = image[g + j]
           /\ g + k < n
           /\ f + k = n \/ image[f + k + 1] < image[g + k + 1]

\* The suffixes of an image in this order, the empty one first.
SuffixArray(image) ==
    LET n == Len(image)
        Rank == [f \in 0 .. n |-> Cardinality({g \in 0 .. n : Precedes(image, g, f)})]
    IN  [k \in 1 .. n + 1 |-> CHOOSE f \in 0 .. n : Rank[f] = k - 1]

\* The better of the matches at two indexes of the suffix array.
Better(t, b, e) ==
    LET x == [pos |-> sa[b + 1], len |-> matchlen(sa[b + 1], t)]
        y == [pos |-> sa[e + 1], len |-> matchlen(sa[e + 1], t)]
    IN  IF x.len > y.len THEN x ELSE y

\* search, from the indexes from_begin and from_end of the suffix array.
search(t) ==
    LET Found[r \in (0 .. from_size) \X (0 .. from_size)] ==
            LET b == r[1]
                e == r[2]
                x == b + (e - b) \div 2
            IN  IF e - b < 2 THEN Better(t, b, e)
                ELSE IF Before(sa[x + 1], t) THEN Found[<<x, e>>]
                ELSE Found[<<b, x>>]
    IN  Found[<<0, from_size>>]

-----------------------------------------------------------------------------
\* The shortest prefix of the sizes 0 .. n with the greatest gain.
Best(gain, n) ==
    Min({i \in 0 .. n : \A j \in 0 .. n : gain[j] <= gain[i]})

\* The equal bytes of two pieces.
Equal(f, t, n) == Cardinality({k \in 0 .. n - 1 : FromAt(f + k) = ToAt(t + k)})

\* How far the match of the last record goes on.
Forward ==
    LET n == Min({scan - last_scan, from_size - last_pos})
        Gain == [i \in 0 .. n |-> 2 * Equal(last_pos, last_scan, i) - i]
    IN  Best(Gain, n)

\* How far back the new match begins.
Backward ==
    LET n == IF scan < to_size THEN Min({scan - last_scan, pos}) ELSE 0
        Gain == [i \in 0 .. n |-> 2 * Equal(pos - i, scan - i, i) - i]
    IN  Best(Gain, n)

\* The part of an overlap of both that the last record keeps.
Split(diff_size, lenb, overlap) ==
    LET t == scan - lenb
        Gain == [i \in 0 .. overlap |->
                    Equal(last_pos + diff_size - overlap, t, i) - Equal(pos - lenb, t, i)]
    IN  Best(Gain, overlap)

\* Mutant: the bytes given to the last record are kept in the new match as well.
KeptOverlap ==
    LET overlap == (last_scan + Forward) - (scan - Backward)
        lens == Split(Forward, Backward, overlap)
    IN  IF overlap > 0
        THEN [diff |-> Forward + lens - overlap, lenb |-> Backward]
        ELSE [diff |-> Forward, lenb |-> Backward]

\* The sizes of a record, and where the next one begins.
Cut ==
    LET overlap == (last_scan + Forward) - (scan - Backward)
        lens == Split(Forward, Backward, overlap)
    IN  IF overlap > 0
        THEN [diff |-> Forward + lens - overlap, lenb |-> Backward - lens]
        ELSE [diff |-> Forward, lenb |-> Backward]

\* The record written for a cut.
Chunk(cut) ==
    LET extra_pos == last_scan + cut.diff
    IN  [diff |-> [k \in 1 .. cut.diff |->
                      (to[last_scan + k] - from[last_pos + k]) % 256],
         extra |-> SubSeq(to, extra_pos + 1, scan - cut.lenb),
         adjust |-> (pos - cut.lenb) - (last_pos + cut.diff)]

-----------------------------------------------------------------------------
\* create_chunks_heap of create.py calls the two extensions.
Init ==
    /\ \E c \in Cases :
          from = c.from /\ to = c.to /\ slack = c.slack /\ faulty = c.faulty
    /\ sa = <<>>
    /\ scan = 0 /\ pos = 0 /\ len = 0 /\ scsc = 0 /\ from_score = 0
    /\ last_scan = 0 /\ last_pos = 0 /\ last_offset = 0
    /\ chunks = <<>>
    /\ loop = "suffix_array"
    /\ views = {} /\ list = "none"

\* Mutant: an error label releases no more than the buffer that was got last.
LastReleased(order, n) == views \ {order[k] : k \in {n} \ {0}}

\* The error labels, from the one for the n-th of the buffers on, fall through to
\* those of the buffers before it.
Released(order, n) == views \ {order[k] : k \in 1 .. n}

\* A call to Python fails: the buffers and the list are given up, and NULL is
\* returned.
GiveUp(order) ==
    /\ faulty
    /\ views' = Released(order, Cardinality(views))
    /\ list' = IF list = "held" THEN "freed" ELSE list
    /\ loop' = "failed"
    /\ UNCHANGED <<images, match, last, chunks>>

\* The buffers in the order in which they are got.
ArrayBuffers == <<"from", "suffix_array">>
PatchBuffers == <<"suffix_array", "from", "to", "de">>

\* PyObject_GetBuffer for the next one.
GetBuffer(order) ==
    LET n == Cardinality(views)
    IN  /\ n < Len(order)
        /\ \/ /\ views' = views \cup {order[n + 1]}
              /\ UNCHANGED <<images, match, last, chunks, loop, list>>
           \/ GiveUp(order)

\* `create`: the array is filled by sais or divsufsort, which may lack memory.
CreateArray ==
    /\ loop = "suffix_array"
    /\ \/ GetBuffer(ArrayBuffers)
       \/ /\ views = Range(ArrayBuffers)
          /\ \/ /\ sa' = SuffixArray(from)
                /\ views' = {}
                /\ loop' = "parse_args"
                /\ UNCHANGED <<case, match, last, chunks, list>>
             \/ GiveUp(ArrayBuffers)

\* m_create_patch gets its arguments and an empty list.
ParseArgs ==
    /\ loop = "parse_args"
    /\ \/ GetBuffer(PatchBuffers)
       \/ /\ views = Range(PatchBuffers)
          /\ \/ /\ list' = "held"
                /\ loop' = "next"
                /\ UNCHANGED <<images, match, last, chunks, views>>
             \/ GiveUp(PatchBuffers)

\* The scan goes on after the match.
NextMatch ==
    /\ loop = "next"
    /\ scan < to_size
    /\ from_score' = 0
    /\ scan' = scan + len
    /\ scsc' = scan'
    /\ loop' = IF scan' < to_size THEN "scan" ELSE "cut"
    /\ UNCHANGED <<images, pos, len, last, chunks, python>>

\* The bytes from scsc on, as far as the match goes, that the offset of the
\* last record gives as well.
Scored(end) ==
    Cardinality({k \in scsc .. end - 1 : Agree(k + last_offset, k)})

\* Mutant: an empty match is taken.
TakenEmpty(found, score) == found.len = score \/ found.len > score + slack

\* Mutant: a match is taken one byte too early.
TakenEarly(found, score) ==
    \/ found.len = score /\ found.len # 0
    \/ found.len >= score + slack

\* A match is taken when the last offset gives all of it, or lacks more than
\* slack bytes of it.
Taken(found, score) ==
    \/ found.len = score /\ found.len # 0
    \/ found.len > score + slack

\* Mutant: the byte passed over stays in the score.
Forgotten(score) == score

\* The score after the byte at scan is passed over.
Passed(score) == IF Agree(scan + last_offset, scan) THEN score - 1 ELSE score

\* The inner loop: a search at each byte until a match is taken.
Search ==
    /\ loop = "scan"
    /\ LET found == search(scan)
           score == from_score + Scored(scan + found.len)
       IN  /\ len' = found.len
           /\ pos' = found.pos
           /\ scsc' = Max({scsc, scan + found.len})
           /\ IF Taken(found, score)
              THEN /\ from_score' = score
                   /\ loop' = "cut"
                   /\ UNCHANGED scan
              ELSE /\ from_score' = Passed(score)
                   /\ scan' = scan + 1
                   /\ loop' = IF scan' < to_size THEN "scan" ELSE "cut"
    /\ UNCHANGED <<images, last, chunks, python>>

\* Mutant: the record at the end of the image is not written.
WriteIfBetter ==
    /\ loop = "cut"
    /\ IF len # from_score
       THEN /\ chunks' = Append(chunks, Chunk(Cut))
            /\ last_scan' = scan - Cut.lenb
            /\ last_pos' = pos - Cut.lenb
            /\ last_offset' = pos - scan
       ELSE UNCHANGED <<chunks, last>>
    /\ loop' = "next"
    /\ UNCHANGED <<images, match, python>>

\* write_diff_extra_and_adjustment, unless the last record goes on.
WriteChunk ==
    /\ loop = "cut"
    /\ IF len # from_score \/ scan = to_size
       THEN /\ chunks' = Append(chunks, Chunk(Cut))
            /\ last_scan' = scan - Cut.lenb
            /\ last_pos' = pos - Cut.lenb
            /\ last_offset' = pos - scan
       ELSE UNCHANGED <<chunks, last>>
    /\ loop' = "next"
    /\ UNCHANGED <<images, match, python>>

\* One of the items of a record cannot be appended to the list.
AppendFails ==
    /\ loop = "cut"
    /\ len # from_score \/ scan = to_size
    /\ GiveUp(PatchBuffers)

\* The list of chunks is returned.
Return ==
    /\ loop = "next"
    /\ scan >= to_size
    /\ loop' = "returned"
    /\ views' = {}
    /\ list' = "returned"
    /\ UNCHANGED <<images, match, last, chunks>>

Idle == loop \in {"returned", "failed"} /\ UNCHANGED vars

Next ==
    \/ CreateArray \/ ParseArgs
    \/ NextMatch \/ Search \/ WriteChunk \/ AppendFails \/ Return \/ Idle

Spec == Init /\ [][Next]_vars /\ WF_vars(Next)

-----------------------------------------------------------------------------
\* The records written so far, applied to the old image, give the new one up to
\* where the next record begins, and leave the old image where it begins.
ChunksMakeImage ==
    Building(from, chunks)[Len(chunks)]
        = [pos |-> last_pos, to |-> SubSeq(to, 1, last_scan)]

\* Every byte of the new image is in the returned records, and only the last of
\* them reaches its end: the appliers end the update there (detools.c,
\* process_adjustment).
ReturnsWhole ==
    loop = "returned" =>
        /\ ImageOf(from, chunks) = to
        /\ \A k \in 0 .. Len(chunks) - 1 : Len(Building(from, chunks)[k].to) < to_size

\* While the scan goes on, from_score is the number of bytes from scan to scsc
\* that the last offset gives, however matches overlap.
ScoreIsExact ==
    loop = "scan" =>
        LET Agreeing(a, b) ==
                Cardinality({k \in a .. b - 1 : Agree(k + last_offset, k)})
        IN  from_score = Agreeing(scan, scsc) - Agreeing(scsc, scan)

\* The search misses no byte of the old image, and only a match that the end of
\* the old image cuts off may be shorter than the longest one: memcmp over the
\* shorter length takes such a suffix for one that is not smaller.
SearchFinds ==
    [][loop = "scan" =>
          \/ len' = Max({matchlen(f, scan) : f \in 0 .. from_size})
          \/ len' > 0 /\ pos' + len' = from_size]_vars

\* A record ends, before the end of the image, only for a match that gives more
\* than slack bytes the last offset does not.
CutsForGain ==
    [][chunks' # chunks /\ scan < to_size =>
          len > slack + Cardinality({k \in scan .. scan + len - 1 :
                                        Agree(k + last_offset, k)})]_vars

\* Wherever a call to Python fails, no buffer stays locked (the caller's mmap could
\* not be closed), and the list is either returned or freed.
BuffersReleased ==
    loop \in {"returned", "failed"} =>
        /\ views = {}
        /\ list = "returned" <=> loop = "returned"
        /\ list # "held"

\* The scan ends.
Ends == <>(loop \in {"returned", "failed"})
=============================================================================
