-------------------------------- MODULE Crle --------------------------------
(***************************************************************************)
(* Conditional run length encoding: the compressor of                      *)
(* detools/compression/crle.py.  The creator of a patch hands the data     *)
(* over in pieces of any size; every piece yields at most one segment, and *)
(* the flush all that are left.                                            *)
(***************************************************************************)
EXTENDS CrleFormat

CONSTANTS
    Inputs,               \* the data that may be compressed
    MinimumRepeatedSize,  \* MINIMUM_REPEATED_SIZE
    MaxPiece              \* bound: bytes handed over in a call that does
                          \* not hand over all the rest

CrleAssumption ==
    /\ \A input \in Inputs : input \in Seq(0 .. 255)
    /\ MinimumRepeatedSize \in Nat \ {0}
    /\ MaxPiece \in Nat \ {0}

VARIABLES
    input,      \* all the data of the patch
    given,      \* how much of it has been handed over
    data,       \* _data: what has not been compressed yet
    stream,     \* what the calls have returned so far
    flushing    \* "no", "yes" (_flushing), or "done"

compressor == <<input, given, data, stream, flushing>>

\* The number of bytes from s[k] on that equal s[k].
RunLength(s, k) ==
    Least({n \in 1 .. Len(s) - k + 1 : k + n = Len(s) + 1 \/ s[k + n] # s[k]})

\* find_repeated_segment: where long runs start.
Runs(s) == {k \in 1 .. Len(s) : RunLength(s, k) >= MinimumRepeatedSize}

\* Mutant: a run at the end of the data is taken while more of it may follow, and
\* what it is preceded by goes with it.
GreedySegment(s, flush) ==
    LET run == Least(Runs(s))
    IN  IF Runs(s) = {} THEN [kind |-> Scattered, size |-> IF flush THEN Len(s) ELSE 0]
        ELSE [kind |-> Repeated, size |-> run - 1 + RunLength(s, run)]

\* get_segment: the kind and size of the segment at the start of s; size 0 if
\* there is none yet.
GetSegment(s, flush) ==
    LET run == Least(Runs(s))
        size == RunLength(s, 1)
    IN  IF Runs(s) = {} THEN [kind |-> Scattered, size |-> IF flush THEN Len(s) ELSE 0]
        ELSE IF run > 1 THEN [kind |-> Scattered, size |-> run - 1]
        ELSE [kind |-> Repeated,
              size |-> IF size < Len(s) \/ flush THEN size ELSE 0]

\* compress_segment
CompressSegment(s, flush) ==
    LET segment == GetSegment(s, flush)
    IN  IF s = <<>> \/ segment.size = 0
        THEN data' = s /\ UNCHANGED stream
        ELSE /\ stream' = stream \o Segment(segment.kind, SubSeq(s, 1, segment.size))
             /\ data' = SubSeq(s, segment.size + 1, Len(s))

InitCompressor ==
    /\ input \in Inputs
    /\ given = 0
    /\ data = <<>>
    /\ stream = <<>>
    /\ flushing = "no"

\* compress
Compress ==
    /\ flushing = "no"
    /\ \E n \in 1 .. MaxPiece \cup {Len(input) - given} :
          /\ n > 0
          /\ given + n <= Len(input)
          /\ given' = given + n
          /\ CompressSegment(data \o SubSeq(input, given + 1, given + n), FALSE)
    /\ UNCHANGED <<input, flushing>>

\* flush: without any data, one empty segment.
Flush ==
    /\ flushing = "no" /\ given = Len(input)
    /\ \/ /\ stream = <<>> /\ data = <<>>
          /\ stream' = <<Scattered>> \o PackUsize[0]
          /\ flushing' = "done"
       \/ /\ stream # <<>> \/ data # <<>>
          /\ flushing' = "yes"
          /\ UNCHANGED stream
    /\ UNCHANGED <<input, given, data>>

FlushSegment ==
    /\ flushing = "yes" /\ data # <<>>
    /\ CompressSegment(data, TRUE)
    /\ UNCHANGED <<input, given, flushing>>

FlushEnd ==
    /\ flushing = "yes" /\ data = <<>>
    /\ flushing' = "done"
    /\ UNCHANGED <<input, given, data, stream>>

Compressor == Compress \/ Flush \/ FlushSegment \/ FlushEnd

\* Nothing is lost or reordered between the segments: those returned so far stand
\* for the data handed over, up to what the compressor still holds.
Lossless == Decoded(stream) \o data = SubSeq(input, 1, given)
=============================================================================
