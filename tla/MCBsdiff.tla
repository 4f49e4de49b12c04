------------------------------ MODULE MCBsdiff ------------------------------
(***************************************************************************)
(* All small images over two or three bytes, images with overlapping       *)
(* matches, and images of longer blocks that are moved, repeated, changed  *)
(* in a byte or new.                                                       *)
(***************************************************************************)
EXTENDS Bsdiff

Short == BoundedSeq({0, 1}, 4) \cup BoundedSeq({0, 1, 2}, 3)
ShortTo == BoundedSeq({0, 1}, 5) \cup BoundedSeq({0, 1, 2}, 3)

A == <<1, 2, 3, 4, 5, 6, 7, 8, 9, 10, 11>>
B == <<1, 2, 3, 4, 99, 6, 7, 8, 9, 10, 11>>
C == <<30, 31, 32, 33, 34, 35, 36, 37, 38, 39>>
D == <<5, 6, 7>>
Blocks == {<<>>, A, B, C, D}

Moved == {A \o C \o D, C \o D \o A, D \o A}
Changed == {p \o q \o r : p \in Blocks, q \in Blocks, r \in Blocks}

\* Images whose matches overlap where a record ends, so that it keeps all or a part
\* of the overlap.
Overlapping == {<<0, 0, 0, 1, 0, 1>>, <<0, 0, 0, 1, 1, 0>>}
OverlappingTo == {<<0, 0, 0>> \o s : s \in BoundedSeq({0, 1}, 4)}

ShortAndBlocks ==
    [from : Short, to : ShortTo, slack : {1}, faulty : {FALSE}]
    \cup [from : Overlapping, to : OverlappingTo, slack : {1}, faulty : {FALSE}]
    \cup [from : Moved, to : Changed, slack : {8}, faulty : {FALSE}]
    \cup [from : Moved, to : {C \o A, B}, slack : {8}, faulty : {TRUE}]
=============================================================================
