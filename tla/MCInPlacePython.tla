-------------------------- MODULE MCInPlacePython --------------------------
(***************************************************************************)
(* Memories of up to 4 segments of 1 to 3 cells, with images of every size *)
(* that fits, for which some shift is possible.                            *)
(***************************************************************************)
EXTENDS InPlacePython

Request(memory, segment, minimum, from, to) ==
    [memory |-> memory, segment |-> segment, minimum |-> minimum, from |-> from, to |-> to]

Fitting(segment, segments, minimums) ==
    {Request(segment * segments, segment, minimum, from, to) :
        minimum \in minimums, from \in 0 .. segment * segments,
        to \in 0 .. segment * segments}

Small ==
    Fitting(2, 3, {None, 2, 3, 4, 6}) \cup Fitting(1, 4, {1, None}) \cup Fitting(3, 2, {3})
    \cup {Request(5, 2, None, 3, 3)}
=============================================================================
