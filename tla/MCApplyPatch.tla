---------------------------- MODULE MCApplyPatch ----------------------------
(***************************************************************************)
(* Small instances of ApplyPatch: patches with and without diff and extra  *)
(* data, with jumps in the old image whose size takes two bytes, damaged   *)
(* ones, and one whose header takes three bytes.                           *)
(***************************************************************************)
EXTENDS ApplyPatch

OldImage == [k \in 1 .. 70 |-> (7 * k) % 256]

Rec(diff, extra, adjust) == [diff |-> diff, extra |-> extra, adjust |-> adjust]

Good(records) ==
    LET to == ImageOf(OldImage, records)
    IN  [bytes |-> PackPatch(Len(to), records), to |-> to, good |-> TRUE]

Two == <<Rec(<<1, 255>>, <<9>>, 66), Rec(<<0>>, <<>>, -67)>>
Three == <<Rec(<<>>, <<5>>, 3), Rec(<<200, 0, 1, 2>>, <<>>, -5), Rec(<<7>>, <<8>>, 0)>>

Small == {Good(Two), Good(<<Rec(<<>>, <<3, 4, 5, 6>>, 0)>>), Good(Three)}

Long == Good(<<Rec(<<3>>, [k \in 1 .. 66 |-> k], -1), Rec(<<1, 1>>, <<>>, 0)>>)

Empty == Good(<<>>)

Bad(bytes) == [bytes |-> bytes, to |-> <<>>, good |-> FALSE]

\* Patches that end early or late, are of another type or compression, hold a
\* data format patch, and whose sizes exceed the image or an int.
Damaged ==
    LET p == Good(Three).bytes
    IN  {Bad(SubSeq(p, 1, n)) : n \in 1 .. Len(p) - 1}
        \cup {Bad(p \o <<0>>), Bad([p EXCEPT ![1] = 16]), Bad([p EXCEPT ![1] = 7]),
              Bad([p EXCEPT ![3] = 1]), Bad([p EXCEPT ![4] = 9]),
              Bad([p EXCEPT ![5] = 7]), Bad([p EXCEPT ![8] = 6]),
              Bad([p EXCEPT ![8] = 65]), Bad([p EXCEPT ![5] = 65]),
              Bad([k \in 1 .. 3 |-> p[k]] \o <<128, 128, 128, 128, 0, 0, 0>>)}

AllGood == Small \cup {Long, Empty}
Restorable == {Good(Two)}
OfAnyKind == AllGood \cup Damaged
=============================================================================
