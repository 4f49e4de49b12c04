----------------------------- MODULE MCInPlace -----------------------------
(***************************************************************************)
(* Small instances of InPlaceFile.  The patch of a segment is all extra    *)
(* data, one diff and extra data, or two records with a jump forwards or   *)
(* backwards in the old image between them.                                *)
(***************************************************************************)
EXTENDS InPlaceFile

Rec(from, to, diff, extra, adjust) ==
    [from |-> from, to |-> to, diff |-> diff, extra |-> extra, adjust |-> adjust]

\* The records of segment s: the kind of patch, where the old image allows it,
\* and otherwise extra data only.  n is the size of a diff or a position in the
\* old image.
SegmentPatch(s, kind, n) ==
    LET first == FirstFrom(s)
        size == SegmentToSize(s)
        Extra == <<Rec(first, 0, 0, size, 0)>>
    IN  CASE kind = "diff" /\ n <= size /\ first + n <= Kept ->
                <<Rec(first, 0, n, size - n, 0)>>
          [] kind = "two" /\ size >= 2 /\ first <= n /\ n < Kept ->
                <<Rec(first, 0, 1, 0, n - first - 1), Rec(n, 1, 1, size - 2, -1)>>
          [] kind = "jump" /\ size >= 2 /\ first <= n /\ n + size - 1 <= Kept ->
                <<Rec(first, 0, 0, 1, n - first), Rec(n, 1, size - 1, 0, 0)>>
          [] OTHER -> Extra

SomePatches ==
    {[s \in 0 .. SegmentCount - 1 |-> SegmentPatch(s, kind, n)] :
        kind \in {"diff", "two", "jump"}, n \in 0 .. Kept}
=============================================================================
