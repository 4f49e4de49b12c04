----------------------------- MODULE PatchReader -----------------------------
(***************************************************************************)
(* What the appliers count on in a patch reader, whatever the compression: *)
(* the comment above patch_reader_decompress in c/detools.c, made precise. *)
(* A call delivers the next bytes of the data, at least one and at most    *)
(* what was asked for; or it delivers nothing, has used up its chunk, and  *)
(* asks for more; or it fails, and is not called again.                    *)
(***************************************************************************)
EXTENDS Integers, Sequences

VARIABLES
    data,    \* the data that was compressed
    left,    \* bytes of the current chunk not read yet
    wanted,  \* bytes asked for in the current call, 0 if there is none
    out,     \* what the calls so far have delivered
    res      \* what the last call returned, "again" in a call

vars == <<data, left, wanted, out, res>>

Init ==
    /\ left = 0 /\ wanted = 0
    /\ out = <<>>
    /\ res \in {"none", "error"}

\* A chunk comes when the one before is used up.
Feed ==
    /\ wanted = 0 /\ left = 0
    /\ left' \in Nat \ {0}
    /\ UNCHANGED <<data, wanted, out, res>>

Call ==
    /\ wanted = 0 /\ res # "error"
    /\ wanted' \in Nat \ {0}
    /\ res' = "again"
    /\ UNCHANGED <<data, left, out>>

\* In a call the reader may read from the chunk.
Work ==
    /\ wanted > 0
    /\ left' \in 0 .. left
    /\ UNCHANGED <<data, wanted, out, res>>

Return(code) == wanted > 0 /\ wanted' = 0 /\ res' = code /\ UNCHANGED data

Deliver ==
    /\ Return("ok")
    /\ left' \in 0 .. left
    /\ \E n \in 1 .. wanted :
          Len(out) + n <= Len(data) /\ out' = SubSeq(data, 1, Len(out) + n)

AskForMore == Return("more") /\ left' = 0 /\ UNCHANGED out

Fail == Return("error") /\ left' \in 0 .. left /\ UNCHANGED out

Next == Feed \/ Call \/ Work \/ Deliver \/ AskForMore \/ Fail

Spec == Init /\ [][Next]_vars
=============================================================================
