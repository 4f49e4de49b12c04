----------------------------- MODULE CrleFormat -----------------------------
(***************************************************************************)
(* The format of conditional run length encoding, as                       *)
(* detools/compression/crle.py writes and reads it.  A stream is a         *)
(* sequence of segments: a kind, a size, and either that many bytes or one *)
(* byte to repeat.                                                         *)
(***************************************************************************)
EXTENDS Integers, Sequences

Scattered == 0
Repeated == 1

Least(S) == CHOOSE k \in S : \A j \in S : k <= j

\* pack_size of crle.py: 7 bits a byte, the least significant ones first.
PackUsize[value \in Nat] ==
    IF value < 128 THEN <<value>>
    ELSE <<128 + (value % 128)>> \o PackUsize[value \div 128]

Segment(kind, s) ==
    <<kind>> \o PackUsize[Len(s)] \o (IF kind = Scattered THEN s ELSE <<s[1]>>)

\* The last byte of the size that begins at s[k], and the size: Value[j] is that of
\* its last j + 1 bytes.
SizeEnd(s, k) == Least({j \in k .. Len(s) : s[j] < 128})
UsizeAt(s, k) ==
    LET end == SizeEnd(s, k)
        Value[j \in 0 .. end - k] ==
            IF j = 0 THEN s[end] ELSE 128 * Value[j - 1] + (s[end - j] % 128)
    IN  Value[end - k]

\* The bytes that the segments of a stream stand for, segment after segment: each
\* takes two bytes of it or more.
NextSegment(s, p) ==
    LET size == UsizeAt(s, p.at + 2)
        body == SizeEnd(s, p.at + 2)
    IN  CASE p.at = Len(s) -> p
          [] p.at < Len(s) /\ s[p.at + 1] = Scattered ->
                [at |-> body + size, out |-> p.out \o SubSeq(s, body + 1, body + size)]
          [] OTHER ->
                [at |-> body + 1, out |-> p.out \o [j \in 1 .. size |-> s[body + 1]]]

Decoded(s) ==
    LET most == Len(s) \div 2
        After[n \in 0 .. most] ==
            IF n = 0 THEN [at |-> 0, out |-> <<>>] ELSE NextSegment(s, After[n - 1])
    IN  After[most].out
=============================================================================
