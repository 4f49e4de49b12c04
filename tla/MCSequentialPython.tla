------------------------- MODULE MCSequentialPython -------------------------
(***************************************************************************)
(* Programs of a few Thumb-2 instructions, literals and pointers, and      *)
(* programs built anew in which the same ones have other values and may    *)
(* have moved.                                                             *)
(***************************************************************************)
EXTENDS SequentialPython

\* bl, b.w, ldr of the literal n words after the next one, ldr.w of the bytes n after
\* that, nop, and the word 256 + n.
Bl(n) == <<n, 240, n, 248>>
Bw(n) == <<64 + n, 244, n, 184>>
Ldr(n) == <<n, 72>>
LdrW(n) == <<223, 248, n, 0>>
Nop == <<1, 0>>
Word(n) == <<n, 1, 0, 0>>

Codes == [
    calls    |-> [x, y \in 0 .. 2 |-> Bl(x) \o Bl(y)],
    jumps    |-> [x, y \in 0 .. 2 |-> Bw(x) \o Nop \o Bw(y)],
    literals |-> [x, y \in 0 .. 2 |-> Ldr(0) \o Ldr(1) \o Word(x) \o <<y, 0, 255, 255>>],
    overlaps |-> [x, y \in 0 .. 2 |-> LdrW(6) \o LdrW(4) \o Bl(x) \o Bl(y) \o Nop],
    wide     |-> [x, y \in 0 .. 2 |-> <<176, 251, x, 240>> \o Bl(y) \o Bl(x)]]

\* The data are two words at the end: pointers to data (256 to 263) or code (264 to 271).
SegmentBehind(code, high) ==
    [offset |-> Len(code), offset_end |-> Len(code) + 8,
     data |-> <<high, 256>>, data_end |-> <<high, 264>>,
     code |-> <<high, 264>>, code_end |-> <<high, 272>>]

Pointers(m, n, high) == <<m, 1>> \o HalfBytes(high) \o <<n, 1>> \o HalfBytes(high)

Built(code, new_code, pointers, new_pointers, high) ==
    [from |-> code \o pointers, to |-> new_code \o new_pointers,
     segment |-> [from |-> SegmentBehind(code, high), to |-> SegmentBehind(new_code, high)]]

\* Neither data nor addresses are given.
Plain(code, new_code) ==
    [from |-> code, to |-> new_code, segment |-> [from |-> NoSegment, to |-> NoSegment]]

Moves == {<<>>, Nop}
SmallPrograms ==
    {Built(Codes[c][0, 0], move \o Codes[c][1, y], Pointers(m, m + 2, 0),
           Pointers(m + 1, m + 4, 0), 0) :
        c \in DOMAIN Codes, move \in Moves, y \in 0 .. 1, m \in {0, 8}}
    \cup {Plain(Codes[c][0, 1], Codes[d][1, 0]) : c, d \in DOMAIN Codes}
    \cup {Plain(<<>>, Word(1)), Plain(Word(1), <<>>), Plain(Bl(0) \o <<1>>, <<0>> \o Bl(1))}

SmallFaults ==
    {[cut |-> cut, size |-> size, old |-> 0] : cut \in BOOLEAN, size \in {-3, 0, 2}}
    \cup {[cut |-> FALSE, size |-> 0, old |-> 4]}

\* Pointers to addresses of 2^31 and more.
HighPrograms ==
    {Built(Codes["calls"][0, 0], Codes["calls"][1, 1], Pointers(0, 2, 36864),
           Pointers(1, 4, 36864), 36864)}
NoFault == {[cut |-> FALSE, size |-> 0, old |-> 0]}
Given == {TRUE}

\* What the proofs assume of the programs is true of the small ones.
ASSUME SegmentsFit
ASSUME Programs = SmallPrograms => PointersLow

FewLengths(n) == {k \in {0, 3, n} : k <= n}
FewPlaces(n) == {k \in {0, 4} : k <= n}
=============================================================================
