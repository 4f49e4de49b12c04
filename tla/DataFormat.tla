----------------------------- MODULE DataFormat -----------------------------
(***************************************************************************)
(* The data format arm-cortex-m4 (detools/data_format/arm_cortex_m4.py and *)
(* utils.py).  Addresses move when a program is built anew, so the creator *)
(* looks for the words of an image that hold one (branches, literals that  *)
(* are loaded, pointers), puts zeros in their place in both images, and    *)
(* lists in the patch how they differ.  The applier has the old image      *)
(* only: it must find the same words in it to make the same zeros, and the *)
(* words of the new image from the differences.                            *)
(*                                                                         *)
(* An image is a sequence of bytes; the byte at address a is image[a + 1]. *)
(* The values of words are exact integers of up to 33 bits: such a number  *)
(* is the pair <<high, low>> that stands for high * 2^16 + low.            *)
(***************************************************************************)
EXTENDS Integers, Sequences, FiniteSets, SequencesExt, FiniteSetsExt

CONSTANTS
    Programs,      \* records [from, to : Seq(0 .. 255), segment : [from, to : Segment]]
    MinBlockSize   \* 8 in create_patch_block

-----------------------------------------------------------------------------
(* Bytes and numbers *)

\* read(n) at address a: fewer bytes at the end of the image.
ReadAt(image, a, n) == SubSeq(image, a + 1, Min({a + n, Len(image)}))

Zeros(n) == [i \in 1 .. n |-> 0]

\* write(bytes) at address a of a BytesIO, which grows as needed.
WriteAt(image, a, bytes) ==
    [i \in 1 .. Max({Len(image), a + Len(bytes)}) |->
        IF i - a \in DOMAIN bytes THEN bytes[i - a]
        ELSE IF i <= Len(image) THEN image[i] ELSE 0]

\* Four zeros at each of the addresses, which are those of whole words.
WithZeros(image, addresses) ==
    [i \in DOMAIN image |-> IF \E a \in addresses : i - a \in 1 .. 4 THEN 0 ELSE image[i]]

\* bsdiff.add_bytes: <<>> stands for the exception that unequal lengths raise.
AddBytes(first, second) ==
    IF Len(first) # Len(second) THEN <<>>
    ELSE [i \in DOMAIN first |-> (first[i] + second[i]) % 256]

\* The number in the 16 bits at bytes[i]; the w bits of x from bit b on.
Half(bytes, i) == bytes[i] + 256 * bytes[i + 1]
Bits(x, b, w) == (x \div 2^b) % 2^w
HalfBytes(x) == <<x % 256, x \div 256>>

Wide(high, low) == <<high + low \div 65536, low % 65536>>
WideOf(x) == Wide(0, x)
Narrow(v) == v[1] * 65536 + v[2]
Minus(v, w) == Wide(v[1] - w[1], v[2] - w[2])
Below(v, w) == v[1] < w[1] \/ (v[1] = w[1] /\ v[2] < w[2])
Within(v, begin, end) == ~ Below(v, begin) /\ Below(v, end)

-----------------------------------------------------------------------------
(* Words that hold an address *)

\* In the order in which the creator handles them, and the DiffReader.
EncodeOrder == <<"data", "code", "bw", "bl", "ldr", "ldr_w">>
WriteOrder == <<"ldr", "ldr_w", "bl", "bw", "data", "code">>
Kinds == Range(EncodeOrder)

unpack_bw(upper, lower) ==
    LET s == Bits(upper, 10, 1)
    IN  Bits(lower, 12, 1) + 2 * Bits(upper, 6, 4) + 2^5 * Bits(lower, 0, 11)
          + 2^16 * Bits(upper, 0, 6) + 2^22 * Bits(lower, 13, 1)
          + 2^23 * Bits(lower, 11, 1) + 2^24 * s - 2^25 * s

unpack_bl(upper, lower) ==
    LET s == Bits(upper, 10, 1)
        Inverted(j) == IF j = s THEN 1 ELSE 0
    IN  Bits(lower, 0, 11) + 2^11 * Bits(upper, 0, 10)
          + 2^21 * Inverted(Bits(lower, 11, 1)) + 2^22 * Inverted(Bits(lower, 13, 1))
          + 2^23 * s - 2^24 * s

pack_bw(value) ==
    LET v == IF value < 0 THEN value + 2^25 ELSE value
        upper == 30 * 2^11 + Bits(v, 24, 1) * 2^10 + Bits(v, 1, 4) * 2^6 + Bits(v, 16, 6)
        lower == 2 * 2^14 + Bits(v, 22, 1) * 2^13 + Bits(v, 0, 1) * 2^12
                   + Bits(v, 23, 1) * 2^11 + Bits(v, 5, 11)
    IN  HalfBytes(upper) \o HalfBytes(lower)

pack_bl(value) ==
    LET v == IF value < 0 THEN value + 2^24 ELSE value
        s == Bits(v, 23, 1)
        Inverted(i) == IF i = s THEN 1 ELSE 0
        upper == 30 * 2^11 + s * 2^10 + Bits(v, 11, 10)
        lower == 3 * 2^14 + Inverted(Bits(v, 22, 1)) * 2^13 + 2^12
                   + Inverted(Bits(v, 21, 1)) * 2^11 + Bits(v, 0, 11)
    IN  HalfBytes(upper) \o HalfBytes(lower)

\* The value of the word of this kind at address a: literals are signed ('<i'),
\* pointers are not ('<I').
ValueAt(image, kind, a) ==
    LET word == ReadAt(image, a, 4)
        first == Half(word, 1)
        second == Half(word, 3)
    IN  CASE kind = "bw" -> WideOf(unpack_bw(first, second))
          [] kind = "bl" -> WideOf(unpack_bl(first, second))
          [] kind \in {"data", "code"} -> <<second, first>>
          [] kind \in {"ldr", "ldr_w"} ->
                <<IF second < 32768 THEN second ELSE second - 65536, first>>

\* What the pack functions take: everything else that is no branch is a '<i'.
Packable(kind, v) ==
    CASE kind = "bw" -> -512 <= v[1] /\ v[1] < 512
      [] kind = "bl" -> -256 <= v[1] /\ v[1] < 256
      [] OTHER -> -32768 <= v[1] /\ v[1] < 32768

Packed(kind, v) ==
    CASE kind = "bw" -> pack_bw(Narrow(v))
      [] kind = "bl" -> pack_bl(Narrow(v))
      [] OTHER -> HalfBytes(v[2]) \o HalfBytes(v[1] % 65536)

-----------------------------------------------------------------------------
(* disassemble: the addresses of the words of each kind *)

\* Where the data of an image is (offset, offset_end), and which values are the
\* addresses of data and of code.
Segment ==
    [offset : Int, offset_end : Int, data : Int \X Int, data_end : Int \X Int,
     code : Int \X Int, code_end : Int \X Int]
NoSegment ==
    [offset |-> 0, offset_end |-> 0, data |-> <<0, 0>>, data_end |-> <<0, 0>>,
     code |-> <<0, 0>>, code_end |-> <<0, 0>>]

\* Every step reads at address at; a read that is short ends at the end of the image.
Moved(image, st, n) == [st EXCEPT !.at = Min({@ + n, Len(image)})]
Noted(st, kind, a) == [st EXCEPT !.found[kind] = @ \cup {a}]

disassemble_data(image, segment, st) ==
    LET v == ValueAt(image, "data", st.at)
        next == Moved(image, st, 4)
    IN  IF st.at + 4 > Len(image) THEN next
        ELSE IF Within(v, segment.data, segment.data_end) THEN Noted(next, "data", st.at)
        ELSE IF Within(v, segment.code, segment.code_end) THEN Noted(next, "code", st.at)
        ELSE next

\* The literal that an instruction at address a loads is at LiteralAt, if it is there.
LiteralAt(a, imm) == (IF a % 4 = 2 THEN a - 2 ELSE a) + imm
disassemble_ldr_common(image, st, kind, imm, n) ==
    LET a == LiteralAt(st.at, imm)
    IN  IF a + 4 <= Len(image) THEN Noted(Moved(image, st, n), kind, a)
                               ELSE Moved(image, st, n)

\* Instructions of four bytes of which nothing is noted.
IsWide(upper) ==
    \/ upper \div 16 \in {4027, 4025, 3981, 3973}   \* 0xfbb, 0xfb9, 0xf8d, 0xf85
    \/ upper \div 32 = 2000                         \* 0xfa00
    \/ upper \div 64 = 932                          \* 0xe900

disassemble_instruction(image, st) ==
    LET upper == Half(ReadAt(image, st.at, 2), 1)
        lower == Half(ReadAt(image, st.at + 2, 2), 1)
        next == Moved(image, st, 4)
        \* Bits 15, 14 and 12 of lower tell a bl from a b.w.
        is_bl == Bits(lower, 14, 2) = 3 /\ Bits(lower, 12, 1) = 1
        whole == st.at + 4 <= Len(image)
    IN  CASE st.at + 2 > Len(image) -> next
          [] st.at + 2 <= Len(image) /\ Bits(upper, 11, 5) = 30 ->
                CASE whole /\ is_bl -> Noted(next, "bl", st.at)
                  [] whole /\ Bits(lower, 14, 2) = 2 -> Noted(next, "bw", st.at)
                  [] OTHER -> next
          [] st.at + 2 <= Len(image) /\ Bits(upper, 11, 5) = 9 ->
                disassemble_ldr_common(image, st, "ldr", 4 * Bits(upper, 0, 8) + 4, 2)
          [] st.at + 2 <= Len(image) /\ upper = 63711 ->      \* 0xf8df
                IF whole
                THEN disassemble_ldr_common(image, st, "ldr_w", Bits(lower, 0, 12) + 4, 4)
                ELSE next
          [] OTHER -> IF IsWide(upper) THEN next ELSE Moved(image, st, 2)

\* A turn of the loop.
disassemble_turn(image, segment, st) ==
    CASE st.at >= Len(image) -> st
      [] st.at < Len(image) /\ segment.offset <= st.at
           /\ st.at < segment.offset_end -> disassemble_data(image, segment, st)
      [] OTHER -> IF st.at \in st.found["ldr"] \cup st.found["ldr_w"]
                  THEN Moved(image, st, 4)
                  ELSE disassemble_instruction(image, st)

disassemble(image, segment) ==
    LET After[n \in 0 .. Len(image)] ==
            IF n = 0 THEN [at |-> 0, found |-> [kind \in Kinds |-> {}]]
                     ELSE disassemble_turn(image, segment, After[n - 1])
    IN  After[Len(image)].found

\* The elements of a finite set in the order of their keys, which are numbers.
InOrder(S, key) ==
    [i \in 1 .. Cardinality(S) |->
        CHOOSE x \in S : Cardinality({y \in S : key[y] < key[x]}) = i - 1]

Sorted(addresses) == InOrder(addresses, [a \in addresses |-> a])

-----------------------------------------------------------------------------
(* The creator: encode *)

VARIABLES
    program,        \* the images and the segments that a patch is made for
    ffrom, fto,     \* the images with the zeros so far
    encoded,        \* how many kinds of words are encoded
    blocks          \* for each kind, the blocks of the patch

encode_vars == <<program, ffrom, fto, encoded, blocks>>

EncodeInit ==
    /\ program \in Programs
    /\ ffrom = program.from
    /\ fto = program.to
    /\ encoded = 0
    /\ blocks = [kind \in Kinds |-> <<>>]

\* get_matching_blocks: runs of equal distances between addresses, one after the
\* other in both images.  Which ones the matcher of difflib finds is left open.
Gaps(addresses) == [i \in 1 .. Len(addresses) - 1 |-> addresses[i + 1] - addresses[i]]

Runs(gaps, to_gaps) ==
    {r \in [from : 0 .. Len(gaps), to : 0 .. Len(to_gaps), size : 1 .. Len(gaps)] :
        /\ r.from + r.size <= Len(gaps) /\ r.to + r.size <= Len(to_gaps)
        /\ \A i \in 1 .. r.size : gaps[r.from + i] = to_gaps[r.to + i]}

get_matching_blocks(from_addresses, to_addresses) ==
    {matching \in SUBSET Runs(Gaps(from_addresses), Gaps(to_addresses)) :
        \A r, q \in matching :
            \/ r = q
            \/ r.from + r.size <= q.from /\ r.to + r.size <= q.to
            \/ q.from + q.size <= r.from /\ q.to + q.size <= r.to}

\* The header is absent, and nothing is encoded, when the end address is 0.
Present(kind) ==
    CASE kind = "data" -> program.segment.from.data_end # <<0, 0>>
      [] kind = "code" -> program.segment.from.code_end # <<0, 0>>
      [] OTHER -> TRUE

Nonzero(values) == Cardinality({i \in DOMAIN values : values[i] # <<0, 0>>})

\* create_patch_block: a run of n distances is a block of n + 1 values.
AddressesIn(image, segment, kind) == Sorted(disassemble(image, segment)[kind])

\* A run of n distances is a block of n + 1 values.
BlockOf(kind, from_addresses, to_addresses, r) ==
    [from_offset |-> r.from, to_address |-> to_addresses[r.to + 1],
     values |-> [i \in 1 .. r.size + 1 |->
        Minus(ValueAt(program.from, kind, from_addresses[r.from + i]),
              ValueAt(program.to, kind, to_addresses[r.to + i]))]]

create_patch_block(kind) ==
    LET from_addresses == AddressesIn(program.from, program.segment.from, kind)
        to_addresses == AddressesIn(program.to, program.segment.to, kind)
        Block(r) == BlockOf(kind, from_addresses, to_addresses, r)
    IN  \E matching \in get_matching_blocks(from_addresses, to_addresses) :
            LET kept == {r \in matching : /\ r.size >= MinBlockSize
                                          /\ Nonzero(Block(r).values) >= MinBlockSize}
                runs == InOrder(kept, [r \in kept |-> r.from])
            IN  /\ blocks' = [blocks EXCEPT ![kind] = [i \in DOMAIN runs |-> Block(runs[i])]]
                /\ ffrom' = WithZeros(ffrom,
                        UNION {{from_addresses[r.from + i] : i \in 1 .. r.size + 1} : r \in kept})
                /\ fto' = WithZeros(fto,
                        UNION {{to_addresses[r.to + i] : i \in 1 .. r.size + 1} : r \in kept})

EncodeKind ==
    /\ encoded < Len(EncodeOrder)
    /\ encoded' = encoded + 1
    /\ LET kind == EncodeOrder[encoded + 1]
       IN  IF Present(kind) THEN create_patch_block(kind)
                            ELSE UNCHANGED <<ffrom, fto, blocks>>
    /\ UNCHANGED program

Encoded == encoded = Len(EncodeOrder)

-----------------------------------------------------------------------------
(* The applier: create_readers *)

\* Mutant: the data are looked for from the start of the image on.
SegmentFromStart ==
    LET s == program.segment.from
    IN  IF Present("data")
        THEN [s EXCEPT !.offset = 0, !.offset_end = Narrow(Minus(s.data_end, s.data))]
        ELSE NoSegment

\* What the headers of the pointers say of the segments of the old image.
SegmentOfPatch ==
    LET s == program.segment.from
        data == IF Present("data")
                THEN [NoSegment EXCEPT !.offset = s.offset,
                        !.offset_end = s.offset + Narrow(Minus(s.data_end, s.data)),
                        !.data = s.data, !.data_end = s.data_end]
                ELSE NoSegment
    IN  IF Present("code") THEN [data EXCEPT !.code = s.code, !.code_end = s.code_end]
                           ELSE data

\* What the creator is told of the old image is what SegmentOfPatch makes of it: the data
\* are as long in the file as their addresses say, and none without a header.
SegmentsFit ==
    \A p \in Programs :
        LET s == p.segment.from
        IN  IF s.data_end = <<0, 0>> THEN s.offset_end <= s.offset
            ELSE s.offset_end = s.offset + Narrow(Minus(s.data_end, s.data))

\* The addresses of the new image are below 2^31, so that a pointer is a '<i' too.
PointersLow ==
    \A p \in Programs : \A end \in {p.segment.to.data_end, p.segment.to.code_end} :
        ~ Below(<<32768, 0>>, end)

\* The values of the blocks of a kind: at which place of the sorted addresses of the
\* old image they are, where they go in the new image, and the difference.
Entries(kind, addresses) ==
    FlattenSeq([b \in DOMAIN blocks[kind] |->
        LET block == blocks[kind][b]
        IN  [i \in DOMAIN block.values |->
                [kind |-> kind, from |-> addresses[block.from_offset + i],
                 to |-> block.to_address + addresses[block.from_offset + i]
                          - addresses[block.from_offset + 1],
                 value |-> block.values[i]]]])

\* An index that is out of range raises an exception.
Listed(kind, addresses) ==
    \A b \in DOMAIN blocks[kind] :
        blocks[kind][b].from_offset + Len(blocks[kind][b].values) <= Len(addresses)

\* The new value is the old one minus the difference.
EntryValue(old, entry) == Minus(ValueAt(old, entry.kind, entry.from), entry.value)
WriteEntry(diff, old, entry) == WriteAt(diff, entry.to, Packed(entry.kind, EntryValue(old, entry)))

\* The readers made from the old image old, or that an exception is raised.
Readers(old, to_size) ==
    LET addresses == [kind \in Kinds |-> AddressesIn(old, SegmentOfPatch, kind)]
        entries == FlattenSeq([k \in DOMAIN WriteOrder |->
                                    Entries(WriteOrder[k], addresses[WriteOrder[k]])])
        Diff[n \in 0 .. Len(entries)] ==
            IF n = 0 THEN Zeros(to_size) ELSE WriteEntry(Diff[n - 1], old, entries[n])
    IN  IF /\ \A kind \in Kinds : Listed(kind, addresses[kind])
           /\ \A i \in DOMAIN entries : Packable(entries[i].kind, EntryValue(old, entries[i]))
        THEN [raised |-> FALSE, diff |-> Diff[Len(entries)],
              from |-> WithZeros(old, {entries[i].from : i \in DOMAIN entries})]
        ELSE [raised |-> TRUE, diff |-> <<>>, from |-> <<>>]
=============================================================================
