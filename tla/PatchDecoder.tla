---------------------------- MODULE PatchDecoder ----------------------------
(***************************************************************************)
(* What a sequential patch says, whether well formed or not: a decoder     *)
(* that is given the whole file, takes it byte by byte, and makes the new  *)
(* image or goes wrong.  It is the specification of the applier, which     *)
(* gets a patch in chunks of any size, works on blocks of data, and may be *)
(* dumped, crash and be restored on the way.  The arithmetic of the sizes  *)
(* is that of c/detools.c.                                                 *)
(***************************************************************************)
EXTENDS PatchFormat

\* struct detools_apply_patch_size_t in its first state.  The weight of the next 7
\* bits is 2 to the power of its offset.
FirstSize == [first |-> TRUE, value |-> 0, weight |-> 0, is_signed |-> FALSE]

\* is_overflow: the next 7 bits do not fit in an int (the offset is more than 25).
Overflow(size) == ~size.first /\ size.weight > 33554432

\* A size after one more byte of it.
SizeAfter(size, byte) ==
    IF size.first
    THEN [first |-> FALSE, value |-> byte % 64, weight |-> 64,
          is_signed |-> (byte \div 64) % 2 = 1]
    ELSE [size EXCEPT !.value = @ + (byte % 128) * size.weight, !.weight = 128 * @]

SizeValue(size) == IF size.is_signed THEN -size.value ELSE size.value
More(byte) == byte >= 128

\* The type of the patch, and its compression, in its first byte.
PatchType(byte) == (byte \div 16) % 8
CompressionOf(byte) == byte % 16

\* The sum of a position and a size leads out of the image; a negative one that does
\* not is taken for a size (it stands for one beyond every image).
LeadsOut(position, size, to_size) == position + size \notin 0 .. to_size

-----------------------------------------------------------------------------
\* The decoder before the first byte: what it reads next, the size that it is reading,
\* the size of the new image, the data left, the place in the old image, and the new
\* image so far.
Begin ==
    [state |-> "fixed_header", size |-> FirstSize, to_size |-> 0, left |-> 0,
     from |-> 0, to |-> <<>>]

Wrong(d) == [d EXCEPT !.state = "wrong"]

\* A size says that n bytes of data come next, or none.
DataNext(d, n, data, after) ==
    IF LeadsOut(Len(d.to), n, d.to_size) THEN Wrong(d)
    ELSE [d EXCEPT !.state = IF n = 0 THEN after ELSE data, !.left = n]

\* A size is read.
AfterValue(d, n) ==
    CASE d.state = "to_size" ->
            [d EXCEPT !.to_size = n, !.state = IF n > 0 THEN "dfpatch_size" ELSE "done"]
      [] d.state = "dfpatch_size" ->
            IF n > 0 THEN Wrong(d) ELSE [d EXCEPT !.state = "diff_size"]
      [] d.state = "diff_size" -> DataNext(d, n, "diff_data", "extra_size")
      [] d.state = "extra_size" -> DataNext(d, n, "extra_data", "adjustment")
      [] d.state = "adjustment" ->
            IF d.from + n < 0 THEN Wrong(d)
            ELSE [d EXCEPT !.from = @ + n,
                           !.state = IF Len(d.to) = d.to_size THEN "done" ELSE "diff_size"]

\* The sign of the size of the image is ignored.
ValueOf(d, size) == IF d.state = "to_size" THEN size.value ELSE SizeValue(size)

SizeByte(d, byte) ==
    LET size == SizeAfter(d.size, byte)
    IN  IF Overflow(d.size) THEN Wrong(d)
        ELSE IF More(byte) THEN [d EXCEPT !.size = size]
        ELSE AfterValue([d EXCEPT !.size = FirstSize], ValueOf(d, size))

\* A byte of the new image.
DataByte(d, byte, after) ==
    [d EXCEPT !.to = Append(@, byte), !.left = @ - 1,
              !.state = IF d.left = 1 THEN after ELSE @]

\* The decoder after one more byte of a patch for the old image `from`.
AfterByte(from, d, byte) ==
    CASE d.state = "fixed_header" ->
            IF PatchType(byte) = 0 /\ CompressionOf(byte) = 0
            THEN [d EXCEPT !.state = "to_size"] ELSE Wrong(d)
      [] d.state = "diff_data" ->
            IF d.from < Len(from)
            THEN [DataByte(d, (byte + from[d.from + 1]) % 256, "extra_size")
                     EXCEPT !.from = @ + 1]
            ELSE Wrong(d)
      [] d.state = "extra_data" -> DataByte(d, byte, "adjustment")
      [] d.state \in {"done", "wrong"} -> Wrong(d)
      [] OTHER -> SizeByte(d, byte)

\* The decoder after each number of bytes of a patch.
Decoding(from, bytes) ==
    LET After[k \in 0 .. Len(bytes)] ==
            IF k = 0 THEN Begin ELSE AfterByte(from, After[k - 1], bytes[k])
    IN  After

\* The patch is whole and well formed.
WellFormed(from, bytes) == Decoding(from, bytes)[Len(bytes)].state = "done"

\* The image that it makes of the old one.
MadeFrom(from, bytes) == Decoding(from, bytes)[Len(bytes)].to
=============================================================================
