---------------------------- MODULE PatchFormat ----------------------------
(***************************************************************************)
(* The sequential patch file: what its creator writes (detools/create.py,  *)
(* detools/bsdiff.c), and the image it stands for.  A patch is a header    *)
(* byte, the size of the new image, and, compressed, the size of the data  *)
(* format patch followed by records.  A record adds its diff bytes to the  *)
(* old image at the current position, appends its extra bytes, and moves   *)
(* the position.                                                           *)
(***************************************************************************)
EXTENDS Integers, Sequences

Byte == 0 .. 255

\* The bytes of pack_size after the first one: 7 bits each, the least
\* significant ones first, and bit 7 set in all but the last.
Groups[n \in Nat] ==
    IF n < 128 THEN <<n>> ELSE <<128 + (n % 128)>> \o Groups[n \div 128]

\* pack_size: the first byte holds the sign and 6 bits.
PackSize(value) ==
    LET sign == IF value < 0 THEN 64 ELSE 0
        size == IF value < 0 THEN -value ELSE value
    IN  IF size < 64 THEN <<sign + size>>
        ELSE <<128 + sign + (size % 64)>> \o Groups[size \div 64]

\* A record: [diff, extra : Seq(Byte), adjust : Int].
PackRecord(r) ==
    PackSize(Len(r.diff)) \o r.diff \o PackSize(Len(r.extra)) \o r.extra
        \o PackSize(r.adjust)

PackRecords(records) ==
    LET Packed[k \in 0 .. Len(records)] ==
            IF k = 0 THEN <<>> ELSE Packed[k - 1] \o PackRecord(records[k])
    IN  Packed[Len(records)]

\* Patch type in bits 4 to 6, compression in bits 0 to 3.
PackHeader(type, compression) == <<16 * type + compression>>

\* create_patch_sequential without compression and data format.
PackPatch(to_size, records) ==
    PackHeader(0, 0) \o PackSize(to_size)
        \o (IF to_size = 0 THEN <<>> ELSE PackSize(0) \o PackRecords(records))

\* After each number of records: the place in the old image, and the part of the new
\* image that they stand for.
Building(from, records) ==
    LET Sum(pos, diff) ==
            [j \in 1 .. Len(diff) |-> (from[pos + j] + diff[j]) % 256]
        Built[k \in 0 .. Len(records)] ==
            IF k = 0 THEN [pos |-> 0, to |-> <<>>]
            ELSE LET r == records[k]
                     b == Built[k - 1]
                 IN  [pos |-> b.pos + Len(r.diff) + r.adjust,
                      to |-> b.to \o Sum(b.pos, r.diff) \o r.extra]
    IN  Built

\* The new image that the records stand for.
ImageOf(from, records) == Building(from, records)[Len(records)].to
=============================================================================
