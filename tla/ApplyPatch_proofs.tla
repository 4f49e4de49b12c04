------------------------- MODULE ApplyPatch_proofs -------------------------
(***************************************************************************)
(* The safety properties of the sequential applier and its host, for every *)
(* old image, every set of patches, damaged in any way, every buffer, and  *)
(* any number of dumps, crashes and failures.                              *)
(*                                                                         *)
(* The argument has three parts.                                           *)
(*                                                                         *)
(* Inductive.  The applier moves its record of the position in the old     *)
(* image (from_offset) in the turns that move the position, and a restore  *)
(* seeks to the record (InStep).  A turn that fails the applier returns an *)
(* error, which the host sees before it can dump the applier again: a      *)
(* failed applier is only with a host that is in a call or knows of the    *)
(* error (FailureSeen), and no dump is of a failed one.                    *)
(*                                                                         *)
(* Complies.  The applier is at each moment where the decoder of           *)
(* PatchDecoder, which takes the whole patch byte by byte, is after as     *)
(* many bytes as the applier has taken (Follows), and what is written is   *)
(* what the decoder has made; so is the applier of the last dump, with     *)
(* what of the to-file a restore keeps (DumpFits).  Each turn is a number  *)
(* of steps of the decoder: none at the end of a chunk, one for a byte of  *)
(* a size, and one for each byte of a block of data (DataFits).  When      *)
(* finalize finds the whole patch read, the decoder has taken all of it.   *)
(*                                                                         *)
(* Accepting.  The decoder of a good patch is not done before the end of   *)
(* it and never goes wrong, so that no check of the applier fails it       *)
(* (GoesOn), as long as no callback fails, and what the patch reader takes *)
(* for the rest of the patch is the rest of it (Exact), since the header   *)
(* is in the first chunk (InHeader).  At the end of the patch the decoder  *)
(* is done, and so is the applier.                                         *)
(***************************************************************************)
EXTENDS ApplyPatch, Foundations, SequenceTheorems, TLAPS

-----------------------------------------------------------------------------
(* What the decoder of PatchDecoder does, for every patch: it is the function its       *)
(* recursive definition says, keeps its types, and only adds to the image; and what a    *)
(* block of data does in one step is what its bytes do one after the other.              *)

Sizes == [first : BOOLEAN, value : Nat, weight : Nat, is_signed : BOOLEAN]

SizeStates == {"to_size", "dfpatch_size", "diff_size", "extra_size", "adjustment"}
DataStates == {"diff_data", "extra_data"}
DecoderStates == SizeStates \cup DataStates \cup {"fixed_header", "done", "wrong"}

Decoders ==
    [state : DecoderStates, size : Sizes, to_size : Nat, left : Int, from : Nat,
     to : Seq(Byte)]

\* The parts of a size are numbers.
LEMMA SizeTypes ==
    ASSUME NEW size \in Sizes, NEW byte \in Byte
    PROVE  FirstSize \in Sizes /\ SizeAfter(size, byte) \in Sizes /\ SizeValue(size) \in Int
<1>1. byte % 64 \in Nat /\ byte % 128 \in Nat
  BY DEF Byte
<1>2. (byte % 128) * size.weight \in Nat /\ 128 * size.weight \in Nat
  BY <1>1, SMT DEF Sizes
<1> DEFINE sign == (byte \div 64) % 2 = 1
<1>3. SizeAfter(size, byte) \in Sizes
  <2>1. CASE size.first
    <3>1. sign \in BOOLEAN
      OBVIOUS
    <3>2. SizeAfter(size, byte) = [first |-> FALSE, value |-> byte % 64, weight |-> 64,
                                   is_signed |-> sign]
      BY <2>1 DEF SizeAfter
    <3> HIDE DEF sign
    <3> QED BY <1>1, <3>1, <3>2 DEF Sizes
  <2>2. CASE ~ size.first
    <3>1. size.value \in Nat /\ size.value + (byte % 128) * size.weight \in Nat
      BY <1>2 DEF Sizes
    <3> QED BY <1>2, <2>2, <3>1 DEF SizeAfter, Sizes
  <2> QED BY <2>1, <2>2
<1> QED BY <1>3 DEF FirstSize, SizeValue, Sizes

\* The decoder keeps its type when it takes a byte of a size,
LEMMA SizeByteType ==
    ASSUME NEW d \in Decoders, d.state \in SizeStates, NEW byte \in Byte
    PROVE  SizeByte(d, byte) \in Decoders
<1> DEFINE size == SizeAfter(d.size, byte)
           n == ValueOf(d, size)
           e == [d EXCEPT !.size = FirstSize]
<1>1. d.size \in Sizes
  BY DEF Decoders
<1>2. size \in Sizes /\ SizeValue(size) \in Int /\ size.value \in Nat /\ FirstSize \in Sizes
  <2>1. size \in Sizes /\ FirstSize \in Sizes
    BY <1>1, SizeTypes
  <2>2. SizeValue(size) \in Int
    BY <2>1, SizeTypes
  <2> QED BY <2>1, <2>2 DEF Sizes
<1> HIDE DEF size
<1>3. n \in Int /\ (d.state = "to_size" => n \in Nat)
  BY <1>2 DEF ValueOf
<1>4. e \in Decoders /\ e.state = d.state
  BY <1>2 DEF Decoders
<1> HIDE DEF n, e
<1>5. Wrong(d) \in Decoders /\ Wrong(e) \in Decoders
  BY <1>4 DEF Wrong, Decoders, DecoderStates
<1>6. ASSUME NEW data \in DecoderStates, NEW after \in DecoderStates
      PROVE  DataNext(e, n, data, after) \in Decoders
  BY <1>3, <1>4, <1>5, <1>6 DEF DataNext, Decoders
<1>7. AfterValue(e, n) \in Decoders
  <2>1. CASE d.state = "to_size"
    BY <1>3, <1>4, <2>1 DEF AfterValue, Decoders, DecoderStates, SizeStates
  <2>2. CASE d.state = "dfpatch_size"
    BY <1>4, <1>5, <2>2 DEF AfterValue, Decoders, DecoderStates, SizeStates
  <2>3. CASE d.state = "diff_size"
    BY <1>4, <1>6, <2>3 DEF AfterValue, DecoderStates, SizeStates, DataStates
  <2>4. CASE d.state = "extra_size"
    BY <1>4, <1>6, <2>4 DEF AfterValue, DecoderStates, SizeStates, DataStates
  <2>5. CASE d.state = "adjustment"
    <3>1. e.from \in Nat
      BY <1>4 DEF Decoders
    <3>2. CASE e.from + n < 0
      BY <1>4, <1>5, <2>5, <3>2 DEF AfterValue
    <3>3. CASE ~ (e.from + n < 0)
      <4>1. e.from + n \in Nat
        BY <1>3, <3>1, <3>3
      <4> QED BY <1>4, <2>5, <3>3, <4>1 DEF AfterValue, Decoders, DecoderStates, SizeStates
    <3> QED BY <3>2, <3>3
  <2> QED BY <2>1, <2>2, <2>3, <2>4, <2>5 DEF SizeStates
<1>8. SizeByte(d, byte) \in {Wrong(d), [d EXCEPT !.size = size], AfterValue(e, n)}
  BY DEF SizeByte, size, n, e
<1>9. [d EXCEPT !.size = size] \in Decoders
  BY <1>2 DEF Decoders
<1> QED BY <1>5, <1>7, <1>8, <1>9

\* a byte of data,
LEMMA DataByteType ==
    ASSUME NEW d \in Decoders, NEW byte \in Byte, NEW after \in DecoderStates
    PROVE  DataByte(d, byte, after) \in Decoders
<1>1. Append(d.to, byte) \in Seq(Byte)
  BY DEF Decoders
<1>2. d.left - 1 \in Int /\ (IF d.left = 1 THEN after ELSE d.state) \in DecoderStates
  BY DEF Decoders
<1> QED BY <1>1, <1>2 DEF DataByte, Decoders

\* and any byte.
LEMMA AfterByteType ==
    ASSUME NEW from \in Seq(Byte), NEW d \in Decoders, NEW byte \in Byte
    PROVE  AfterByte(from, d, byte) \in Decoders
<1>1. Wrong(d) \in Decoders
  BY DEF Wrong, Decoders, DecoderStates
<1>2. CASE d.state = "fixed_header"
  BY <1>1, <1>2 DEF AfterByte, Decoders, DecoderStates, SizeStates
<1>3. CASE d.state = "diff_data"
  <2>1. CASE d.from < Len(from)
    <3> DEFINE b == (byte + from[d.from + 1]) % 256
               c == DataByte(d, b, "extra_size")
    <3>1. from[d.from + 1] \in Byte
      BY <2>1 DEF Decoders
    <3>2. b \in Byte
      <4> DEFINE f == from[d.from + 1]
      <4>1. f \in Byte
        BY <3>1
      <4> HIDE DEF f
      <4>2. (byte + f) % 256 \in 0 .. 255
        BY <4>1 DEF Byte
      <4> QED BY <4>2 DEF Byte, f
    <3> HIDE DEF b
    <3>3. c \in Decoders
      BY <3>2, DataByteType DEF DecoderStates, SizeStates
    <3> HIDE DEF c
    <3>4. c.from + 1 \in Nat
      BY <3>3 DEF Decoders
    <3>5. [c EXCEPT !.from = @ + 1] \in Decoders
      BY <3>3, <3>4 DEF Decoders
    <3> QED BY <1>3, <2>1, <3>5 DEF AfterByte, b, c
  <2>2. CASE ~ (d.from < Len(from))
    BY <1>1, <1>3, <2>2 DEF AfterByte
  <2> QED BY <2>1, <2>2
<1>4. CASE d.state = "extra_data"
  <2>1. DataByte(d, byte, "adjustment") \in Decoders
    BY DataByteType DEF DecoderStates, SizeStates
  <2> QED BY <1>4, <2>1 DEF AfterByte
<1>5. CASE d.state \in {"done", "wrong"}
  BY <1>1, <1>5 DEF AfterByte
<1>6. CASE d.state \in SizeStates
  BY <1>6, SizeByteType DEF AfterByte, SizeStates
<1>7. d.state \in DecoderStates
  BY DEF Decoders
<1> QED BY <1>2, <1>3, <1>4, <1>5, <1>6, <1>7 DEF DecoderStates, DataStates

\* The recursive function is what its equation says.
LEMMA DecodingSteps ==
    ASSUME NEW from \in Seq(Byte), NEW bytes \in Seq(Byte)
    PROVE  LET D == Decoding(from, bytes)
           IN  /\ \A k \in 0 .. Len(bytes) : D[k] \in Decoders
               /\ D[0] = Begin
               /\ \A k \in 1 .. Len(bytes) : D[k] = AfterByte(from, D[k - 1], bytes[k])
<1> DEFINE N == Len(bytes)
           D == Decoding(from, bytes)
           step == [p \in (1 .. N) \X Decoders |-> AfterByte(from, p[2], bytes[p[1]])]
<1>1. N \in Nat
  OBVIOUS
<1>0. \A k \in 1 .. N : bytes[k] \in Byte
  OBVIOUS
<1> HIDE DEF N
<1>2. step \in [(1 .. N) \X Decoders -> Decoders]
  BY <1>0, <1>1, AfterByteType
<1>3. Begin \in Decoders
  BY DEF Begin, Decoders, FirstSize, Sizes, DecoderStates
<1> HIDE DEF step
<1>4. PICK g \in [0 .. N -> Decoders] : Recursion(g, Begin, step, N)
  BY <1>1, <1>2, <1>3, RecursionUpTo
<1>5. \A k \in 1 .. N : step[<<k, g[k - 1]>>] = AfterByte(from, g[k - 1], bytes[k])
  <2> SUFFICES ASSUME NEW k \in 1 .. N
               PROVE  step[<<k, g[k - 1]>>] = AfterByte(from, g[k - 1], bytes[k])
    OBVIOUS
  <2>1. <<k, g[k - 1]>> \in (1 .. N) \X Decoders
    BY <1>1
  <2> QED BY <2>1 DEF step
<1>6. g = [k \in 0 .. N |-> IF k = 0 THEN Begin ELSE AfterByte(from, g[k - 1], bytes[k])]
  <2>1. ASSUME NEW k \in 0 .. N
        PROVE  g[k] = IF k = 0 THEN Begin ELSE AfterByte(from, g[k - 1], bytes[k])
    <3>1. g[k] = IF k = 0 THEN Begin ELSE step[<<k, g[k - 1]>>]
      BY <1>4 DEF Recursion
    <3>2. k # 0 => k \in 1 .. N
      OBVIOUS
    <3> QED BY <1>5, <3>1, <3>2
  <2> QED BY <1>4, <2>1
<1>7. D = [k \in 0 .. N |-> IF k = 0 THEN Begin ELSE AfterByte(from, D[k - 1], bytes[k])]
  BY <1>6 DEF Decoding, N
<1> HIDE DEF D
<1>8. D[0] = Begin /\ \A k \in 1 .. N : D[k] = AfterByte(from, D[k - 1], bytes[k])
  BY <1>1, <1>7
<1> DEFINE S == {k \in 0 .. N : D[k] \in Decoders}
<1>9. 0 \in S
  BY <1>1, <1>3, <1>8
<1>10. ASSUME NEW k \in 0 .. N - 1, k \in S PROVE k + 1 \in S
  <2>1. D[k + 1] = AfterByte(from, D[k], bytes[k + 1])
    BY <1>1, <1>8
  <2>2. bytes[k + 1] \in Byte
    BY <1>0, <1>1
  <2> QED BY <1>1, <1>10, <2>1, <2>2, AfterByteType
<1> HIDE DEF S
<1>11. \A k \in 0 .. N : k \in S
  BY <1>1, <1>9, <1>10, InductionUpTo
<1>12. \A k \in 0 .. N : D[k] \in Decoders
  BY <1>11 DEF S
<1> QED BY <1>8, <1>12 DEF D, N

-----------------------------------------------------------------------------
\* What a byte adds to the image is at its end.
LEMMA ImageGrows ==
    ASSUME NEW from \in Seq(Byte), NEW d \in Decoders, NEW byte \in Byte
    PROVE  Begins(d.to, AfterByte(from, d, byte).to)
<1> DEFINE e == AfterByte(from, d, byte)
<1>1. e \in Decoders
  BY AfterByteType
<1>2. d.to \in Seq(Byte) /\ e.to \in Seq(Byte)
  BY <1>1 DEF Decoders
<1>3. e.to = d.to \/ \E b : e.to = Append(d.to, b)
  BY ZenonT(60) DEF Decoders, DecoderStates, SizeStates, DataStates, AfterByte, Wrong, DataByte, SizeByte,
         AfterValue, DataNext
<1> HIDE DEF e
<1>4. CASE e.to = d.to
  BY <1>2, <1>4, BeginsItself DEF e
<1>5. CASE \E b : e.to = Append(d.to, b)
  <2>1. PICK b : e.to = Append(d.to, b)
    BY <1>5
  <2>2. Len(e.to) = Len(d.to) + 1 /\ \A i \in 1 .. Len(d.to) : e.to[i] = d.to[i]
    BY <1>2, <2>1
  <2>3. Len(d.to) \in Nat
    BY <1>2
  <2>4. Begins(d.to, e.to)
    BY <1>2, <2>2, <2>3, BeginsPointwise
  <2> QED BY <2>4 DEF e
<1> QED BY <1>3, <1>4, <1>5

\* So the image of a patch begins with what its first bytes make.
LEMMA ImageBegins ==
    ASSUME NEW from \in Seq(Byte), NEW bytes \in Seq(Byte),
           NEW j \in 0 .. Len(bytes), NEW k \in j .. Len(bytes)
    PROVE  Begins(Decoding(from, bytes)[j].to, Decoding(from, bytes)[k].to)
<1> DEFINE N == Len(bytes)
           D == Decoding(from, bytes)
           S == {i \in 0 .. N - j : Begins(D[j].to, D[j + i].to)}
<1>1. N \in Nat /\ j \in Nat /\ j <= N /\ N - j \in Nat
  OBVIOUS
<1>2. /\ \A i \in 0 .. N : D[i] \in Decoders
      /\ \A i \in 1 .. N : D[i] = AfterByte(from, D[i - 1], bytes[i])
      /\ \A i \in 1 .. N : bytes[i] \in Byte
  BY DecodingSteps
<1> HIDE DEF N, D
<1>3. \A i \in 0 .. N : D[i].to \in Seq(Byte)
  BY <1>2 DEF Decoders
<1>4. 0 \in S
  <2>1. j + 0 = j /\ D[j].to \in Seq(Byte)
    BY <1>1, <1>3
  <2> QED BY <1>1, <2>1, BeginsItself
<1>5. ASSUME NEW i \in 0 .. (N - j) - 1, i \in S PROVE i + 1 \in S
  <2>1. j + i \in 0 .. N /\ j + (i + 1) \in 1 .. N /\ (j + (i + 1)) - 1 = j + i
        /\ j \in 0 .. N /\ j + (i + 1) \in 0 .. N
    BY <1>1
  <2>2. D[j + (i + 1)] = AfterByte(from, D[j + i], bytes[j + (i + 1)])
    BY <1>2, <2>1
  <2>3. Begins(D[j + i].to, D[j + (i + 1)].to)
    BY <1>2, <2>1, <2>2, ImageGrows
  <2>4. Begins(D[j].to, D[j + i].to)
    BY <1>5
  <2>5. D[j].to \in Seq(Byte) /\ D[j + i].to \in Seq(Byte) /\ D[j + (i + 1)].to \in Seq(Byte)
    BY <1>3, <2>1
  <2>6. Begins(D[j].to, D[j + (i + 1)].to)
    BY <2>3, <2>4, <2>5, BeginsTransitive
  <2> QED BY <1>1, <2>6
<1> HIDE DEF S
<1>6. \A i \in 0 .. N - j : i \in S
  BY <1>1, <1>4, <1>5, InductionUpTo
<1>7. k - j \in S /\ j + (k - j) = k
  BY <1>1, <1>6 DEF N
<1> QED BY <1>7 DEF S, D

\* A byte of a block of data, that moves f bytes on in the old image.
BlockByte(d, byte, after, f) == [DataByte(d, byte, after) EXCEPT !.from = @ + f]

\* The decoder g is d after the first j bytes of a block of data: each adds to the
\* image the byte of the block that is b's, and moves f bytes on in the old image.
AfterBlock(d, b, j, f, after, g) ==
    /\ g.state = (IF d.left = j THEN after ELSE d.state)
    /\ g.to = d.to \o SubSeq(b, 1, j)
    /\ g.left = d.left - j
    /\ g.from = d.from + f * j
    /\ g.size = d.size /\ g.to_size = d.to_size

\* A block of data goes on with one more byte.
LEMMA BlockNext ==
    ASSUME NEW d \in Decoders, NEW g \in Decoders, NEW h, NEW b \in Seq(Byte),
           NEW j \in 0 .. Len(b) - 1, NEW f \in {0, 1}, NEW after,
           d.left # j, AfterBlock(d, b, j, f, after, g),
           h = BlockByte(g, b[j + 1], after, f)
    PROVE  AfterBlock(d, b, j + 1, f, after, h)
<1>1. /\ h.to = Append(g.to, b[j + 1]) /\ h.left = g.left - 1
      /\ h.state = (IF g.left = 1 THEN after ELSE g.state) /\ h.from = g.from + f
      /\ h.size = g.size /\ h.to_size = g.to_size
  BY DEF BlockByte, DataByte, Decoders
<1>2. d.to \in Seq(Byte) /\ d.left \in Int /\ d.from \in Nat /\ g.left \in Int
  BY DEF Decoders
<1>3. h.to = d.to \o SubSeq(b, 1, j + 1)
  <2> DEFINE t == d.to
             p == SubSeq(b, 1, j)
             x == b[j + 1]
             q == SubSeq(b, 1, j + 1)
  <2>1. t \in Seq(Byte)
    BY <1>2
  <2>2. h.to = Append(t \o p, x)
    BY <1>1 DEF AfterBlock
  <2> HIDE DEF t
  <2>3. Append(t \o p, x) = t \o q
    BY <2>1, ConcatNext
  <2> HIDE DEF p, x, q
  <2>4. h.to = t \o q
    BY <2>2, <2>3
  <2> QED BY <2>4 DEF t, q
<1>4. j \in Int
  OBVIOUS
<1>5. h.left = d.left - (j + 1)
  <2> DEFINE l == d.left
             m == h.left
  <2>1. m = l - j - 1
    BY <1>1 DEF AfterBlock
  <2>2. l \in Int
    BY <1>2
  <2> HIDE DEF l, m
  <2>3. m = l - (j + 1)
    BY <1>4, <2>1, <2>2
  <2> QED BY <2>3 DEF l, m
<1>6. h.from = d.from + f * (j + 1)
  <2>1. f \in Int /\ f * j \in Int /\ f * (j + 1) = f * j + f
    BY SMT
  <2>2. h.from = d.from + f * j + f
    BY <1>1 DEF AfterBlock
  <2> QED BY <1>2, <2>1, <2>2
<1>7. h.state = (IF d.left = j + 1 THEN after ELSE d.state)
  BY <1>1, <1>2, <1>4 DEF AfterBlock
<1> QED BY <1>1, <1>3, <1>5, <1>6, <1>7 DEF AfterBlock

\* So a block of data, of b's bytes, from position e of the patch on.
LEMMA DataBlock ==
    ASSUME NEW from \in Seq(Byte), NEW bytes \in Seq(Byte),
           NEW e \in 0 .. Len(bytes), NEW b \in Seq(Byte), e + Len(b) <= Len(bytes),
           NEW f \in {0, 1}, NEW after,
           NEW d, d = Decoding(from, bytes)[e],
           d.left # 0, d.left < 0 \/ Len(b) <= d.left,
           \A j \in 0 .. Len(b) - 1, g \in Decoders :
              g.state = d.state /\ g.from = d.from + f * j =>
                 AfterByte(from, g, bytes[e + j + 1]) = BlockByte(g, b[j + 1], after, f)
    PROVE  AfterBlock(d, b, Len(b), f, after, Decoding(from, bytes)[e + Len(b)])
<1> DEFINE N == Len(bytes)
           n == Len(b)
           D == Decoding(from, bytes)
           S == {j \in 0 .. n : AfterBlock(d, b, j, f, after, D[e + j])}
<1>1. N \in Nat /\ n \in Nat /\ e \in Nat /\ e + n <= N
  OBVIOUS
<1>2. /\ \A i \in 0 .. N : D[i] \in Decoders
      /\ \A i \in 1 .. N : D[i] = AfterByte(from, D[i - 1], bytes[i])
  BY DecodingSteps
<1>3. d = D[e] /\ d.left # 0 /\ (d.left < 0 \/ n <= d.left)
  OBVIOUS
<1> HIDE DEF D, N
<1>4. d \in Decoders
  BY <1>1, <1>2, <1>3
<1>5. d.to \in Seq(Byte) /\ d.left \in Int /\ d.from \in Nat
  BY <1>4 DEF Decoders
<1>6. 0 \in S
  <2>1. SubSeq(b, 1, 0) = <<>>
    BY SubSeqEmpty
  <2>2. d.to \o SubSeq(b, 1, 0) = d.to
    BY <1>5, <2>1, ConcatEmptySeq
  <2>3. e + 0 = e /\ d.left - 0 = d.left /\ d.from + f * 0 = d.from
    BY <1>1, <1>5
  <2> QED BY <1>1, <1>3, <2>2, <2>3 DEF AfterBlock
<1>7. ASSUME NEW j \in 0 .. n - 1, j \in S PROVE j + 1 \in S
  <2> DEFINE g == D[e + j]
             h == D[e + (j + 1)]
             x == bytes[e + j + 1]
  <2>1. /\ e + j \in 0 .. N /\ e + (j + 1) \in 1 .. N /\ (e + (j + 1)) - 1 = e + j
        /\ j + 1 \in 0 .. n /\ e + j + 1 = e + (j + 1)
    BY <1>1
  <2>2. h = AfterByte(from, g, x)
    BY <1>2, <2>1
  <2>3. g \in Decoders
    BY <1>2, <2>1
  <2>4. d.left # j
    BY <1>1, <1>3
  <2>5. AfterBlock(d, b, j, f, after, g)
    BY <1>7
  <2>6. g.state = d.state /\ g.from = d.from + f * j
    BY <2>4, <2>5 DEF AfterBlock
  <2> HIDE DEF g, h
  <2>7. h = BlockByte(g, b[j + 1], after, f)
    BY <1>1, <2>2, <2>3, <2>6
  <2> HIDE DEF n
  <2>8. AfterBlock(d, b, j + 1, f, after, h)
    <3>1. j \in 0 .. Len(b) - 1
      BY DEF n
    <3> QED BY <1>4, <2>3, <2>4, <2>5, <2>7, <3>1, BlockNext
  <2> QED BY <2>1, <2>8 DEF h
<1> HIDE DEF S
<1>8. n \in S
  <2>1. n \in Nat
    BY <1>1
  <2> HIDE DEF n
  <2>2. \A j \in 0 .. n : j \in S
    BY <1>6, <1>7, <2>1, InductionUpTo
  <2> QED BY <2>1, <2>2
<1> QED BY <1>8 DEF S, D, n

-----------------------------------------------------------------------------
\* A decoder that will not come to its end at the end of the n bytes that are left: it
\* has gone wrong, or expects more data than that, or none, or more than there is of the
\* old image.
Stuck(from, n, d) ==
    \/ d.state = "wrong"
    \/ d.state \in DataStates /\ d.left \notin 1 .. n
    \/ d.state = "diff_data" /\ d.from + d.left > Len(from)

\* It remains so.
LEMMA StuckNext ==
    ASSUME NEW from \in Seq(Byte), NEW d \in Decoders, NEW byte, NEW n \in Nat \ {0},
           d.state = "done" \/ Stuck(from, n, d)
    PROVE  Stuck(from, n - 1, AfterByte(from, d, byte))
<1> DEFINE g == AfterByte(from, d, byte)
<1>1. Wrong(d).state = "wrong"
  BY DEF Wrong, Decoders
<1>2. d.left \in Int /\ d.from \in Nat /\ Len(from) \in Nat
  BY DEF Decoders
<1>3. CASE d.state \in {"done", "wrong"}
  BY <1>1, <1>3 DEF AfterByte, Stuck
<1>4. ASSUME d.left = 1, d.state \in DataStates
      PROVE  d.state = "diff_data" /\ d.from + 1 > Len(from)
  <2>1. d.left \in 1 .. n
    BY <1>4
  <2> QED BY <1>2, <1>4, <2>1 DEF Stuck, DataStates
<1>5. CASE d.state = "extra_data"
  <2>1. d.left # 1
    BY <1>4, <1>5 DEF DataStates
  <2>2. g.state = "extra_data" /\ g.left = d.left - 1
    BY <1>5, <2>1 DEF AfterByte, DataByte, Decoders
  <2>3. d.left \notin 1 .. n
    BY <1>5 DEF Stuck
  <2>4. d.left - 1 \notin 1 .. n - 1
    BY <1>2, <2>3
  <2> QED BY <2>2, <2>4 DEF Stuck, DataStates
<1>6. CASE d.state = "diff_data"
  <2>1. CASE d.from < Len(from)
    <3>1. d.left # 1
      BY <1>2, <1>4, <1>6, <2>1 DEF DataStates
    <3> DEFINE h == DataByte(d, (byte + from[d.from + 1]) % 256, "extra_size")
    <3>2. g = [h EXCEPT !.from = @ + 1]
      BY <1>6, <2>1 DEF AfterByte
    <3>3. /\ h.state = "diff_data" /\ h.left = d.left - 1 /\ h.from = d.from
          /\ DOMAIN h = DOMAIN d
      BY <1>6, <3>1 DEF DataByte, Decoders
    <3> HIDE DEF h
    <3>4. DOMAIN h = {"state", "size", "to_size", "left", "from", "to"}
      BY <3>3 DEF Decoders
    <3>5. g.state = "diff_data" /\ g.left = d.left - 1 /\ g.from = d.from + 1
      BY <3>2, <3>3, <3>4
    <3>6. \/ d.left \notin 1 .. n
          \/ d.from + d.left > Len(from)
      BY <1>6 DEF Stuck
    <3>7. \/ d.left - 1 \notin 1 .. n - 1
          \/ (d.from + 1) + (d.left - 1) > Len(from)
      BY <1>2, <3>6
    <3> QED BY <3>5, <3>7 DEF Stuck, DataStates
  <2>2. CASE ~(d.from < Len(from))
    BY <1>1, <1>6, <2>2 DEF AfterByte, Stuck
  <2> QED BY <2>1, <2>2
<1> QED BY <1>3, <1>5, <1>6 DEF Stuck, DataStates

\* The decoder of a well-formed patch comes to its end with the last byte, not before.
LEMMA WellFormedSteps ==
    ASSUME NEW from \in Seq(Byte), NEW bytes \in Seq(Byte), WellFormed(from, bytes)
    PROVE  LET N == Len(bytes)
               D == Decoding(from, bytes)
           IN  /\ D[N].state = "done"
               /\ \A k \in 0 .. N - 1 : D[k].state # "done" /\ ~Stuck(from, N - k, D[k])
<1> DEFINE N == Len(bytes)
           D == Decoding(from, bytes)
<1>1. /\ N \in Nat
      /\ \A k \in 0 .. N : D[k] \in Decoders
      /\ \A k \in 1 .. N : D[k] = AfterByte(from, D[k - 1], bytes[k])
      /\ D[N].state = "done"
  BY DecodingSteps DEF WellFormed
<1> HIDE DEF N, D
<1>2. ASSUME NEW k \in 0 .. N - 1, D[k].state = "done" \/ Stuck(from, N - k, D[k])
      PROVE  FALSE
  <2> DEFINE T == {i \in 0 .. N - k : i = 0 \/ Stuck(from, N - (k + i), D[k + i])}
  <2>1. 0 \in T /\ k + 0 = k /\ N - k \in Nat
    BY <1>1
  <2>2. ASSUME NEW i \in 0 .. (N - k) - 1, i \in T PROVE i + 1 \in T
    <3>1. /\ k + i \in 0 .. N /\ k + (i + 1) \in 1 .. N /\ (k + (i + 1)) - 1 = k + i
          /\ N - (k + i) \in Nat \ {0} /\ (N - (k + i)) - 1 = N - (k + (i + 1))
          /\ i + 1 \in 0 .. N - k
      BY <1>1
    <3>2. D[k + i].state = "done" \/ Stuck(from, N - (k + i), D[k + i])
      BY <1>2, <2>1, <2>2
    <3>3. D[k + i] \in Decoders /\ D[k + (i + 1)] = AfterByte(from, D[k + i], bytes[k + (i + 1)])
      BY <1>1, <3>1
    <3>4. Stuck(from, N - (k + (i + 1)), D[k + (i + 1)])
      BY <3>1, <3>2, <3>3, StuckNext
    <3> QED BY <3>1, <3>4
  <2> HIDE DEF T
  <2>3. \A i \in 0 .. N - k : i \in T
    BY <2>1, <2>2, InductionUpTo
  <2>4. N - k \in T /\ k + (N - k) = N /\ N - k # 0
    BY <1>1, <2>3
  <2>5. Stuck(from, N - N, D[N])
    BY <2>4 DEF T
  <2> QED BY <1>1, <2>5 DEF Stuck, DataStates
<1> QED BY <1>1, <1>2 DEF N, D

-----------------------------------------------------------------------------
(* The applier *)

Hosts == {"off", "ready", "error", "process", "finalize", "dump", "finalized", "removed",
          "complete", "lost"}

NoDumps == {NoDump, TornDump}

Fields == {"state", "init_state", "size", "patch_offset", "to_offset", "to_size",
           "from_offset", "chunk_size", "reader"}

IsApplier(r) == r = [f \in DOMAIN r |-> r[f]] /\ Fields \subseteq DOMAIN r

\* The state of a failed applier outlives a turn only with an error.
FailureSeen ==
    /\ host \in {"ready", "dump"} => self.state # "failed"
    /\ host = "process" /\ self.state = "failed" =>
          \/ IsError(res) /\ res # "ALREADY_DONE"
          \/ res = "ok" /\ ChunkAvailable

\* The loop over the bytes of a size does not outlive a call.
BytesInCall == res = "byte" => host \in {"process", "finalize"}

InStep == self.state # "failed" => from_pos = self.from_offset

Dumps == dumped \in NoDumps \/ (IsApplier(dumped) /\ dumped.state # "failed")

Inductive ==
    /\ host \in Hosts /\ IsApplier(self) /\ Dumps
    /\ BytesInCall /\ FailureSeen
    /\ Attached => InStep

\* A record that is changed in a field is changed in that field only.
LEMMA Changed ==
    ASSUME NEW r, IsApplier(r), NEW f \in Fields, NEW v
    PROVE  /\ IsApplier([r EXCEPT ![f] = v])
           /\ [r EXCEPT ![f] = v][f] = v
           /\ \A g \in Fields \ {f} : [r EXCEPT ![f] = v][g] = r[g]
  BY DEF IsApplier

\* A failed applier is an applier.
LEMMA FailedApplier ==
    ASSUME NEW r, IsApplier(r)
    PROVE  IsApplier(Failed(r)) /\ Failed(r).state = "failed"
  BY DEF IsApplier, Failed, Fields

\* So is a new one.
LEMMA NewIsApplier == IsApplier(NewApplier) /\ NewApplier.state = "init"
  BY DEF IsApplier, NewApplier, Fields

\* So is a restored one, in the state of the dump.
LEMMA RestoredIsApplier ==
    ASSUME Dumps, dumped.state # "torn"
    PROVE  IsApplier(Restored) /\ Restored.state # "failed"
<1>1. CASE dumped.state \in {"none", "init"}
  BY <1>1, NewIsApplier DEF Restored
<1>2. CASE dumped.state \notin {"none", "init"}
  <2>1. IsApplier(dumped) /\ dumped.state # "failed"
    BY <1>2 DEF Dumps, NoDumps, NoDump, TornDump
  <2> QED BY <1>2, <2>1 DEF Restored, IsApplier, Fields
<1> QED BY <1>1, <1>2

-----------------------------------------------------------------------------
\* What a turn of the loop does to the applier: it fails it and returns an error,
\* or it keeps the two positions in step.
GoodTurn ==
    /\ UNCHANGED <<host, dumped>>
    /\ IsApplier(self')
    /\ \/ self'.state = "failed" /\ IsError(res') /\ res' # "ALREADY_DONE"
       \/ self'.state # "failed" /\ InStep'

\* A turn is taken in a call.
LEMMA TurnInCall ==
    ASSUME Inductive, NEW st, Turn(st)
    PROVE  Attached /\ host \in {"process", "finalize"} /\ self.state = st
  BY DEF Inductive, BytesInCall, Turn, Attached

\* The turns of the loop, one by one, and what each leaves of Inductive.
LEMMA FixedHeaderTurn ==
    ASSUME Inductive, FixedHeader
    PROVE  GoodTurn
<1>1. Attached /\ self.state = "init" /\ IsApplier(self) /\ InStep
  BY TurnInCall DEF FixedHeader, Inductive
<1> QED BY <1>1, FailedApplier
        DEF FixedHeader, GoodTurn, Return, InStep, IsApplier, Fields, storage, IsError

\* The size of the image: the reader is opened, or the header goes on.
LEMMA ToSizeTurn ==
    ASSUME Inductive, ToSize
    PROVE  GoodTurn
<1>1. Attached /\ self.state = "init" /\ IsApplier(self) /\ InStep
  BY TurnInCall DEF ToSize, Inductive
<1> QED BY <1>1, FailedApplier, ZenonT(60)
        DEF ToSize, GoodTurn, Return, InStep, IsApplier, Fields, storage, IsError, AfterToSize

\* The handlers of the sizes, on an applier that has only moved on in the patch.
LEMMA HandlerTurn ==
    ASSUME NEW applier, NEW size, IsApplier(applier), applier.state # "failed",
           from_pos = applier.from_offset, AfterUnpack(applier, size),
           applier.state \in {"dfpatch_size", "diff_size", "extra_size", "adjustment"},
           UNCHANGED <<host, dumped>>
    PROVE  GoodTurn
<1>1. CASE AfterDfpatchSize(applier, size)
  BY <1>1, FailedApplier DEF AfterDfpatchSize, GoodTurn, Return, InStep, IsApplier, Fields,
                             IsError
<1>2. ASSUME NEW next \in {"diff_data", "extra_data"}, AfterSize(applier, size, next)
      PROVE  GoodTurn
  BY <1>2, FailedApplier DEF AfterSize, GoodTurn, Return, InStep, IsApplier, Fields, IsError
<1>3. CASE AfterAdjustment(applier, size)
  BY <1>3, FailedApplier, ZenonT(60) DEF AfterAdjustment, GoodTurn, Return, InStep, IsApplier, Fields,
                             IsError
<1> QED BY <1>1, <1>2, <1>3 DEF AfterUnpack

\* A size that the reader reads.
LEMMA UnpackSizeTurn ==
    ASSUME Inductive,
           NEW st \in {"dfpatch_size", "diff_size", "extra_size", "adjustment"},
           UnpackSize(st)
    PROVE  GoodTurn
<1> DEFINE Read(next) == [self EXCEPT !.reader.patch_offset = @ + 1, !.reader.size = next]
           byte == ChunkByte(1)
           size == SizeAfter(self.reader.size, byte)
<1>1. /\ self.state = st /\ IsApplier(self) /\ from_pos = self.from_offset
      /\ UNCHANGED <<host, dumped>>
  BY TurnInCall DEF UnpackSize, Inductive, InStep, storage
<1>2. ASSUME NEW next
      PROVE  /\ IsApplier(Read(next)) /\ Read(next).state = st
             /\ Read(next).from_offset = self.from_offset
  BY <1>1 DEF IsApplier, Fields
<1>3. CASE PatchEnds(1)
  BY <1>1, <1>3, FailedApplier DEF UnpackSize, GoodTurn, Return, IsError
<1>4. CASE ~PatchEnds(1) /\ ~ChunkAvailable
  BY <1>1, <1>4 DEF UnpackSize, GoodTurn, Return, InStep
<1>5. CASE ~PatchEnds(1) /\ ChunkAvailable
  <2>1. \/ Return(Failed(Read(self.reader.size)), "CORRUPT_PATCH_OVERFLOW")
        \/ Return(Read(size), "byte") /\ UNCHANGED from_pos
        \/ AfterUnpack(Read(FirstSize), SizeValue(size))
    BY <1>5 DEF UnpackSize
  <2> HIDE DEF Read, size
  <2>2. CASE Return(Failed(Read(self.reader.size)), "CORRUPT_PATCH_OVERFLOW")
    BY <1>1, <1>2, <2>2, FailedApplier DEF GoodTurn, Return, IsError
  <2>3. CASE Return(Read(size), "byte") /\ UNCHANGED from_pos
    BY <1>1, <1>2, <2>3 DEF GoodTurn, Return, InStep
  <2>4. CASE AfterUnpack(Read(FirstSize), SizeValue(size))
    BY <1>1, <1>2, <2>4, HandlerTurn
  <2> QED BY <2>1, <2>2, <2>3, <2>4
<1> QED BY <1>3, <1>4, <1>5

\* The end of a chunk, or of the patch, in front of data.
LEMMA DataEndTurn ==
    ASSUME Inductive, NEW st \in {"diff_data", "extra_data"},
           NEW next \in {"extra_size", "adjustment"}, DataEnd(st, next)
    PROVE  GoodTurn
<1>1. self.state = st /\ IsApplier(self) /\ from_pos = self.from_offset
  BY TurnInCall DEF DataEnd, Inductive, InStep
<1> QED BY <1>1, FailedApplier
        DEF DataEnd, GoodTurn, Return, InStep, IsApplier, Fields, storage, IsError

\* What a write returns.
LEMMA WriteTurn ==
    ASSUME NEW applier, NEW bytes, IsApplier(applier), applier.state # "failed",
           from_pos' = applier.from_offset, Write(applier, bytes),
           UNCHANGED <<host, dumped>>
    PROVE  GoodTurn
  BY FailedApplier DEF Write, GoodTurn, Return, InStep, IsError

\* A block of diff data.
LEMMA DiffDataTurn ==
    ASSUME Inductive, DiffData
    PROVE  GoodTurn
<1> DEFINE size == Delivered
           sum == [k \in 1 .. size |-> (ChunkByte(k) + From[from_pos + k]) % 256]
           read == [Taken(size) EXCEPT !.from_offset = @ + size]
<1>1. /\ self.state = "diff_data" /\ IsApplier(self) /\ from_pos = self.from_offset
      /\ UNCHANGED <<host, dumped>>
  BY TurnInCall DEF DiffData, Readable, Inductive, InStep
<1>2. \/ from_pos' = from_pos + size /\ Write(Written(read, size), sum)
      \/ Return(Failed(Taken(size)), "IO_FAILED")
  BY DEF DiffData
<1> HIDE DEF size, sum
<1>3. IsApplier(Taken(size)) /\ IsApplier(Written(read, size))
  BY <1>1 DEF IsApplier, Fields, Taken, Written
<1>4. /\ Written(read, size).state = "diff_data"
      /\ Written(read, size).from_offset = self.from_offset + size
  BY <1>1 DEF IsApplier, Fields, Taken, Written
<1>5. CASE from_pos' = from_pos + size /\ Write(Written(read, size), sum)
  BY <1>1, <1>3, <1>4, <1>5, WriteTurn
<1>6. CASE Return(Failed(Taken(size)), "IO_FAILED")
  BY <1>1, <1>3, <1>6, FailedApplier DEF GoodTurn, Return, IsError
<1> QED BY <1>2, <1>5, <1>6

\* A block of extra data.
LEMMA ExtraDataTurn ==
    ASSUME Inductive, ExtraData
    PROVE  GoodTurn
<1> DEFINE size == Delivered
           bytes == [k \in 1 .. size |-> ChunkByte(k)]
<1>1. /\ self.state = "extra_data" /\ IsApplier(self) /\ from_pos = self.from_offset
      /\ UNCHANGED <<host, dumped, from_pos>>
  BY TurnInCall DEF ExtraData, Readable, Inductive, InStep
<1>2. Write(Written(Taken(size), size), bytes)
  BY DEF ExtraData
<1> HIDE DEF size, bytes
<1>3. /\ IsApplier(Written(Taken(size), size))
      /\ Written(Taken(size), size).state = "extra_data"
      /\ Written(Taken(size), size).from_offset = self.from_offset
  BY <1>1 DEF IsApplier, Fields, Taken, Written
<1> QED BY <1>1, <1>2, <1>3, WriteTurn

\* A turn of an applier that is done or failed.
LEMMA EndedTurn ==
    ASSUME Inductive, AlreadyDone \/ AlreadyFailed
    PROVE  GoodTurn \/ (UNCHANGED <<host, dumped, self, from_pos>> /\ self.state = "done")
<1>1. CASE AlreadyDone
  BY <1>1, TurnInCall DEF AlreadyDone, Return, storage
<1>2. CASE AlreadyFailed
  BY <1>2, TurnInCall DEF AlreadyFailed, Return, GoodTurn, Inductive, IsError, storage
<1> QED BY <1>1, <1>2

\* All of them.
LEMMA ProcessOnceInductive ==
    ASSUME Inductive, ProcessOnce
    PROVE  Inductive'
<1>1. host \in {"process", "finalize"}
  BY TurnInCall DEF ProcessOnce, FixedHeader, ToSize, DfpatchSize, DiffSize, ExtraSize,
     Adjustment, UnpackSize, DiffData, ExtraData, Readable, DiffEnd, ExtraEnd, DataEnd,
     AlreadyDone, AlreadyFailed
<1>2. GoodTurn \/ (UNCHANGED <<host, dumped, self, from_pos>> /\ self.state = "done")
  BY FixedHeaderTurn, ToSizeTurn, UnpackSizeTurn, DataEndTurn, DiffDataTurn,
     ExtraDataTurn, EndedTurn
     DEF ProcessOnce, DfpatchSize, DiffSize, ExtraSize, Adjustment, DiffEnd, ExtraEnd
<1>3. CASE GoodTurn
  <2>1. FailureSeen'
    BY <1>1, <1>3 DEF GoodTurn, FailureSeen, IsError
  <2>2. InStep'
    BY <1>3 DEF GoodTurn, InStep
  <2> QED BY <1>1, <1>3, <2>1, <2>2
          DEF GoodTurn, Inductive, Hosts, Dumps, BytesInCall, Attached
<1>4. CASE UNCHANGED <<host, dumped, self, from_pos>> /\ self.state = "done"
  BY <1>1, <1>4 DEF Inductive, Dumps, BytesInCall, FailureSeen, InStep, Attached
<1> QED BY <1>2, <1>3, <1>4

-----------------------------------------------------------------------------
\* The calls of process.
LEMMA ProcessInductive ==
    ASSUME Inductive, Process
    PROVE  Inductive'
<1>1. PICK size \in 1 .. Len(patch.bytes) - self.patch_offset :
        /\ self' = [self EXCEPT !.patch_offset = @ + size]
        /\ chunk' = [size |-> size, offset |-> 0]
  BY DEF Process
<1>2. /\ host' = "process" /\ res' = "ok" /\ host \in {"ready", "error"}
      /\ UNCHANGED <<dumped, from_pos>>
  BY DEF Process, storage
<1>3. /\ IsApplier(self') /\ self'.state = self.state
      /\ self'.from_offset = self.from_offset
  BY <1>1 DEF Inductive, IsApplier, Fields
<1>4. ChunkAvailable'
  BY <1>1 DEF ChunkAvailable, ChunkLeft
<1> QED BY <1>2, <1>3, <1>4
        DEF Inductive, Hosts, Dumps, BytesInCall, FailureSeen, InStep, Attached

\* A failed applier is returned with an error.
LEMMA ReturnProcessInductive ==
    ASSUME Inductive, ReturnProcess
    PROVE  Inductive'
<1>1. self.state = "failed" => host' = "error"
  BY DEF ReturnProcess, Inductive, FailureSeen, IsError
<1> QED BY <1>1
        DEF ReturnProcess, Inductive, Hosts, Dumps, BytesInCall, FailureSeen, InStep,
            Attached, storage, IsError

\* The process of the host has ended, with a new applier.
LEMMA LostInductive ==
    ASSUME Dumps', LoseApplier, host' \in {"off", "complete", "lost"}
    PROVE  Inductive'
  BY NewIsApplier
     DEF LoseApplier, Inductive, Hosts, BytesInCall, FailureSeen, Attached

\* The applier is started, new or from a dump.
LEMMA StartInductive ==
    ASSUME Inductive, Start
    PROVE  Inductive'
<1>1. IsApplier(self') /\ self'.state # "failed"
  BY RestoredIsApplier DEF Start, Inductive
<1> QED BY <1>1
        DEF Start, Inductive, Hosts, Dumps, BytesInCall, FailureSeen, InStep, Attached

\* Each step of the next-state relation.
LEMMA InductiveNext ==
    ASSUME Inductive, [Next]_vars
    PROVE  Inductive'
<1>1. CASE ProcessOnce
  BY <1>1, ProcessOnceInductive
<1>2. CASE Process
  BY <1>2, ProcessInductive
<1>3. CASE ReturnProcess
  BY <1>3, ReturnProcessInductive
<1>4. CASE EndWithError \/ CloseFiles \/ Crash
  <2>1. /\ dumped' \in {dumped, NoDump} /\ LoseApplier
        /\ host' \in {"off", "complete", "lost"}
    BY <1>4 DEF EndWithError, CloseFiles, Crash
  <2>2. Dumps'
    BY <2>1 DEF Inductive, Dumps, NoDumps
  <2> QED BY <2>1, <2>2, LostInductive
<1>5. CASE Start
  BY <1>5, StartInductive
<1>6. CASE Finalize
  BY <1>6 DEF Finalize, Inductive, Hosts, Dumps, BytesInCall, FailureSeen, InStep,
              Attached, storage
<1>7. CASE OpenState \/ RemoveState \/ RestoreFails
  <2>1. /\ Dumps' /\ UNCHANGED <<self, from_pos, res, chunk>>
        /\ \/ host = "ready" /\ host' = "dump"
           \/ host = "finalized" /\ host' = "removed"
           \/ host = "off" /\ host' = "off"
    BY <1>7 DEF OpenState, RemoveState, RestoreFails, Dumps, NoDumps
  <2> QED BY <2>1 DEF Inductive, Hosts, BytesInCall, FailureSeen, InStep, Attached
<1>8. CASE Dump
  BY <1>8 DEF Dump, Image, Inductive, Hosts, Dumps, BytesInCall, FailureSeen, InStep, Attached
<1>9. CASE ReturnFinalize /\ FinalResult = "success"
  BY <1>9 DEF ReturnFinalize, Inductive, Hosts, Dumps, BytesInCall, FailureSeen, InStep,
              Attached, storage
<1>10. CleanAndExit \/ DumpFails \/ (ReturnFinalize /\ FinalResult # "success") => EndWithError
  BY DEF CleanAndExit, DumpFails, ReturnFinalize
<1>11. CASE Idle \/ UNCHANGED vars
  BY <1>11 DEF Idle, vars, storage, Inductive, Dumps, BytesInCall, FailureSeen, InStep,
              Attached, ChunkAvailable, ChunkLeft
<1> QED BY <1>1, <1>2, <1>3, <1>4, <1>5, <1>6, <1>7, <1>8, <1>9, <1>10, <1>11
        DEF Next, Call, Host

\* The host, the applier and the dump agree on what has failed and on where the
\* applier stands in the old image.
THEOREM InductiveInvariant == Spec => []Inductive
<1>1. Init => Inductive
  BY NewIsApplier DEF Init, Inductive, Hosts, Dumps, NoDumps, BytesInCall, FailureSeen, Attached
<1> QED BY <1>1, InductiveNext, PTL DEF Spec

\* detools_apply_patch_restore seeks to from_offset and goes on from there
\* (detools.c:1460-1463), so that it must be where the applier was when it was
\* dumped: it is the position at all times, also after a restore.
THEOREM FromInStepAlways == Spec => []FromInStep
<1>1. Inductive => FromInStep
  BY DEF Inductive, InStep, FromInStep
<1> QED BY <1>1, InductiveInvariant, PTL

\* A failed applier writes nothing and stays failed until its host starts it again
\* (detools.c:1351-1362), and no call of the host in between puts it back to work.
THEOREM FailedIsFinalAlways == Spec => FailedIsFinal
<1>1. ASSUME Inductive, [Next]_vars, Attached, self.state = "failed",
             host' \notin {"off", "complete", "lost"}
      PROVE  self'.state = "failed" /\ to_buffer' = to_buffer
  <2>1. CASE ProcessOnce
    BY <1>1, <2>1
       DEF ProcessOnce, Turn, FixedHeader, ToSize, DfpatchSize, DiffSize, ExtraSize,
           Adjustment, UnpackSize, DiffData, ExtraData, Readable, DiffEnd, ExtraEnd,
           DataEnd, AlreadyDone, AlreadyFailed, Return, storage
  <2>2. CASE Process
    BY <1>1, <2>2 DEF Process, Inductive, IsApplier, Fields, storage
  <2>3. CASE ReturnProcess \/ Finalize \/ RemoveState \/ Dump \/ Idle \/ UNCHANGED vars
    BY <1>1, <2>3 DEF ReturnProcess, Finalize, RemoveState, Dump, Idle, vars, storage
  <2>4. CASE OpenState
    BY <1>1, <2>4 DEF OpenState, Inductive, FailureSeen
  <2>5. CASE ReturnFinalize
    BY <1>1, <2>5 DEF ReturnFinalize, EndWithError, Attached, storage
  <2>6. CASE Start \/ RestoreFails \/ Crash \/ DumpFails \/ CleanAndExit \/ CloseFiles
    BY <1>1, <2>6 DEF Start, RestoreFails, Crash, DumpFails, CleanAndExit, CloseFiles,
                      EndWithError, Attached
  <2> QED BY <1>1, <2>1, <2>2, <2>3, <2>4, <2>5, <2>6 DEF Next, Call, Host
<1>2. Inductive /\ [Next]_vars =>
        [Attached /\ self.state = "failed" /\ host' \notin {"off", "complete", "lost"}
           => self'.state = "failed" /\ to_buffer' = to_buffer]_vars
  BY <1>1
<1> QED BY <1>2, InductiveInvariant, PTL DEF Spec, FailedIsFinal

-----------------------------------------------------------------------------
\* What the applier reads next.  It leaves a block of data only in the turn after the
\* last byte of it.
Stage(r) ==
    CASE r.state = "init" -> r.init_state
      [] r.state = "diff_data" /\ r.chunk_size = 0 -> "extra_size"
      [] r.state = "extra_data" /\ r.chunk_size = 0 -> "adjustment"
      [] OTHER -> r.state

\* The applier is where the decoder is.
Agrees(r, d) ==
    /\ d.state = Stage(r)
    /\ d.size = IF r.state = "init" THEN r.size ELSE r.reader.size
    /\ d.to_size = r.to_size
    /\ Len(d.to) = r.to_offset
    /\ d.from = r.from_offset
    /\ r.state \in DataStates => d.left = r.chunk_size

\* The applier that has consumed so many bytes of the patch and written `output` is
\* where the decoder is after e of them.
Follows(bytes, r, consumed, output, e) ==
    /\ e <= consumed /\ (r.state # "done" => e = consumed)
    /\ Agrees(r, Decoding(From, bytes)[e])
    /\ FlushBeforeDump => output = Decoding(From, bytes)[e].to
    /\ r.reader.open => /\ r.reader.patch_offset <= e
                        /\ r.reader.patch_size - r.reader.patch_offset >= Len(bytes) - e

\* The applier finds that the patch is compressed only at the end of its header.
Undecided(bytes, r) ==
    r.state = "init" /\ r.init_state = "to_size" /\ CompressionOf(bytes[1]) # 0

\* The types of the applier.
Readers ==
    {NoReader} \cup [open : {TRUE}, patch_size : Int, patch_offset : Nat, size : Sizes]

States == SizeStates \cup DataStates \cup {"init", "done", "failed"}

Appliers ==
    [state : States \ {"to_size"}, init_state : {"fixed_header", "to_size"}, size : Sizes,
     patch_offset : Nat, to_offset : Nat, to_size : Nat, from_offset : Nat,
     chunk_size : Int, reader : Readers]

\* What an applier, failed or not, is when it has taken so many bytes: the data it still
\* expects fits in the image, and its patch reader is there once the header is read.
Proper(bytes, r, consumed) ==
    /\ r \in Appliers
    /\ r.patch_offset <= Len(bytes)
    /\ r.chunk_size >= 0 => r.to_offset + r.chunk_size <= r.to_size
    /\ r.state \notin {"init", "failed"} => r.reader.open
    /\ r.reader.open => r.reader.patch_offset <= consumed
    /\ r.state = "init" => /\ r.to_offset = 0 /\ r.chunk_size = 0 /\ r.from_offset = 0
                           /\ r.to_size = 0 /\ ~r.reader.open

\* An applier that has not failed follows the decoder.
Fits(bytes, r, consumed, output) ==
    /\ Proper(bytes, r, consumed)
    /\ r.state = "init" => /\ r.init_state = "fixed_header" => consumed = 0
                           /\ FlushBeforeDump => output = <<>>
    /\ r.state # "failed" /\ ~Undecided(bytes, r) =>
          \E e \in 0 .. Len(bytes) : Follows(bytes, r, consumed, output, e)

\* The files, the chunk and the place in the old image.
Typed ==
    /\ patch \in Patches
    /\ to_file \in Seq(Byte) /\ to_buffer \in Seq(Byte)
    /\ chunk \in [size : Nat, offset : Nat] /\ chunk.offset <= chunk.size
    /\ chunk.size <= self.patch_offset
    /\ from_pos \in Nat

\* What the host does, what the last turn returned, and what that says of the applier.
Calls ==
    /\ ~Attached => chunk = NoChunk /\ self = NewApplier /\ to_buffer = <<>>
    /\ host = "dump" /\ FlushBeforeDump => to_buffer = <<>>
    /\ host \in {"ready", "dump"} => ~ChunkAvailable \/ self.state = "done"
    /\ host = "error" => self.state = "failed"
    /\ host = "finalize" => chunk = NoChunk
    /\ host \in {"process", "finalize"} =>
          /\ res = "ALREADY_DONE" => self.state = "done"
          /\ IsError(res) /\ res # "ALREADY_DONE" => self.state = "failed"
    /\ res # "success"

\* The applier at work, and the one of the last dump.
Working == Attached => Fits(patch.bytes, self, self.patch_offset - ChunkLeft, Output)

DumpFits ==
    dumped \in NoDumps \/
    /\ Fits(patch.bytes, dumped, dumped.patch_offset, SubSeq(to_file, 1, dumped.to_offset))
    /\ FlushBeforeDump => dumped.to_offset <= Len(to_file)

\* What a finalize that has succeeded found, and what is then made of the to-file.
Succeeded == {"finalized", "removed"}

Complete ==
    /\ host \in Succeeded => patch.good /\ (FlushBeforeDump => Output = patch.to)
    /\ host = "complete" => patch.good /\ (FlushBeforeDump => to_file = patch.to)

Complies == Typed /\ Calls /\ Working /\ DumpFits /\ Complete

\* A new applier is where the decoder begins.
LEMMA NewFits ==
    ASSUME NEW bytes \in Seq(Byte)
    PROVE  Fits(bytes, NewApplier, 0, <<>>)
<1>1. FirstSize \in Sizes
  BY DEF FirstSize, Sizes
<1>2. Len(bytes) \in Nat
  OBVIOUS
<1>3. NewApplier \in Appliers
  <2>1. "init" \in States \ {"to_size"} /\ NoReader \in Readers
    BY DEF States, SizeStates, DataStates, Readers
  <2> QED BY <1>1, <2>1 DEF Appliers, NewApplier
<1>4. Proper(bytes, NewApplier, 0)
  BY <1>2, <1>3 DEF Proper, NewApplier, NoReader
<1>5. Decoding(From, bytes)[0] = Begin
  BY DecodingSteps, ApplyPatchAssumption
<1>6. Agrees(NewApplier, Begin)
  <2>1. Len(<<>>) = 0
    OBVIOUS
  <2> QED BY <2>1 DEF Agrees, NewApplier, Begin, Stage, DataStates
<1>7. Follows(bytes, NewApplier, 0, <<>>, 0)
  BY <1>2, <1>5, <1>6 DEF Follows, NewApplier, NoReader, Begin
<1>8. 0 \in 0 .. Len(bytes)
  BY <1>2
<1> QED BY <1>4, <1>7, <1>8 DEF Fits, NewApplier

\* A failed applier.
LEMMA FailedFits ==
    ASSUME NEW bytes, NEW r, NEW c \in Nat, Proper(bytes, r, c), NEW output
    PROVE  Fits(bytes, Failed(r), c, output) /\ Failed(r).state = "failed"
<1>1. Failed(r) \in Appliers
  <2>1. "failed" \in States \ {"to_size"}
    BY DEF States, SizeStates, DataStates
  <2> QED BY <2>1 DEF Proper, Failed, Appliers
<1>2. /\ Failed(r).state = "failed"
      /\ Failed(r).patch_offset = r.patch_offset /\ Failed(r).chunk_size = r.chunk_size
      /\ Failed(r).to_offset = r.to_offset /\ Failed(r).to_size = r.to_size
      /\ Failed(r).reader = r.reader
  BY DEF Proper, Failed, Appliers
<1> QED BY <1>1, <1>2 DEF Fits, Proper

\* The fields of a reader that is open.
LEMMA OpenReader ==
    ASSUME NEW r \in Appliers, r.reader.open
    PROVE  r.reader \in [open : {TRUE}, patch_size : Int, patch_offset : Nat, size : Sizes]
<1>1. r.reader \in Readers
  BY DEF Appliers
<1>2. NoReader.open = FALSE
  BY DEF NoReader
<1>3. r.reader # NoReader
  BY <1>2
<1> QED BY <1>1, <1>3 DEF Readers

\* An applier that has consumed more.
LEMMA ProperLater ==
    ASSUME NEW bytes, NEW r, NEW c \in Nat, NEW k \in Nat, c <= k, Proper(bytes, r, c)
    PROVE  Proper(bytes, r, k)
<1>1. CASE r.reader.open
  <2>1. r.reader.patch_offset \in Nat
    BY <1>1, OpenReader DEF Proper
  <2> QED BY <2>1 DEF Proper
<1>2. CASE ~r.reader.open
  BY <1>2 DEF Proper
<1> QED BY <1>1, <1>2

\* An applier that has read a byte of a size.
ReadByte(r, size) == [r EXCEPT !.reader.patch_offset = @ + 1, !.reader.size = size]

\* What a byte of a size changes of the applier.
LEMMA ReadByteFields ==
    ASSUME NEW r \in Appliers, r.reader.open, NEW size \in Sizes
    PROVE  LET q == ReadByte(r, size)
           IN  /\ q \in Appliers
               /\ q = [r EXCEPT !.reader = q.reader]
               /\ q.reader.open /\ q.reader.size = size
               /\ q.reader.patch_size = r.reader.patch_size
               /\ q.reader.patch_offset = r.reader.patch_offset + 1
               /\ r.reader.patch_offset \in Nat /\ r.reader.patch_size \in Int
<1> DEFINE q == ReadByte(r, size)
           v == [r.reader EXCEPT !.patch_offset = @ + 1, !.size = size]
<1>1. r.reader \in [open : {TRUE}, patch_size : Int, patch_offset : Nat, size : Sizes]
  BY OpenReader
<1>2. v \in [open : {TRUE}, patch_size : Int, patch_offset : Nat, size : Sizes]
  <2> DEFINE w == r.reader
  <2>1. w.patch_offset \in Nat
    BY <1>1
  <2>2. w.patch_offset + 1 \in Nat
    BY <2>1
  <2> DEFINE n == w.patch_offset + 1
  <2>3. v = [w EXCEPT !.patch_offset = n, !.size = size]
    OBVIOUS
  <2> HIDE DEF n
  <2> QED BY <1>1, <2>2, <2>3 DEF n
<1>3. /\ v.open /\ v.size = size /\ v.patch_size = r.reader.patch_size
      /\ v.patch_offset = r.reader.patch_offset + 1
  BY <1>1
<1>4. r.reader.patch_offset \in Nat /\ r.reader.patch_size \in Int
  BY <1>1
<1>5. q = [r EXCEPT !.reader = v] /\ q.reader = v
  BY DEF ReadByte, Appliers
<1> HIDE DEF v, q
<1>6. [r EXCEPT !.reader = v] \in Appliers
  <2>1. v \in Readers
    BY <1>2 DEF Readers
  <2> QED BY <2>1 DEF Appliers
<1> QED BY <1>3, <1>4, <1>5, <1>6 DEF q

-----------------------------------------------------------------------------
UnpackStates == {"dfpatch_size", "diff_size", "extra_size", "adjustment"}

\* A byte of a size that is not the last one.
LEMMA MoreByte ==
    ASSUME NEW d \in Decoders, NEW r \in Appliers, r.reader.open, Agrees(r, d),
           r.state \in UnpackStates, NEW byte \in Byte, ~Overflow(r.reader.size), More(byte)
    PROVE  LET size == SizeAfter(r.reader.size, byte)
           IN  size \in Sizes /\ Agrees(ReadByte(r, size), AfterByte(From, d, byte))
<1> DEFINE size == SizeAfter(r.reader.size, byte)
           q == ReadByte(r, size)
           g == AfterByte(From, d, byte)
<1>1. r.reader.size \in Sizes
  BY OpenReader
<1>2. size \in Sizes
  BY <1>1, SizeTypes
<1>3. d.state = r.state /\ d.size = r.reader.size
  BY DEF Agrees, Stage, UnpackStates
<1>4. g = [d EXCEPT !.size = size]
  BY <1>3 DEF AfterByte, SizeByte, UnpackStates
<1>5. q = [r EXCEPT !.reader = q.reader] /\ q.reader.size = size
  BY <1>2, ReadByteFields
<1> HIDE DEF size, q, g
<1>6. /\ q.state = r.state /\ q.init_state = r.init_state /\ q.size = r.size
      /\ q.to_size = r.to_size /\ q.to_offset = r.to_offset
      /\ q.from_offset = r.from_offset /\ q.chunk_size = r.chunk_size
  BY <1>5 DEF Appliers
<1>7. /\ g.state = d.state /\ g.size = size /\ g.to_size = d.to_size /\ g.to = d.to
      /\ g.from = d.from /\ g.left = d.left
  BY <1>4 DEF Decoders
<1>8. Agrees(q, g)
  BY <1>3, <1>5, <1>6, <1>7 DEF Agrees, Stage, UnpackStates, DataStates
<1> QED BY <1>2, <1>8 DEF size, q, g

\* The last byte of a size.
LEMMA LastByte ==
    ASSUME NEW d \in Decoders, NEW r \in Appliers, r.reader.open, Agrees(r, d),
           r.state \in UnpackStates, NEW byte \in Byte, ~Overflow(r.reader.size), ~More(byte)
    PROVE  LET n == SizeValue(SizeAfter(r.reader.size, byte))
               g == [d EXCEPT !.size = FirstSize]
           IN  /\ n \in Int /\ g \in Decoders
               /\ Agrees(ReadByte(r, FirstSize), g)
               /\ AfterByte(From, d, byte) = AfterValue(g, n)
<1> DEFINE size == SizeAfter(r.reader.size, byte)
           n == SizeValue(size)
           q == ReadByte(r, FirstSize)
           g == [d EXCEPT !.size = FirstSize]
<1>1. r.reader.size \in Sizes /\ FirstSize \in Sizes
  BY OpenReader, SizeTypes
<1>2. size \in Sizes
  BY <1>1, SizeTypes
<1>3. n \in Int
  BY <1>2, SizeTypes
<1>4. d.state = r.state /\ d.size = r.reader.size
  BY DEF Agrees, Stage, UnpackStates
<1>5. AfterByte(From, d, byte) = AfterValue(g, n)
  BY <1>4 DEF AfterByte, SizeByte, UnpackStates, ValueOf
<1>6. q = [r EXCEPT !.reader = q.reader] /\ q.reader.size = FirstSize
  BY <1>1, ReadByteFields
<1>7. g \in Decoders
  BY <1>1 DEF Decoders
<1>8. /\ g.state = d.state /\ g.size = FirstSize /\ g.to_size = d.to_size /\ g.to = d.to
      /\ g.from = d.from /\ g.left = d.left
  BY DEF Decoders
<1> HIDE DEF size, q, g, n
<1>9. /\ q.state = r.state /\ q.init_state = r.init_state /\ q.size = r.size
      /\ q.to_size = r.to_size /\ q.to_offset = r.to_offset
      /\ q.from_offset = r.from_offset /\ q.chunk_size = r.chunk_size
  BY <1>6 DEF Appliers
<1>10. Agrees(q, g)
  BY <1>4, <1>6, <1>8, <1>9 DEF Agrees, Stage, UnpackStates, DataStates
<1> QED BY <1>3, <1>5, <1>7, <1>10 DEF size, q, g, n

\* The handler of a size fails the applier, or does with it what the decoder does.
Handled(q, g) ==
    /\ self' \in Appliers
    /\ self'.reader = q.reader /\ self'.patch_offset = q.patch_offset
    /\ self'.state # "init" /\ from_pos' \in Nat
    /\ self'.chunk_size >= 0 => self'.to_offset + self'.chunk_size <= self'.to_size
    /\ \/ self'.state = "failed" /\ IsError(res') /\ res' \notin {"ALREADY_DONE", "success"}
       \/ self'.state # "failed" /\ res' = "ok" /\ Agrees(self', g)

\* The turn after a whole size brings the applier to where the decoder is after it.
LEMMA HandlerAgrees ==
    ASSUME NEW q \in Appliers, NEW g \in Decoders, Agrees(q, g), q.state \in UnpackStates,
           NEW n \in Int, from_pos = q.from_offset,
           q.chunk_size >= 0 => q.to_offset + q.chunk_size <= q.to_size,
           AfterUnpack(q, n)
    PROVE  Handled(q, AfterValue(g, n))
<1> DEFINE h == AfterValue(g, n)
<1>1. /\ g.state = q.state /\ g.size = q.reader.size /\ g.to_size = q.to_size
      /\ Len(g.to) = q.to_offset /\ g.from = q.from_offset
  BY DEF Agrees, Stage, UnpackStates
<1>2. from_pos \in Nat /\ q.to_offset \in Nat /\ q.to_size \in Nat /\ q.chunk_size \in Int
  BY DEF Appliers
<1>3. Failed(q) \in Appliers
  BY DEF Failed, Appliers, States
<1>4. /\ Failed(q).reader = q.reader /\ Failed(q).patch_offset = q.patch_offset
      /\ Failed(q).state = "failed" /\ Failed(q).chunk_size = q.chunk_size
      /\ Failed(q).to_offset = q.to_offset /\ Failed(q).to_size = q.to_size
  BY DEF Failed, Appliers
<1>5. ASSUME self' = Failed(q), res' \in {"NOT_IMPLEMENTED", "CORRUPT_PATCH", "IO_FAILED"},
             UNCHANGED from_pos
      PROVE  Handled(q, h)
  BY <1>2, <1>3, <1>4, <1>5 DEF Handled, IsError
<1>6. CASE q.state = "dfpatch_size"
  <2>1. AfterDfpatchSize(q, n)
    BY <1>6 DEF AfterUnpack
  <2>2. CASE n > 0
    BY <1>5, <2>1, <2>2 DEF AfterDfpatchSize, Return
  <2>3. CASE ~(n > 0)
    <3>1. /\ self' = [q EXCEPT !.state = "diff_size"] /\ res' = "ok" /\ from_pos' = from_pos
      BY <2>1, <2>3 DEF AfterDfpatchSize, Return
    <3>2. h = [g EXCEPT !.state = "diff_size"]
      BY <1>1, <1>6, <2>3 DEF AfterValue
    <3> HIDE DEF h
    <3>3. self' \in Appliers
      BY <3>1 DEF Appliers, States, SizeStates
    <3>4. /\ self'.reader = q.reader /\ self'.patch_offset = q.patch_offset
          /\ self'.state = "diff_size" /\ self'.chunk_size = q.chunk_size
          /\ self'.to_offset = q.to_offset /\ self'.to_size = q.to_size
          /\ self'.from_offset = q.from_offset
      BY <3>1 DEF Appliers
    <3>5. /\ h.state = "diff_size" /\ h.size = g.size /\ h.to_size = g.to_size /\ h.to = g.to
          /\ h.from = g.from
      BY <3>2 DEF Decoders
    <3>6. Agrees(self', h)
      BY <1>1, <3>4, <3>5 DEF Agrees, Stage, DataStates
    <3> QED BY <1>2, <3>1, <3>3, <3>4, <3>6 DEF Handled, h
  <2> QED BY <2>2, <2>3
<1>7. ASSUME NEW data \in DataStates, NEW after,
             data = "diff_data" => after = "extra_size",
             data = "extra_data" => after = "adjustment",
             AfterSize(q, n, data), h = DataNext(g, n, data, after)
      PROVE  Handled(q, h)
  <2>1. LeadsOut(Len(g.to), n, g.to_size) <=> TooLarge(q, n)
    BY <1>1 DEF TooLarge
  <2>2. CASE TooLarge(q, n)
    BY <1>5, <1>7, <2>2 DEF AfterSize, Return
  <2>3. CASE ~TooLarge(q, n)
    <3>1. /\ self' = [q EXCEPT !.state = data, !.chunk_size = n]
          /\ res' = "ok" /\ from_pos' = from_pos
      BY <1>7, <2>3 DEF AfterSize, Return
    <3>2. h = [g EXCEPT !.state = IF n = 0 THEN after ELSE data, !.left = n]
      BY <1>7, <2>1, <2>3 DEF DataNext
    <3> HIDE DEF h
    <3>3. self' \in Appliers
      BY <3>1 DEF Appliers, States, SizeStates, DataStates
    <3>4. /\ self'.reader = q.reader /\ self'.patch_offset = q.patch_offset
          /\ self'.state = data /\ self'.chunk_size = n
          /\ self'.to_offset = q.to_offset /\ self'.to_size = q.to_size
          /\ self'.from_offset = q.from_offset
      BY <3>1 DEF Appliers
    <3>5. /\ h.state = (IF n = 0 THEN after ELSE data) /\ h.size = g.size
          /\ h.to_size = g.to_size /\ h.to = g.to /\ h.from = g.from /\ h.left = n
      BY <3>2 DEF Decoders
    <3>6. Stage(self') = IF n = 0 THEN after ELSE data
      BY <1>7, <3>4 DEF Stage, DataStates
    <3>7. Agrees(self', h)
      BY <1>1, <1>7, <3>4, <3>5, <3>6 DEF Agrees, DataStates
    <3>8. q.to_offset + n <= q.to_size
      BY <1>2, <2>3 DEF TooLarge, LeadsOut
    <3> QED BY <1>2, <3>1, <3>3, <3>4, <3>7, <3>8 DEF Handled, DataStates
  <2> QED BY <2>2, <2>3
<1>8. CASE q.state = "diff_size"
  <2>1. AfterSize(q, n, "diff_data") /\ h = DataNext(g, n, "diff_data", "extra_size")
    BY <1>1, <1>8 DEF AfterUnpack, AfterValue
  <2> QED BY <1>7, <2>1 DEF DataStates
<1>9. CASE q.state = "extra_size"
  <2>1. AfterSize(q, n, "extra_data") /\ h = DataNext(g, n, "extra_data", "adjustment")
    BY <1>1, <1>9 DEF AfterUnpack, AfterValue
  <2> QED BY <1>7, <2>1 DEF DataStates
<1>10. CASE q.state = "adjustment"
  <2>1. AfterAdjustment(q, n)
    BY <1>10 DEF AfterUnpack
  <2>2. CASE self' = Failed(q) /\ res' = "IO_FAILED" /\ UNCHANGED from_pos
    BY <1>5, <2>2
  <2> DEFINE st == IF q.to_offset = q.to_size THEN "done" ELSE "diff_size"
             m == q.from_offset + n
  <2>3. CASE /\ from_pos + n >= 0 /\ from_pos' = from_pos + n /\ res' = "ok"
             /\ self' = [q EXCEPT !.from_offset = @ + n, !.state = st]
    <3>1. m \in Nat /\ from_pos' = m
      BY <1>2, <2>3
    <3>2. g.from + n = m /\ ~(g.from + n < 0)
      BY <1>1, <3>1
    <3>3. h = [g EXCEPT !.from = m, !.state = st]
      BY <1>1, <1>10, <3>2 DEF AfterValue
    <3>4. self' = [q EXCEPT !.from_offset = m, !.state = st]
      BY <2>3
    <3>5. st \in {"done", "diff_size"}
      OBVIOUS
    <3> HIDE DEF h, m, st
    <3>6. self' \in Appliers
      BY <3>1, <3>4, <3>5 DEF Appliers, States, SizeStates
    <3>7. /\ self'.reader = q.reader /\ self'.patch_offset = q.patch_offset
          /\ self'.state = st /\ self'.chunk_size = q.chunk_size
          /\ self'.to_offset = q.to_offset /\ self'.to_size = q.to_size
          /\ self'.from_offset = m
      BY <3>4 DEF Appliers
    <3>8. /\ h.state = st /\ h.size = g.size /\ h.to_size = g.to_size /\ h.to = g.to
          /\ h.from = m
      BY <3>3 DEF Decoders
    <3>9. Agrees(self', h)
      BY <1>1, <3>5, <3>7, <3>8 DEF Agrees, Stage, DataStates
    <3> QED BY <1>2, <2>3, <3>1, <3>5, <3>6, <3>7, <3>9 DEF Handled, h
  <2> QED BY <2>1, <2>2, <2>3 DEF AfterAdjustment, Return
<1> QED BY <1>6, <1>8, <1>9, <1>10 DEF UnpackStates

-----------------------------------------------------------------------------
\* The bytes of the patch that the applier has taken.
Consumed == self.patch_offset - ChunkLeft

\* The byte of a size adds nothing to the image.
LEMMA SizeKeepsImage ==
    ASSUME NEW d \in Decoders, d.state \in SizeStates, NEW byte \in Byte
    PROVE  AfterByte(From, d, byte).to = d.to
  BY DEF AfterByte, SizeByte, AfterValue, DataNext, Wrong, Decoders, SizeStates

\* An applier and a decoder that have taken n more bytes.
LEMMA FollowsOn ==
    ASSUME NEW bytes \in Seq(Byte), NEW c \in Nat, NEW n \in Nat, c + n <= Len(bytes),
           NEW r, Proper(bytes, r, c), r.reader.open,
           NEW x, Follows(bytes, r, c, x, c),
           NEW q \in Appliers, q.patch_offset = r.patch_offset,
           q.state \notin {"init", "failed"},
           q.chunk_size >= 0 => q.to_offset + q.chunk_size <= q.to_size,
           q.reader.open, q.reader.patch_size = r.reader.patch_size,
           q.reader.patch_offset = r.reader.patch_offset + n,
           Agrees(q, Decoding(From, bytes)[c + n]),
           NEW y, FlushBeforeDump => y = Decoding(From, bytes)[c + n].to
    PROVE  Fits(bytes, q, c + n, y)
<1> DEFINE k == c + n
           p == r.reader.patch_offset
           s == r.reader.patch_size
<1>1. p \in Nat /\ s \in Int
  BY OpenReader DEF Proper
<1>2. p <= c /\ s - p >= Len(bytes) - c
  BY DEF Follows
<1>3. Len(bytes) \in Nat /\ k \in 0 .. Len(bytes)
  OBVIOUS
<1>4. p + n <= k /\ s - (p + n) >= Len(bytes) - k
  BY <1>1, <1>2, <1>3
<1> HIDE DEF k
<1>5. Agrees(q, Decoding(From, bytes)[k]) /\ (FlushBeforeDump => y = Decoding(From, bytes)[k].to)
  BY DEF k
<1>6. k <= k /\ q.reader.patch_offset = p + n /\ q.reader.patch_size = s
  BY <1>3
<1> HIDE DEF p, s
<1>7. Follows(bytes, q, k, y, k)
  BY <1>4, <1>5, <1>6 DEF Follows
<1>8. Proper(bytes, q, k)
  BY <1>4, <1>6 DEF Proper
<1>9. Fits(bytes, q, k, y)
  BY <1>3, <1>7, <1>8 DEF Fits
<1> QED BY <1>9 DEF k

\* An applier that has taken a byte of a size is in order.
LEMMA ReadByteProper ==
    ASSUME NEW bytes, NEW r, NEW c \in Nat, Proper(bytes, r, c), r.reader.open,
           r.state # "init", NEW size \in Sizes
    PROVE  Proper(bytes, ReadByte(r, size), c + 1)
<1> DEFINE q == ReadByte(r, size)
<1>1. r \in Appliers
  BY DEF Proper
<1>2. /\ q \in Appliers /\ q = [r EXCEPT !.reader = q.reader] /\ q.reader.open
      /\ q.reader.patch_offset = r.reader.patch_offset + 1 /\ r.reader.patch_offset \in Nat
  BY <1>1, ReadByteFields
<1> HIDE DEF q
<1>3. /\ q.state = r.state /\ q.patch_offset = r.patch_offset /\ q.chunk_size = r.chunk_size
      /\ q.to_offset = r.to_offset /\ q.to_size = r.to_size
  BY <1>1, <1>2 DEF Appliers
<1>4. q.reader.patch_offset <= c + 1
  BY <1>2 DEF Proper
<1>5. Proper(bytes, q, c + 1)
  BY <1>2, <1>3, <1>4 DEF Proper
<1> QED BY <1>5 DEF q

-----------------------------------------------------------------------------
\* What every turn of the loop keeps.
TurnFits ==
    /\ UNCHANGED <<patch, to_file, dumped, host>>
    /\ chunk' \in [size : Nat, offset : Nat] /\ chunk'.offset <= chunk'.size
    /\ chunk'.size <= self'.patch_offset
    /\ to_buffer' \in Seq(Byte) /\ from_pos' \in Nat
    /\ Fits(patch.bytes, self', Consumed', Output')
    /\ res' # "success" /\ (res' = "ALREADY_DONE" => self'.state = "done")
    /\ IsError(res') /\ res' # "ALREADY_DONE" => self'.state = "failed"

\* The state in which a turn is taken.
LEMMA InTurn ==
    ASSUME Complies, Inductive, NEW st, Turn(st)
    PROVE  /\ patch \in Patches /\ patch.bytes \in Seq(Byte)
           /\ self \in Appliers /\ self.state = st
           /\ Proper(patch.bytes, self, Consumed)
           /\ Fits(patch.bytes, self, Consumed, Output)
           /\ chunk \in [size : Nat, offset : Nat] /\ chunk.offset <= chunk.size
           /\ ChunkLeft \in Nat /\ chunk.size <= self.patch_offset
           /\ Consumed \in Nat /\ Consumed + ChunkLeft <= Len(patch.bytes)
           /\ to_buffer \in Seq(Byte) /\ to_file \in Seq(Byte) /\ Output \in Seq(Byte)
           /\ from_pos \in Nat
           /\ st # "failed" => from_pos = self.from_offset
<1>1. Attached /\ self.state = st
  BY TurnInCall
<1>2. Fits(patch.bytes, self, Consumed, Output) /\ Proper(patch.bytes, self, Consumed)
  BY <1>1 DEF Complies, Working, Fits, Consumed
<1>3. /\ patch \in Patches /\ to_file \in Seq(Byte) /\ to_buffer \in Seq(Byte)
      /\ chunk \in [size : Nat, offset : Nat] /\ chunk.offset <= chunk.size
      /\ chunk.size <= self.patch_offset /\ from_pos \in Nat
  BY DEF Complies, Typed
<1>4. patch.bytes \in Seq(Byte)
  BY <1>3, ApplyPatchAssumption
<1>5. self \in Appliers /\ self.patch_offset <= Len(patch.bytes)
  BY <1>2 DEF Proper
<1>6. chunk.size \in Nat /\ chunk.offset \in Nat
  BY <1>3
<1>7. ChunkLeft \in Nat
  BY <1>3, <1>6 DEF ChunkLeft
<1>8. self.patch_offset \in Nat /\ Len(patch.bytes) \in Nat
  BY <1>4, <1>5 DEF Appliers
<1>9. Consumed \in Nat /\ Consumed + ChunkLeft <= Len(patch.bytes)
  <2>1. ChunkLeft <= self.patch_offset
    BY <1>3, <1>6, <1>8 DEF ChunkLeft
  <2> QED BY <1>5, <1>7, <1>8, <2>1 DEF Consumed
<1>10. Output \in Seq(Byte)
  BY <1>3, ConcatProperties DEF Output
<1>11. st # "failed" => from_pos = self.from_offset
  BY <1>1 DEF Inductive, InStep
<1> QED BY <1>1, <1>2, <1>3, <1>4, <1>5, <1>7, <1>9, <1>10, <1>11

\* n bytes are taken from the chunk.
LEMMA Consuming ==
    ASSUME chunk \in [size : Nat, offset : Nat], chunk.offset <= chunk.size,
           chunk.size <= self.patch_offset, self.patch_offset \in Nat,
           NEW n \in 0 .. ChunkLeft, Consume(n), self'.patch_offset = self.patch_offset
    PROVE  /\ chunk' \in [size : Nat, offset : Nat] /\ chunk'.offset <= chunk'.size
           /\ chunk'.size <= self'.patch_offset /\ Consumed' = Consumed + n
<1> DEFINE s == chunk.size
           o == chunk.offset
<1>1. s \in Nat /\ o \in Nat /\ n <= s - o /\ n \in Nat /\ o <= s
  BY DEF ChunkLeft
<1>2. o + n \in Nat /\ o + n <= s
  BY <1>1
<1> DEFINE m == o + n
<1>3. chunk' = [chunk EXCEPT !.offset = m]
  BY DEF Consume
<1> HIDE DEF m
<1>4. chunk' \in [size : Nat, offset : Nat] /\ chunk'.size = s /\ chunk'.offset = m
  BY <1>2, <1>3 DEF m
<1>5. ChunkLeft = s - o /\ ChunkLeft' = s - m
  BY <1>4 DEF ChunkLeft
<1> HIDE DEF s, o
<1>6. s - m = (s - o) - n
  BY <1>1 DEF m
<1> DEFINE p == self.patch_offset
<1>7. p \in Nat /\ Consumed = p - (s - o) /\ Consumed' = p - (s - m)
  BY <1>5 DEF Consumed
<1> HIDE DEF p
<1>8. Consumed' = Consumed + n
  BY <1>1, <1>6, <1>7
<1>9. chunk'.size <= self'.patch_offset
  BY <1>4 DEF s
<1> QED BY <1>2, <1>4, <1>8, <1>9 DEF m, s

\* The next byte of the chunk.
LEMMA NextByte ==
    ASSUME patch.bytes \in Seq(Byte), ChunkLeft \in Nat, Consumed \in Nat,
           Consumed + ChunkLeft <= Len(patch.bytes), ChunkAvailable
    PROVE  /\ 1 \in 0 .. ChunkLeft /\ Consumed \in 0 .. Len(patch.bytes)
           /\ Consumed + 1 \in 1 .. Len(patch.bytes)
           /\ ChunkByte(1) \in Byte /\ ChunkByte(1) = patch.bytes[Consumed + 1]
           /\ LET D == Decoding(From, patch.bytes)
              IN  D[Consumed] \in Decoders
                  /\ D[Consumed + 1] = AfterByte(From, D[Consumed], ChunkByte(1))
<1> DEFINE N == Len(patch.bytes)
           D == Decoding(From, patch.bytes)
           c == Consumed
<1>1. N \in Nat /\ ChunkLeft > 0
  BY DEF ChunkAvailable
<1>2. /\ 1 \in 0 .. ChunkLeft /\ c \in 0 .. N /\ c + 1 \in 1 .. N /\ (c + 1) - 1 = c
  BY <1>1
<1>3. /\ \A k \in 0 .. N : D[k] \in Decoders
      /\ \A k \in 1 .. N : D[k] = AfterByte(From, D[k - 1], patch.bytes[k])
  BY DecodingSteps, ApplyPatchAssumption
<1>4. ChunkByte(1) = patch.bytes[c + 1]
  BY DEF ChunkByte, Consumed
<1>5. patch.bytes[c + 1] \in Byte
  BY <1>2
<1> HIDE DEF D, c, N
<1>6. D[c] \in Decoders /\ D[c + 1] = AfterByte(From, D[c], patch.bytes[c + 1])
  BY <1>2, <1>3
<1> QED BY <1>2, <1>4, <1>5, <1>6 DEF D, c, N

-----------------------------------------------------------------------------
\* Turns that end without taking a byte.
LEMMA IdleFits ==
    ASSUME Complies, Inductive, NEW st, Turn(st), st \notin {"done", "failed"},
           Return(self, "more") \/ Return(Failed(self), "CORRUPT_PATCH")
             \/ Return(Failed(self), "SHORT_HEADER"),
           UNCHANGED <<storage, host, chunk, from_pos>>
    PROVE  TurnFits
<1> USE DEF storage
<1>1. /\ Fits(patch.bytes, self, Consumed, Output) /\ Proper(patch.bytes, self, Consumed)
      /\ Consumed \in Nat /\ self.state = st /\ self \in Appliers
      /\ chunk \in [size : Nat, offset : Nat] /\ chunk.offset <= chunk.size
      /\ chunk.size <= self.patch_offset /\ to_buffer \in Seq(Byte) /\ from_pos \in Nat
  BY InTurn
<1>2. Output' = Output /\ ChunkLeft' = ChunkLeft
  BY DEF Output, ChunkLeft
<1>3. CASE Return(self, "more")
  <2>1. Consumed' = Consumed
    BY <1>2, <1>3 DEF Consumed, Return
  <2> QED BY <1>1, <1>2, <1>3, <2>1 DEF TurnFits, Return, IsError
<1>4. ASSUME self' = Failed(self), res' \in {"CORRUPT_PATCH", "SHORT_HEADER"}
      PROVE  TurnFits
  <2>1. Fits(patch.bytes, Failed(self), Consumed, Output') /\ Failed(self).state = "failed"
    BY <1>1, FailedFits
  <2>2. Failed(self).patch_offset = self.patch_offset
    BY <1>1 DEF Failed, Appliers
  <2>3. Consumed' = Consumed
    BY <1>2, <1>4, <2>2 DEF Consumed
  <2> QED BY <1>1, <1>2, <1>4, <2>1, <2>2, <2>3 DEF TurnFits, IsError
<1> QED BY <1>3, <1>4 DEF Return

\* A turn that takes n bytes of the chunk and fails.
LEMMA FailedTurnFits ==
    ASSUME Complies, Inductive, NEW st, Turn(st), NEW n \in 0 .. ChunkLeft, Consume(n),
           NEW r, self' = Failed(r), Proper(patch.bytes, r, Consumed + n),
           r.patch_offset = self.patch_offset,
           IsError(res'), res' \notin {"ALREADY_DONE", "success"},
           UNCHANGED <<patch, to_file, dumped, host>>,
           to_buffer' \in Seq(Byte), from_pos' \in Nat
    PROVE  TurnFits
<1>1. /\ Consumed \in Nat /\ ChunkLeft \in Nat /\ self \in Appliers
      /\ chunk \in [size : Nat, offset : Nat] /\ chunk.offset <= chunk.size
      /\ chunk.size <= self.patch_offset
  BY InTurn
<1>2. Consumed + n \in Nat
  BY <1>1
<1>3. Fits(patch.bytes, self', Consumed + n, Output') /\ self'.state = "failed"
  BY <1>2, FailedFits
<1>4. self'.patch_offset = self.patch_offset /\ self.patch_offset \in Nat
  BY <1>1 DEF Failed, Proper, Appliers
<1>5. /\ chunk' \in [size : Nat, offset : Nat] /\ chunk'.offset <= chunk'.size
      /\ chunk'.size <= self'.patch_offset /\ Consumed' = Consumed + n
  BY <1>1, <1>4, Consuming
<1> QED BY <1>3, <1>4, <1>5 DEF TurnFits

\* A turn that reads a size keeps the applier with the decoder.
LEMMA UnpackSizeFits ==
    ASSUME Complies, Inductive, NEW st \in UnpackStates, UnpackSize(st)
    PROVE  TurnFits
<1> DEFINE bytes == patch.bytes
           D == Decoding(From, bytes)
           d == D[Consumed]
           byte == ChunkByte(1)
           size == SizeAfter(self.reader.size, byte)
<1>1. Turn(st) /\ UNCHANGED <<storage, host>>
  BY DEF UnpackSize
<1>2. /\ bytes \in Seq(Byte) /\ Fits(bytes, self, Consumed, Output)
      /\ Proper(bytes, self, Consumed) /\ Consumed \in Nat /\ ChunkLeft \in Nat
      /\ self.state = st /\ self \in Appliers
      /\ chunk \in [size : Nat, offset : Nat] /\ chunk.offset <= chunk.size
      /\ chunk.size <= self.patch_offset /\ Consumed + ChunkLeft <= Len(bytes)
      /\ to_buffer \in Seq(Byte) /\ from_pos \in Nat
  BY <1>1, InTurn
<1>3. st \notin {"init", "done", "failed"} /\ from_pos = self.from_offset
  BY <1>1, InTurn DEF UnpackStates
<1>4. CASE PatchEnds(1)
  <2>1. Return(Failed(self), "CORRUPT_PATCH") /\ UNCHANGED <<chunk, from_pos>>
    BY <1>4 DEF UnpackSize
  <2> QED BY <1>1, <1>3, <2>1, IdleFits
<1>5. CASE ~PatchEnds(1) /\ ~ChunkAvailable
  <2>1. Return(self, "more") /\ UNCHANGED <<chunk, from_pos>>
    BY <1>5 DEF UnpackSize
  <2> QED BY <1>1, <1>3, <2>1, IdleFits
<1>6. CASE ~PatchEnds(1) /\ ChunkAvailable
  <2>1. /\ 1 \in 0 .. ChunkLeft /\ Consumed \in 0 .. Len(bytes)
        /\ Consumed + 1 \in 1 .. Len(bytes) /\ byte \in Byte
        /\ d \in Decoders /\ D[Consumed + 1] = AfterByte(From, d, byte)
    BY <1>2, <1>6, NextByte
  <2>2. Consume(1)
    BY <1>6 DEF UnpackSize
  <2>3. Follows(bytes, self, Consumed, Output, Consumed)
    BY <1>2, <1>3 DEF Fits, Undecided, Follows
  <2>4. self.reader.open /\ Agrees(self, d) /\ (FlushBeforeDump => Output = d.to)
    BY <1>2, <1>3, <2>3 DEF Proper, Follows
  <2>5. d.state \in SizeStates
    BY <1>2, <2>4 DEF Agrees, Stage, UnpackStates, SizeStates
  <2>6. D[Consumed + 1].to = d.to
    BY <2>1, <2>5, SizeKeepsImage
  <2>7. self.reader.size \in Sizes /\ FirstSize \in Sizes
    <3>1. self.reader.size \in Sizes
      BY <1>2, <2>4, OpenReader
    <3>2. FirstSize \in Sizes
      BY DEF FirstSize, Sizes
    <3> QED BY <3>1, <3>2
  <2> HIDE DEF d, D, byte, bytes
  <2>8. ASSUME NEW q, q \in Appliers, q.patch_offset = self.patch_offset,
               q.state \notin {"init", "failed"},
               q.chunk_size >= 0 => q.to_offset + q.chunk_size <= q.to_size,
               NEW z, q.reader = ReadByte(self, z).reader, z \in Sizes,
               Agrees(q, D[Consumed + 1]), self' = q, res' \in {"ok", "byte"},
               from_pos' \in Nat
        PROVE  TurnFits
    <3>1. /\ q.reader.open /\ q.reader.patch_size = self.reader.patch_size
          /\ q.reader.patch_offset = self.reader.patch_offset + 1
      BY <1>2, <2>4, <2>8, ReadByteFields
    <3>2. Output' = Output
      BY <1>1 DEF Output, storage
    <3>3. FlushBeforeDump => Output' = D[Consumed + 1].to
      BY <2>4, <2>6, <3>2
    <3>4. Consumed + 1 <= Len(bytes) /\ 1 \in Nat
      BY <1>2, <2>1
    <3>5. Fits(bytes, self', Consumed + 1, Output')
      BY <1>2, <2>3, <2>4, <2>8, <3>1, <3>3, <3>4, FollowsOn DEF D
    <3>6. self'.patch_offset = self.patch_offset /\ self.patch_offset \in Nat
      BY <1>2, <2>8 DEF Appliers
    <3>7. /\ chunk' \in [size : Nat, offset : Nat] /\ chunk'.offset <= chunk'.size
          /\ chunk'.size <= self'.patch_offset /\ Consumed' = Consumed + 1
      BY <1>2, <2>1, <2>2, <3>6, Consuming
    <3> QED BY <1>1, <1>2, <2>8, <3>5, <3>7 DEF TurnFits, storage, IsError, bytes
  <2>9. CASE Overflow(self.reader.size)
    <3> DEFINE q == ReadByte(self, self.reader.size)
    <3>1. self' = Failed(q) /\ res' = "CORRUPT_PATCH_OVERFLOW" /\ from_pos' = from_pos
      BY <1>6, <2>9 DEF UnpackSize, Return, ReadByte
    <3>2. Proper(bytes, q, Consumed + 1)
      BY <1>2, <1>3, <2>4, <2>7, ReadByteProper
    <3>3. q = [self EXCEPT !.reader = q.reader]
      BY <1>2, <2>4, <2>7, ReadByteFields
    <3> HIDE DEF q
    <3>4. q.patch_offset = self.patch_offset
      BY <1>2, <3>3 DEF Appliers
    <3>5. IsError(res') /\ res' \notin {"ALREADY_DONE", "success"}
      BY <3>1 DEF IsError
    <3> QED BY <1>1, <1>2, <2>1, <2>2, <3>1, <3>2, <3>4, <3>5, FailedTurnFits DEF storage, bytes
  <2>10. CASE ~Overflow(self.reader.size) /\ More(byte)
    <3> DEFINE q == ReadByte(self, size)
    <3>1. self' = q /\ res' = "byte" /\ from_pos' = from_pos
      BY <1>6, <2>10 DEF UnpackSize, Return, ReadByte, byte
    <3>2. size \in Sizes /\ Agrees(q, D[Consumed + 1])
      BY <1>2, <2>1, <2>4, <2>10, MoreByte
    <3>3. q \in Appliers /\ q = [self EXCEPT !.reader = q.reader]
      BY <1>2, <2>4, <3>2, ReadByteFields
    <3> HIDE DEF size
    <3>4. q.reader = ReadByte(self, size).reader
      OBVIOUS
    <3> HIDE DEF q
    <3>5. /\ q.state = st /\ q.patch_offset = self.patch_offset
          /\ q.chunk_size = self.chunk_size /\ q.to_offset = self.to_offset
          /\ q.to_size = self.to_size
      BY <1>2, <3>3 DEF Appliers
    <3>6. q.chunk_size >= 0 => q.to_offset + q.chunk_size <= q.to_size
      BY <1>2, <3>5 DEF Proper
    <3> QED BY <1>2, <1>3, <2>8, <3>1, <3>2, <3>3, <3>4, <3>5, <3>6
  <2>11. CASE ~Overflow(self.reader.size) /\ ~More(byte)
    <3> DEFINE q == ReadByte(self, FirstSize)
               n == SizeValue(size)
               g == [d EXCEPT !.size = FirstSize]
    <3>1. AfterUnpack(q, n)
      BY <1>6, <2>11 DEF UnpackSize, Return, ReadByte, byte
    <3>2. /\ n \in Int /\ g \in Decoders /\ Agrees(q, g)
          /\ D[Consumed + 1] = AfterValue(g, n)
      BY <1>2, <2>1, <2>4, <2>11, LastByte
    <3>3. q \in Appliers /\ q = [self EXCEPT !.reader = q.reader]
      BY <1>2, <2>4, <2>7, ReadByteFields
    <3>4. q.reader = ReadByte(self, FirstSize).reader
      OBVIOUS
    <3>5. Proper(bytes, q, Consumed + 1)
      BY <1>2, <1>3, <2>4, <2>7, ReadByteProper
    <3> HIDE DEF q, n, g
    <3>6. /\ q.state = st /\ q.patch_offset = self.patch_offset
          /\ q.chunk_size = self.chunk_size /\ q.to_offset = self.to_offset
          /\ q.to_size = self.to_size /\ q.from_offset = self.from_offset
      BY <1>2, <3>3 DEF Appliers
    <3>7. q.chunk_size >= 0 => q.to_offset + q.chunk_size <= q.to_size
      BY <1>2, <3>6 DEF Proper
    <3>8. Handled(q, AfterValue(g, n))
      BY <1>3, <3>1, <3>2, <3>3, <3>6, <3>7, HandlerAgrees
    <3>9. CASE self'.state = "failed"
      <4>1. /\ self' \in Appliers /\ self'.reader = q.reader
            /\ self'.patch_offset = q.patch_offset /\ from_pos' \in Nat
            /\ self'.chunk_size >= 0 => self'.to_offset + self'.chunk_size <= self'.to_size
            /\ IsError(res') /\ res' \notin {"ALREADY_DONE", "success"}
        BY <3>8, <3>9 DEF Handled
      <4>2. Proper(bytes, self', Consumed + 1)
        BY <3>5, <3>9, <4>1 DEF Proper
      <4>3. self' = Failed(self')
        BY <3>9, <4>1 DEF Failed, Appliers
      <4>4. self'.patch_offset = self.patch_offset
        BY <3>6, <4>1
      <4> QED BY <1>1, <1>2, <2>1, <2>2, <4>1, <4>2, <4>3, <4>4, FailedTurnFits DEF storage, bytes
    <3>10. CASE self'.state # "failed"
      <4>1. /\ self' \in Appliers /\ self'.reader = q.reader /\ self'.state # "init"
            /\ self'.patch_offset = q.patch_offset /\ from_pos' \in Nat
            /\ self'.chunk_size >= 0 => self'.to_offset + self'.chunk_size <= self'.to_size
            /\ res' = "ok" /\ Agrees(self', AfterValue(g, n))
        BY <3>8, <3>10 DEF Handled
      <4> QED BY <2>7, <2>8, <3>2, <3>4, <3>6, <3>10, <4>1
    <3> QED BY <3>9, <3>10
  <2> QED BY <2>9, <2>10, <2>11
<1> QED BY <1>4, <1>5, <1>6

\* So does one that finds no data.
LEMMA DataEndFits ==
    ASSUME Complies, Inductive, NEW st \in DataStates, NEW next,
           st = "diff_data" => next = "extra_size", st = "extra_data" => next = "adjustment",
           DataEnd(st, next)
    PROVE  TurnFits
<1> DEFINE bytes == patch.bytes
<1>1. Turn(st) /\ UNCHANGED <<storage, host, chunk, from_pos>>
  BY DEF DataEnd
<1>2. /\ bytes \in Seq(Byte) /\ Fits(bytes, self, Consumed, Output)
      /\ Proper(bytes, self, Consumed) /\ Consumed \in Nat
      /\ self.state = st /\ self \in Appliers
      /\ chunk \in [size : Nat, offset : Nat] /\ chunk.offset <= chunk.size
      /\ chunk.size <= self.patch_offset
      /\ to_buffer \in Seq(Byte) /\ from_pos \in Nat
  BY <1>1, InTurn
<1>3. st \notin {"init", "done", "failed"}
  BY DEF DataStates
<1>4. CASE Return(self, "more") \/ Return(Failed(self), "CORRUPT_PATCH")
  BY <1>1, <1>3, <1>4, IdleFits
<1>5. CASE Wanted = 0 /\ Return([self EXCEPT !.state = next], "ok")
  <2> DEFINE q == [self EXCEPT !.state = next]
  <2>1. self.chunk_size = 0
    <3>1. self.chunk_size \in Int /\ BufferSize \in Nat \ {0}
      BY <1>2, ApplyPatchAssumption DEF Appliers
    <3> QED BY <1>5, <3>1 DEF Wanted, MinOf
  <2>2. next \in {"extra_size", "adjustment"}
    BY DEF DataStates
  <2>3. q \in Appliers
    BY <1>2, <2>2 DEF Appliers, States, SizeStates
  <2>4. /\ q.state = next /\ q.init_state = self.init_state /\ q.size = self.size
        /\ q.patch_offset = self.patch_offset /\ q.to_offset = self.to_offset
        /\ q.to_size = self.to_size /\ q.from_offset = self.from_offset
        /\ q.chunk_size = self.chunk_size /\ q.reader = self.reader
    BY <1>2 DEF Appliers
  <2>5. self' = q /\ res' = "ok"
    BY <1>5 DEF Return
  <2> HIDE DEF q, bytes
  <2>6. Proper(bytes, q, Consumed)
    BY <1>2, <1>3, <2>2, <2>3, <2>4 DEF Proper
  <2>7. PICK e \in 0 .. Len(bytes) : Follows(bytes, self, Consumed, Output, e)
    BY <1>2, <1>3 DEF Fits, Undecided
  <2>8. Stage(q) = Stage(self)
    BY <1>2, <2>1, <2>2, <2>4 DEF Stage, DataStates
  <2>9. Agrees(q, Decoding(From, bytes)[e])
    <3>1. Agrees(self, Decoding(From, bytes)[e])
      BY <2>7 DEF Follows
    <3> QED BY <1>2, <1>3, <2>2, <2>4, <2>8, <3>1 DEF Agrees, DataStates
  <2>10. Follows(bytes, q, Consumed, Output, e)
    BY <1>2, <1>3, <2>2, <2>4, <2>7, <2>9 DEF Follows
  <2>11. Output' = Output /\ ChunkLeft' = ChunkLeft
    BY <1>1 DEF Output, ChunkLeft, storage
  <2>12. Consumed' = Consumed
    BY <2>4, <2>5, <2>11 DEF Consumed
  <2>13. Fits(bytes, q, Consumed, Output)
    BY <2>2, <2>4, <2>6, <2>10 DEF Fits
  <2> QED BY <1>1, <1>2, <2>4, <2>5, <2>11, <2>12, <2>13 DEF TurnFits, storage, IsError, bytes
<1> QED BY <1>4, <1>5 DEF DataEnd

-----------------------------------------------------------------------------
\* So does the first byte of the header.
LEMMA FixedHeaderFits ==
    ASSUME Complies, Inductive, FixedHeader
    PROVE  TurnFits
<1> DEFINE bytes == patch.bytes
           D == Decoding(From, bytes)
           byte == ChunkByte(1)
           q == [self EXCEPT !.init_state = "to_size", !.size = FirstSize]
<1>1. Turn("init") /\ UNCHANGED <<storage, host, from_pos>>
      /\ self.init_state = "fixed_header"
  BY DEF FixedHeader
<1>2. /\ bytes \in Seq(Byte) /\ Fits(bytes, self, Consumed, Output)
      /\ Proper(bytes, self, Consumed) /\ Consumed \in Nat /\ ChunkLeft \in Nat
      /\ self.state = "init" /\ self \in Appliers
      /\ chunk \in [size : Nat, offset : Nat] /\ chunk.offset <= chunk.size
      /\ chunk.size <= self.patch_offset /\ Consumed + ChunkLeft <= Len(bytes)
      /\ to_buffer \in Seq(Byte) /\ from_pos \in Nat
  BY <1>1, InTurn
<1>3. CASE ~ChunkAvailable
  <2>1. Return(Failed(self), "SHORT_HEADER") /\ UNCHANGED chunk
    BY <1>3 DEF FixedHeader
  <2> QED BY <1>1, <2>1, IdleFits
<1>4. CASE ChunkAvailable /\ PatchType(byte) # 0
  <2>1. Consume(1) /\ self' = Failed(self) /\ res' = "BAD_PATCH_TYPE"
    BY <1>4 DEF FixedHeader, Return
  <2>2. 1 \in 0 .. ChunkLeft
    BY <1>2, <1>4, NextByte
  <2>3. Proper(bytes, self, Consumed + 1)
    BY <1>2, ProperLater
  <2> QED BY <1>1, <1>2, <2>1, <2>2, <2>3, FailedTurnFits DEF storage, IsError
<1>5. CASE ChunkAvailable /\ PatchType(byte) = 0
  <2>1. Consume(1) /\ self' = q /\ res' = "ok"
    BY <1>5 DEF FixedHeader, Return
  <2>2. Consumed = 0 /\ (FlushBeforeDump => Output = <<>>)
    BY <1>1, <1>2 DEF Fits
  <2>3. /\ 1 \in 0 .. ChunkLeft /\ 1 \in 0 .. Len(bytes) /\ byte = bytes[1]
        /\ D[0] \in Decoders /\ D[1] = AfterByte(From, D[0], byte)
    BY <1>2, <1>5, <2>2, NextByte
  <2>4. Follows(bytes, self, 0, Output, 0)
    BY <1>1, <1>2, <2>2 DEF Fits, Undecided, Follows
  <2>5. Agrees(self, D[0]) /\ (FlushBeforeDump => Output = D[0].to)
    BY <2>4 DEF Follows
  <2>6. D[0].state = "fixed_header"
    BY <1>1, <1>2, <2>5 DEF Agrees, Stage
  <2>7. FirstSize \in Sizes
    BY DEF FirstSize, Sizes
  <2>8. q \in Appliers
    BY <1>2, <2>7 DEF Appliers
  <2>9. /\ q.state = "init" /\ q.init_state = "to_size" /\ q.size = FirstSize
        /\ q.patch_offset = self.patch_offset /\ q.to_offset = self.to_offset
        /\ q.to_size = self.to_size /\ q.from_offset = self.from_offset
        /\ q.chunk_size = self.chunk_size /\ q.reader = self.reader
    BY <1>2 DEF Appliers
  <2> HIDE DEF q
  <2>10. Proper(bytes, q, 1)
    BY <1>2, <2>8, <2>9 DEF Proper
  <2>11. ASSUME ~Undecided(bytes, q) PROVE Follows(bytes, q, 1, Output, 1)
    <3>1. CompressionOf(byte) = 0
      BY <2>3, <2>9, <2>11 DEF Undecided
    <3>2. D[0] = Begin
      BY <1>2, DecodingSteps, ApplyPatchAssumption
    <3>3. D[1] = [Begin EXCEPT !.state = "to_size"]
      BY <1>5, <2>3, <3>1, <3>2 DEF AfterByte, Begin
    <3>4. /\ D[1].state = "to_size" /\ D[1].size = FirstSize /\ D[1].to_size = 0
          /\ D[1].to = <<>> /\ D[1].from = 0
      BY <3>3 DEF Begin
    <3>5. Len(<<>>) = 0
      OBVIOUS
    <3>6. Agrees(q, D[1])
      BY <1>2, <2>9, <3>4, <3>5 DEF Agrees, Stage, Proper, DataStates
    <3>7. ~q.reader.open
      BY <1>2, <2>9 DEF Proper
    <3> QED BY <2>2, <2>9, <3>4, <3>6, <3>7 DEF Follows
  <2>12. Output' = Output
    BY <1>1 DEF Output, storage
  <2>13. Fits(bytes, q, 1, Output)
    BY <2>2, <2>3, <2>9, <2>10, <2>11 DEF Fits
  <2>14. self'.patch_offset = self.patch_offset /\ self.patch_offset \in Nat
    BY <1>2, <2>1, <2>9 DEF Appliers
  <2>15. /\ chunk' \in [size : Nat, offset : Nat] /\ chunk'.offset <= chunk'.size
         /\ chunk'.size <= self'.patch_offset /\ Consumed' = Consumed + 1
    BY <1>2, <2>1, <2>3, <2>14, Consuming
  <2>16. Fits(bytes, self', Consumed', Output')
    BY <2>1, <2>2, <2>12, <2>13, <2>15
  <2> QED BY <1>1, <1>2, <2>1, <2>15, <2>16 DEF TurnFits, storage, IsError
<1> QED BY <1>3, <1>4, <1>5

\* So does the rest of it.
LEMMA ToSizeFits ==
    ASSUME Complies, Inductive, ToSize
    PROVE  TurnFits
<1> DEFINE bytes == patch.bytes
           D == Decoding(From, bytes)
           d == D[Consumed]
           byte == ChunkByte(1)
           size == SizeAfter(self.size, byte)
           left == Len(bytes) - chunk.offset - 1
<1>1. Turn("init") /\ UNCHANGED <<storage, host, from_pos>>
      /\ self.init_state = "to_size"
  BY DEF ToSize
<1>2. /\ bytes \in Seq(Byte) /\ Fits(bytes, self, Consumed, Output)
      /\ Proper(bytes, self, Consumed) /\ Consumed \in Nat /\ ChunkLeft \in Nat
      /\ self.state = "init" /\ self \in Appliers
      /\ chunk \in [size : Nat, offset : Nat] /\ chunk.offset <= chunk.size
      /\ chunk.size <= self.patch_offset /\ Consumed + ChunkLeft <= Len(bytes)
      /\ to_buffer \in Seq(Byte) /\ from_pos \in Nat
  BY <1>1, InTurn
<1>3. CASE ~ChunkAvailable
  <2>1. Return(self, "more") /\ UNCHANGED chunk
    BY <1>3 DEF ToSize
  <2> QED BY <1>1, <2>1, IdleFits
<1>4. CASE ChunkAvailable
  <2>1. /\ 1 \in 0 .. ChunkLeft /\ Consumed \in 0 .. Len(bytes)
        /\ Consumed + 1 \in 0 .. Len(bytes) /\ byte \in Byte
        /\ d \in Decoders /\ D[Consumed + 1] = AfterByte(From, d, byte)
    BY <1>2, <1>4, NextByte
  <2>2. Consume(1)
    BY <1>4 DEF ToSize
  <2>3. FirstSize \in Sizes /\ self.size \in Sizes /\ size \in Sizes
    <3>1. self.size \in Sizes
      BY <1>2 DEF Appliers
    <3> QED BY <2>1, <3>1, SizeTypes
  <2>4. CompressionOf(bytes[1]) = 0 =>
           /\ Agrees(self, d) /\ (FlushBeforeDump => Output = d.to)
    BY <1>1, <1>2 DEF Fits, Undecided, Follows
  <2>5. CompressionOf(bytes[1]) = 0 =>
           /\ d.state = "to_size" /\ d.size = self.size /\ d.to_size = 0
           /\ Len(d.to) = 0 /\ d.from = 0
    BY <1>1, <1>2, <2>4 DEF Agrees, Stage, Proper
  <2>6. Output' = Output
    BY <1>1 DEF Output, storage
  <2>7. Proper(bytes, self, Consumed + 1)
    BY <1>2, ProperLater
  <2>8. FlushBeforeDump => Output = <<>>
    BY <1>2 DEF Fits
  <2> HIDE DEF d, D, byte
  <2>9. ASSUME self' = Failed(self),
               res' \in {"CORRUPT_PATCH_OVERFLOW", "BAD_COMPRESSION"}
        PROVE  TurnFits
    BY <1>1, <1>2, <2>1, <2>2, <2>7, <2>9, FailedTurnFits DEF storage, IsError
  <2>10. CASE Overflow(self.size)
    BY <1>4, <2>9, <2>10 DEF ToSize, Return
  <2>11. ASSUME NEW q \in Appliers, q.patch_offset = self.patch_offset,
                self' = q, res' \in {"ok", "byte"}, Fits(bytes, q, Consumed + 1, Output)
         PROVE  TurnFits
    <3>1. self'.patch_offset = self.patch_offset /\ self.patch_offset \in Nat
      BY <1>2, <2>11 DEF Appliers
    <3>2. /\ chunk' \in [size : Nat, offset : Nat] /\ chunk'.offset <= chunk'.size
          /\ chunk'.size <= self'.patch_offset /\ Consumed' = Consumed + 1
      BY <1>2, <2>1, <2>2, <3>1, Consuming
    <3>3. Fits(bytes, self', Consumed', Output')
      BY <2>6, <2>11, <3>2
    <3> QED BY <1>1, <1>2, <2>11, <3>2, <3>3 DEF TurnFits, storage, IsError
  <2>12. CASE ~Overflow(self.size) /\ More(byte)
    <3> DEFINE q == [self EXCEPT !.size = size]
               g == D[Consumed + 1]
    <3>1. self' = q /\ res' = "byte"
      BY <1>4, <2>12 DEF ToSize, Return, byte
    <3>2. q \in Appliers
      BY <1>2, <2>3 DEF Appliers
    <3> HIDE DEF size
    <3>3. /\ q.state = "init" /\ q.init_state = "to_size" /\ q.size = size
          /\ q.patch_offset = self.patch_offset /\ q.to_offset = self.to_offset
          /\ q.to_size = self.to_size /\ q.from_offset = self.from_offset
          /\ q.chunk_size = self.chunk_size /\ q.reader = self.reader
      BY <1>1, <1>2 DEF Appliers
    <3> HIDE DEF q
    <3>4. Proper(bytes, q, Consumed + 1)
      BY <2>7, <1>2, <3>2, <3>3 DEF Proper
    <3>5. ASSUME ~Undecided(bytes, q)
          PROVE  Follows(bytes, q, Consumed + 1, Output, Consumed + 1)
      <4>1. CompressionOf(bytes[1]) = 0
        BY <3>3, <3>5 DEF Undecided
      <4>2. g = [d EXCEPT !.size = size]
        BY <2>1, <2>5, <2>12, <4>1 DEF AfterByte, SizeByte, size
      <4> HIDE DEF g
      <4>3. /\ g.state = "to_size" /\ g.size = size /\ g.to_size = 0 /\ Len(g.to) = 0
            /\ g.from = 0 /\ g.to = d.to
        BY <2>1, <2>5, <4>1, <4>2 DEF Decoders
      <4>4. Agrees(q, g)
        BY <1>2, <3>3, <4>3 DEF Agrees, Stage, Proper, DataStates
      <4>5. ~q.reader.open /\ (FlushBeforeDump => Output = g.to)
        BY <1>2, <2>4, <3>3, <4>1, <4>3 DEF Proper
      <4> QED BY <2>1, <3>3, <4>4, <4>5 DEF Follows, g, D
    <3>6. Fits(bytes, q, Consumed + 1, Output)
      BY <2>1, <2>8, <3>3, <3>4, <3>5 DEF Fits
    <3> QED BY <2>11, <3>1, <3>2, <3>3, <3>6
  <2>13. CASE ~Overflow(self.size) /\ ~More(byte) /\ Compression # 0
    BY <1>4, <2>9, <2>13 DEF ToSize, Return, byte
  <2>14. CASE ~Overflow(self.size) /\ ~More(byte) /\ Compression = 0
    <3> DEFINE v == size.value
               st == IF v > 0 THEN "dfpatch_size" ELSE "done"
               q == [self EXCEPT !.to_size = v, !.reader = Reader(left), !.state = st]
               g == D[Consumed + 1]
    <3>1. self' = q /\ res' = "ok"
      <4>1. self' = AfterToSize([self EXCEPT !.to_size = v, !.reader = Reader(left)])
            /\ res' = "ok"
        BY <1>4, <2>14 DEF ToSize, Return, byte
      <4> HIDE DEF left, size
      <4>2. AfterToSize([self EXCEPT !.to_size = v, !.reader = Reader(left)]) = q
        BY <1>2 DEF AfterToSize, Appliers
      <4> QED BY <4>1, <4>2
    <3>2. v \in Nat /\ left \in Int
      <4> HIDE DEF size
      <4>1. v \in Nat
        BY <2>3 DEF Sizes
      <4>2. Len(bytes) \in Nat /\ chunk.offset \in Nat
        BY <1>2
      <4> QED BY <4>1, <4>2
    <3> HIDE DEF left, size
    <3>3. Reader(left) \in Readers
      BY <2>3, <3>2 DEF Readers, Reader
    <3>4. st \in {"dfpatch_size", "done"}
      OBVIOUS
    <3> HIDE DEF v, st
    <3>5. q \in Appliers
      BY <1>2, <3>2, <3>3, <3>4 DEF Appliers, States, SizeStates
    <3>6. /\ q.state = st /\ q.patch_offset = self.patch_offset
          /\ q.to_offset = self.to_offset /\ q.to_size = v
          /\ q.from_offset = self.from_offset /\ q.chunk_size = self.chunk_size
          /\ q.reader = Reader(left)
      BY <1>2 DEF Appliers
    <3>7. /\ q.reader.open /\ q.reader.patch_offset = 0 /\ q.reader.patch_size = left
          /\ q.reader.size = FirstSize
      BY <3>6 DEF Reader
    <3> HIDE DEF q
    <3>8. self.to_offset = 0 /\ self.chunk_size = 0 /\ self.from_offset = 0
          /\ self.patch_offset <= Len(bytes)
      BY <1>2 DEF Proper
    <3>9. Proper(bytes, q, Consumed + 1)
      <4>1. /\ q.to_offset = 0 /\ q.chunk_size = 0 /\ q.to_size \in Nat
            /\ q.patch_offset <= Len(bytes)
        BY <3>2, <3>6, <3>8
      <4>2. q.reader.patch_offset <= Consumed + 1
        BY <1>2, <3>7
      <4> QED BY <3>4, <3>5, <3>6, <3>7, <4>1, <4>2 DEF Proper
    <3>10. CompressionOf(bytes[1]) = 0
      BY <2>14 DEF Compression
    <3>11. g = AfterValue([d EXCEPT !.size = FirstSize], v)
      BY <2>1, <2>5, <2>14, <3>10 DEF AfterByte, SizeByte, ValueOf, v, size
    <3>12. g = [d EXCEPT !.size = FirstSize, !.to_size = v, !.state = st]
      BY <2>1, <2>5, <3>10, <3>11 DEF AfterValue, Decoders, st
    <3> HIDE DEF g
    <3>13. /\ g.state = st /\ g.size = FirstSize /\ g.to_size = v /\ Len(g.to) = 0
           /\ g.from = 0 /\ g.to = d.to
      BY <2>1, <2>5, <3>10, <3>12 DEF Decoders
    <3>14. Agrees(q, g)
      BY <3>4, <3>6, <3>7, <3>8, <3>13 DEF Agrees, Stage, DataStates
    <3>15. left - 0 >= Len(bytes) - (Consumed + 1)
      <4>1. chunk.size \in Nat /\ chunk.offset \in Nat /\ self.patch_offset \in Nat
        BY <1>2 DEF Appliers
      <4>2. Len(bytes) \in Nat
        BY <1>2
      <4>3. Consumed = self.patch_offset - (chunk.size - chunk.offset)
        BY DEF Consumed, ChunkLeft
      <4> DEFINE s == chunk.size
                 o == chunk.offset
                 p == self.patch_offset
                 l == Len(bytes)
      <4> HIDE DEF s, o, p, l
      <4>4. s \in Nat /\ o \in Nat /\ p \in Nat /\ l \in Nat /\ s <= p
        BY <1>2, <4>1, <4>2 DEF s, o, p, l
      <4>5. Consumed = p - (s - o) /\ left = l - o - 1
        BY <4>3 DEF s, o, p, l, left
      <4>6. left - 0 >= l - (Consumed + 1)
        BY <4>4, <4>5
      <4> QED BY <4>6 DEF l
    <3>16. Follows(bytes, q, Consumed + 1, Output, Consumed + 1)
      <4>1. FlushBeforeDump => Output = g.to
        BY <2>4, <3>10, <3>13
      <4>2. Consumed + 1 <= Consumed + 1 /\ 0 <= Consumed + 1
        BY <1>2
      <4> QED BY <3>7, <3>14, <3>15, <4>1, <4>2 DEF Follows, g, D
    <3>17. Fits(bytes, q, Consumed + 1, Output)
      BY <2>1, <3>4, <3>6, <3>9, <3>16 DEF Fits
    <3> QED BY <2>11, <3>1, <3>5, <3>6, <3>17
  <2> QED BY <2>10, <2>12, <2>13, <2>14
<1> QED BY <1>3, <1>4

-----------------------------------------------------------------------------
\* The output of a block may be taken with what is in the buffer.
LEMMA ConcatBytes ==
    ASSUME NEW s \in Seq(Byte), NEW t \in Seq(Byte), NEW u \in Seq(Byte)
    PROVE  s \o (t \o u) = (s \o t) \o u
  BY ConcatAssociative

\* The applier after n bytes of data, which move f bytes each on in the old image.
AfterData(r, f, n) ==
    [r EXCEPT !.reader.patch_offset = @ + n, !.from_offset = @ + f * n,
              !.to_offset = @ + n, !.chunk_size = @ - n]

DataFields(r, f, n, q) ==
    /\ q \in Appliers /\ q.reader.open
    /\ q.state = r.state /\ q.init_state = r.init_state /\ q.size = r.size
    /\ q.patch_offset = r.patch_offset /\ q.to_offset = r.to_offset + n
    /\ q.to_size = r.to_size /\ q.from_offset = r.from_offset + f * n
    /\ q.chunk_size = r.chunk_size - n
    /\ q.reader.patch_size = r.reader.patch_size
    /\ q.reader.patch_offset = r.reader.patch_offset + n
    /\ q.reader.size = r.reader.size

\* What a block changes of the applier.
LEMMA AfterDataFields ==
    ASSUME NEW r \in Appliers, r.reader.open, NEW f \in {0, 1}, NEW n \in Nat
    PROVE  DataFields(r, f, n, AfterData(r, f, n))
<1> DEFINE w == r.reader
           m == w.patch_offset + n
           v == [w EXCEPT !.patch_offset = m]
           o == r.from_offset + f * n
           t == r.to_offset + n
           l == r.chunk_size - n
           q == AfterData(r, f, n)
<1>1. w \in [open : {TRUE}, patch_size : Int, patch_offset : Nat, size : Sizes]
  BY OpenReader
<1>2. m \in Nat
  <2>1. w.patch_offset \in Nat
    BY <1>1
  <2> HIDE DEF w
  <2> QED BY <2>1
<1>3. q = [r EXCEPT !.reader = v, !.from_offset = o, !.to_offset = t, !.chunk_size = l]
  BY DEF AfterData, Appliers
<1>4. o \in Nat /\ t \in Nat /\ l \in Int
  <2>1. r.from_offset \in Nat /\ r.to_offset \in Nat /\ r.chunk_size \in Int
    BY DEF Appliers
  <2>2. f * n \in Nat
    OBVIOUS
  <2> QED BY <2>1, <2>2
<1> HIDE DEF m
<1>5. v \in [open : {TRUE}, patch_size : Int, patch_offset : Nat, size : Sizes]
  BY <1>1, <1>2
<1>6. /\ v.open /\ v.patch_size = w.patch_size /\ v.patch_offset = m /\ v.size = w.size
  BY <1>1
<1>7. v \in Readers
  BY <1>5 DEF Readers
<1> HIDE DEF v, o, t, l, q
<1>8. q \in Appliers
  BY <1>3, <1>4, <1>7 DEF Appliers
<1>9. /\ q.state = r.state /\ q.init_state = r.init_state /\ q.size = r.size
      /\ q.patch_offset = r.patch_offset /\ q.to_offset = t
      /\ q.to_size = r.to_size /\ q.from_offset = o
      /\ q.chunk_size = l /\ q.reader = v
  BY <1>3 DEF Appliers
<1> QED BY <1>6, <1>8, <1>9 DEF DataFields, q, t, o, l, w, m

\* How much a turn for data takes.
LEMMA DeliveredSize ==
    ASSUME Complies, Inductive, NEW st \in DataStates, Readable(st)
    PROVE  /\ Delivered \in 1 .. ChunkLeft /\ self.chunk_size # 0
           /\ self.chunk_size < 0 \/ Delivered <= self.chunk_size
<1>1. Turn(st) /\ Wanted > 0 /\ ChunkAvailable
  BY DEF Readable
<1>2. self \in Appliers /\ ChunkLeft \in Nat
  BY <1>1, InTurn
<1> DEFINE c == self.chunk_size
           k == ChunkLeft
<1>3. c \in Int /\ BufferSize \in Nat \ {0} /\ k \in Nat
  BY <1>2, ApplyPatchAssumption DEF Appliers
<1>4. k > 0 /\ Wanted = (IF c < 0 THEN BufferSize ELSE MinOf(BufferSize, c))
      /\ Delivered = MinOf(Wanted, k)
  BY <1>1 DEF ChunkAvailable, Wanted, Delivered
<1> HIDE DEF c, k
<1>5. Wanted \in Nat \ {0} /\ c # 0 /\ (c < 0 \/ Wanted <= c)
  BY <1>1, <1>3, <1>4 DEF MinOf
<1>6. Delivered \in 1 .. k /\ (c < 0 \/ Delivered <= c)
  BY <1>3, <1>4, <1>5 DEF MinOf
<1> QED BY <1>5, <1>6 DEF c, k

\* The bytes of the chunk.
LEMMA NextBytes ==
    ASSUME Complies, Inductive, NEW st, Turn(st), NEW n \in 0 .. ChunkLeft,
           NEW k \in 1 .. n
    PROVE  ChunkByte(k) \in Byte /\ ChunkByte(k) = patch.bytes[Consumed + k]
<1>1. /\ patch.bytes \in Seq(Byte) /\ Consumed \in Nat /\ ChunkLeft \in Nat
      /\ Consumed + ChunkLeft <= Len(patch.bytes)
  BY InTurn
<1>2. ChunkByte(k) = patch.bytes[Consumed + k]
  BY DEF ChunkByte, Consumed
<1>3. Consumed + k \in 1 .. Len(patch.bytes)
  BY <1>1
<1> QED BY <1>1, <1>2, <1>3

\* A turn that takes data and writes a byte of the new image for each.
LEMMA DataFits ==
    ASSUME Complies, Inductive, NEW st \in DataStates, Readable(st),
           NEW after, st = "diff_data" => after = "extra_size",
           st = "extra_data" => after = "adjustment",
           NEW f \in {0, 1}, NEW b \in Seq(Byte), Len(b) = Delivered,
           \A j \in 0 .. Len(b) - 1, g \in Decoders :
              g.state = st /\ g.from = from_pos + f * j =>
                 AfterByte(From, g, patch.bytes[Consumed + j + 1])
                    = BlockByte(g, b[j + 1], after, f),
           Consume(Delivered), Write(AfterData(self, f, Delivered), b),
           UNCHANGED <<patch, to_file, dumped, host>>, from_pos' \in Nat
    PROVE  TurnFits
<1> DEFINE bytes == patch.bytes
           D == Decoding(From, bytes)
           c == Consumed
           d == D[c]
           n == Delivered
           q == AfterData(self, f, n)
           g == D[c + n]
<1>1. Turn(st) /\ st \notin {"init", "done", "failed"}
  BY DEF Readable, DataStates
<1>2. /\ bytes \in Seq(Byte) /\ Fits(bytes, self, c, Output)
      /\ Proper(bytes, self, c) /\ c \in Nat /\ ChunkLeft \in Nat
      /\ self.state = st /\ self \in Appliers
      /\ chunk \in [size : Nat, offset : Nat] /\ chunk.offset <= chunk.size
      /\ chunk.size <= self.patch_offset /\ c + ChunkLeft <= Len(bytes)
      /\ to_buffer \in Seq(Byte) /\ to_file \in Seq(Byte) /\ Output \in Seq(Byte)
      /\ from_pos \in Nat /\ from_pos = self.from_offset
  BY <1>1, InTurn
<1>3. /\ n \in 1 .. ChunkLeft /\ self.chunk_size # 0
      /\ self.chunk_size < 0 \/ n <= self.chunk_size
  BY DeliveredSize
<1>4. self.reader.open
  BY <1>1, <1>2 DEF Proper
<1>5. /\ q \in Appliers /\ q.reader.open
      /\ q.state = st /\ q.patch_offset = self.patch_offset
      /\ q.to_offset = self.to_offset + n
      /\ q.to_size = self.to_size /\ q.from_offset = self.from_offset + f * n
      /\ q.chunk_size = self.chunk_size - n
      /\ q.reader.patch_size = self.reader.patch_size
      /\ q.reader.patch_offset = self.reader.patch_offset + n
      /\ q.reader.size = self.reader.size
  <2>1. n \in Nat
    BY <1>2, <1>3
  <2>2. DataFields(self, f, n, q)
    <3> HIDE DEF n
    <3> QED BY <1>2, <1>4, <2>1, AfterDataFields
  <2> HIDE DEF n, q
  <2> QED BY <1>2, <2>2 DEF DataFields
<1>6. q.chunk_size >= 0 => q.to_offset + q.chunk_size <= q.to_size
  <2>1. /\ self.chunk_size \in Int /\ self.to_offset \in Nat /\ self.to_size \in Nat
    BY <1>2 DEF Appliers
  <2>2. self.chunk_size >= 0 => self.to_offset + self.chunk_size <= self.to_size
    BY <1>2 DEF Proper
  <2>3. n \in Nat
    BY <1>2, <1>3
  <2> HIDE DEF n, q
  <2> QED BY <1>5, <2>1, <2>2, <2>3
<1>7. /\ c \in 0 .. Len(bytes) /\ c + n \in 0 .. Len(bytes) /\ n \in 0 .. ChunkLeft
      /\ c + n <= Len(bytes) /\ n \in Nat
  <2>1. Len(bytes) \in Nat
    BY <1>2
  <2> HIDE DEF n, c
  <2> QED BY <1>2, <1>3, <2>1
<1>8. Follows(bytes, self, c, Output, c)
  BY <1>1, <1>2 DEF Fits, Undecided, Follows
<1>9. /\ Agrees(self, d) /\ (FlushBeforeDump => Output = d.to)
  BY <1>8 DEF Follows
<1>10. /\ d.state = st /\ d.left = self.chunk_size /\ d.from = from_pos
       /\ d.size = self.reader.size /\ d.to_size = self.to_size
       /\ Len(d.to) = self.to_offset
  BY <1>1, <1>2, <1>3, <1>9 DEF Agrees, Stage, DataStates
<1>11. d \in Decoders
  BY <1>2, <1>7, DecodingSteps, ApplyPatchAssumption
<1>12. AfterBlock(d, b, n, f, after, g)
  <2>1. From \in Seq(Byte) /\ bytes \in Seq(Byte)
    BY <1>2, ApplyPatchAssumption
  <2>2. d.left # 0 /\ (d.left < 0 \/ Len(b) <= d.left) /\ c + Len(b) <= Len(bytes)
    BY <1>3, <1>7, <1>10
  <2>3. \A j \in 0 .. Len(b) - 1, h \in Decoders :
           h.state = d.state /\ h.from = d.from + f * j =>
              AfterByte(From, h, bytes[c + j + 1]) = BlockByte(h, b[j + 1], after, f)
    BY <1>10
  <2>4. d = Decoding(From, bytes)[c]
    OBVIOUS
  <2> HIDE DEF d, D, c, bytes
  <2>5. AfterBlock(d, b, Len(b), f, after, Decoding(From, bytes)[c + Len(b)])
    BY <1>7, <2>1, <2>2, <2>3, <2>4, DataBlock
  <2> QED BY <2>5 DEF D
<1>13. /\ g.to = d.to \o b /\ Len(g.to) = q.to_offset /\ d.to \in Seq(Byte)
  <2>1. SubSeq(b, 1, n) = b /\ Len(b) = n
    BY SubSeqFull
  <2>2. d.to \in Seq(Byte)
    BY <1>11 DEF Decoders
  <2>3. g.to = d.to \o b
    BY <1>12, <2>1 DEF AfterBlock
  <2> HIDE DEF d, g, q
  <2>4. Len(d.to \o b) = Len(d.to) + Len(b)
    BY <2>2, ConcatProperties
  <2> QED BY <1>5, <1>10, <2>1, <2>2, <2>3, <2>4
<1> HIDE DEF g, q, d, n, D, c
<1>14. Agrees(q, g)
  <2>1. g.state = (IF q.chunk_size = 0 THEN after ELSE st)
    <3>1. q.chunk_size = 0 <=> d.left = n
      <4>1. self.chunk_size \in Int
        BY <1>2 DEF Appliers
      <4> QED BY <1>5, <1>7, <1>10, <4>1
    <3> QED BY <1>10, <1>12, <3>1 DEF AfterBlock
  <2>2. Stage(q) = (IF q.chunk_size = 0 THEN after ELSE st)
    BY <1>1, <1>5 DEF Stage, DataStates
  <2>3. /\ g.size = q.reader.size /\ g.to_size = q.to_size /\ g.from = q.from_offset
        /\ g.left = q.chunk_size
    BY <1>2, <1>5, <1>10, <1>12 DEF AfterBlock
  <2> QED BY <1>1, <1>5, <1>13, <2>1, <2>2, <2>3 DEF Agrees
<1>15. Consume(n)
  BY DEF n
<1>16. CASE /\ to_buffer' = to_buffer \o b /\ self' = q /\ res' = "ok"
  <2>1. to_buffer' \in Seq(Byte)
    BY <1>2, <1>16, ConcatProperties
  <2>2. Output' = Output \o b
    <3>1. Output' = to_file \o (to_buffer \o b) /\ Output = to_file \o to_buffer
      BY <1>16 DEF Output
    <3>2. to_file \o (to_buffer \o b) = (to_file \o to_buffer) \o b
      BY <1>2, ConcatBytes
    <3> QED BY <3>1, <3>2
  <2>3. FlushBeforeDump => Output' = g.to
    BY <1>9, <1>13, <2>2
  <2>4. Fits(bytes, q, c + n, Output')
    BY <1>1, <1>2, <1>4, <1>5, <1>6, <1>7, <1>8, <1>14, <2>3, FollowsOn DEF g, D
  <2>5. self'.patch_offset = self.patch_offset /\ self.patch_offset \in Nat
    BY <1>2, <1>5, <1>16 DEF Appliers
  <2>6. /\ chunk' \in [size : Nat, offset : Nat] /\ chunk'.offset <= chunk'.size
        /\ chunk'.size <= self'.patch_offset /\ Consumed' = c + n
    BY <1>2, <1>7, <1>15, <2>5, Consuming DEF c
  <2>7. Fits(bytes, self', Consumed', Output')
    BY <1>16, <2>4, <2>6
  <2> QED BY <1>2, <1>16, <2>1, <2>6, <2>7 DEF TurnFits, IsError
<1>17. CASE \E k \in 0 .. Len(b) : to_buffer' = to_buffer \o SubSeq(b, 1, k)
                                   /\ self' = Failed(q) /\ res' = "IO_FAILED"
  <2>1. PICK k \in 0 .. Len(b) : to_buffer' = to_buffer \o SubSeq(b, 1, k)
    BY <1>17
  <2>2. SubSeq(b, 1, k) \in Seq(Byte)
    OBVIOUS
  <2>3. to_buffer' \in Seq(Byte)
    BY <1>2, <2>1, <2>2, ConcatProperties
  <2>4. self.reader.patch_offset \in Nat /\ self.reader.patch_offset <= c
    BY <1>2, <1>4, OpenReader DEF Proper
  <2>5. q.reader.patch_offset <= c + n
    <3>1. q.reader.patch_offset = self.reader.patch_offset + n
      BY <1>5, Zenon
    <3>2. c \in Nat /\ n \in Nat
      BY <1>2, <1>7
    <3> QED BY ONLY <2>4, <3>1, <3>2
  <2>6. Proper(bytes, q, c + n)
    BY <1>1, <1>2, <1>5, <1>6, <2>5 DEF Proper
  <2>7. IsError(res') /\ res' \notin {"ALREADY_DONE", "success"}
    BY <1>17 DEF IsError
  <2> QED BY <1>1, <1>5, <1>7, <1>15, <1>17, <2>3, <2>6, <2>7, FailedTurnFits DEF c, q
<1> QED BY <1>16, <1>17 DEF Write, Return, q, n

-----------------------------------------------------------------------------
\* A block of extra data keeps the applier with the decoder.
LEMMA ExtraDataFits ==
    ASSUME Complies, Inductive, ExtraData
    PROVE  TurnFits
<1> DEFINE n == Delivered
           b == [k \in 1 .. n |-> ChunkByte(k)]
<1>1. Readable("extra_data") /\ Turn("extra_data") /\ "extra_data" \in DataStates
  BY DEF ExtraData, Readable, DataStates
<1>2. /\ self \in Appliers /\ self.state = "extra_data" /\ Consumed \in Nat
      /\ Proper(patch.bytes, self, Consumed) /\ from_pos \in Nat /\ ChunkLeft \in Nat
  BY <1>1, InTurn
<1>3. n \in 1 .. ChunkLeft
  BY <1>1, DeliveredSize
<1>4. n \in Nat /\ n \in 0 .. ChunkLeft
  BY <1>2, <1>3
<1> HIDE DEF n
<1>5. \A k \in 1 .. n : ChunkByte(k) \in Byte /\ ChunkByte(k) = patch.bytes[Consumed + k]
  BY <1>1, <1>4, NextBytes
<1>6. b \in Seq(Byte) /\ Len(b) = n
  BY <1>4, <1>5
<1>7. \A j \in 0 .. Len(b) - 1 : b[j + 1] = patch.bytes[Consumed + j + 1]
  <2> TAKE j \in 0 .. Len(b) - 1
  <2>1. j + 1 \in 1 .. n /\ Consumed + (j + 1) = Consumed + j + 1
    BY <1>2, <1>4, <1>6
  <2> QED BY <1>5, <2>1
<1>8. ASSUME NEW g \in Decoders, NEW byte, g.state = "extra_data"
      PROVE  AfterByte(From, g, byte) = BlockByte(g, byte, "adjustment", 0)
  <2> DEFINE h == DataByte(g, byte, "adjustment")
  <2>1. AfterByte(From, g, byte) = h
    BY <1>8 DEF AfterByte
  <2>2. h = [h EXCEPT !.from = h.from] /\ h.from = g.from /\ g.from \in Nat
    BY DEF DataByte, Decoders
  <2> HIDE DEF h
  <2>3. h.from + 0 = h.from
    BY <2>2
  <2> QED BY <2>1, <2>2, <2>3 DEF BlockByte, h
<1> HIDE DEF b
<1>9. \A j \in 0 .. Len(b) - 1, g \in Decoders :
         g.state = "extra_data" /\ g.from = from_pos + 0 * j =>
            AfterByte(From, g, patch.bytes[Consumed + j + 1])
               = BlockByte(g, b[j + 1], "adjustment", 0)
  BY <1>7, <1>8
<1>10. /\ Consume(n) /\ Write(Written(Taken(n), n), b)
       /\ UNCHANGED <<patch, to_file, dumped, host, from_pos>>
  BY DEF ExtraData, n, b
<1>11. self.reader.open
  BY <1>2 DEF Proper
<1>12. Written(Taken(n), n) = AfterData(self, 0, n)
  <2>1. self.from_offset \in Nat
    BY <1>2 DEF Appliers
  <2>2. self.from_offset + 0 * n = self.from_offset
    BY <1>4, <2>1
  <2> DEFINE o == self.from_offset + 0 * n
  <2> HIDE DEF o
  <2>3. AfterData(self, 0, n) = [self EXCEPT !.reader.patch_offset = @ + n, !.from_offset = o,
                                   !.to_offset = @ + n, !.chunk_size = @ - n]
    BY DEF AfterData, o
  <2>4. o = self.from_offset
    BY <2>2 DEF o
  <2> QED BY <1>2, <2>3, <2>4 DEF Written, Taken, Appliers
<1>13. from_pos' \in Nat
  BY <1>2, <1>10
<1> QED BY <1>1, <1>6, <1>9, <1>10, <1>12, <1>13, DataFits DEF n

\* So does a block of diff data, if the old image reaches as far.
LEMMA DiffDataFits ==
    ASSUME Complies, Inductive, DiffData
    PROVE  TurnFits
<1> DEFINE n == Delivered
           b == [k \in 1 .. n |-> (ChunkByte(k) + From[from_pos + k]) % 256]
           read == [Taken(n) EXCEPT !.from_offset = @ + n]
<1>1. Readable("diff_data") /\ Turn("diff_data") /\ "diff_data" \in DataStates
  BY DEF DiffData, Readable, DataStates
<1>2. /\ self \in Appliers /\ self.state = "diff_data" /\ Consumed \in Nat
      /\ Proper(patch.bytes, self, Consumed) /\ from_pos \in Nat /\ ChunkLeft \in Nat
      /\ to_buffer \in Seq(Byte)
  BY <1>1, InTurn
<1>3. n \in 1 .. ChunkLeft
  BY <1>1, DeliveredSize
<1>4. n \in Nat /\ n \in 0 .. ChunkLeft
  BY <1>2, <1>3
<1>5. self.reader.open
  BY <1>2 DEF Proper
<1>6. Consume(n) /\ UNCHANGED <<patch, to_file, dumped, host>>
  BY DEF DiffData
<1>7. From \in Seq(Byte) /\ Len(From) \in Nat
  BY ApplyPatchAssumption
<1>8. CASE /\ from_pos + n <= Len(From) /\ from_pos' = from_pos + n
           /\ Write(Written(read, n), b)
  <2> HIDE DEF n
  <2>1. \A k \in 1 .. n : ChunkByte(k) \in Byte /\ ChunkByte(k) = patch.bytes[Consumed + k]
    BY <1>1, <1>4, NextBytes
  <2>2. \A k \in 1 .. n : from_pos + k \in 1 .. Len(From)
    BY <1>2, <1>4, <1>7, <1>8
  <2>3. \A k \in 1 .. n : From[from_pos + k] \in Byte
    BY <1>7, <2>2
  <2>4. \A k \in 1 .. n : (ChunkByte(k) + From[from_pos + k]) % 256 \in Byte
    <3> TAKE k \in 1 .. n
    <3> DEFINE x == ChunkByte(k)
               y == From[from_pos + k]
    <3>1. x \in Byte /\ y \in Byte
      BY <2>1, <2>3
    <3> HIDE DEF x, y
    <3>2. x + y \in Int
      BY <3>1 DEF Byte
    <3>3. (x + y) % 256 \in Byte
      BY <3>2 DEF Byte
    <3> QED BY <3>3 DEF x, y
  <2>5. b \in Seq(Byte) /\ Len(b) = n
    BY <1>4, <2>4
  <2>6. ASSUME NEW j \in 0 .. Len(b) - 1, NEW g \in Decoders,
               g.state = "diff_data", g.from = from_pos + 1 * j
        PROVE  AfterByte(From, g, patch.bytes[Consumed + j + 1])
                  = BlockByte(g, b[j + 1], "extra_size", 1)
    <3>1. /\ j + 1 \in 1 .. n /\ Consumed + (j + 1) = Consumed + j + 1
          /\ g.from + 1 = from_pos + (j + 1)
      BY <1>2, <1>4, <2>5, <2>6
    <3> DEFINE byte == patch.bytes[Consumed + j + 1]
               x == (byte + From[g.from + 1]) % 256
               h == DataByte(g, x, "extra_size")
    <3>2. b[j + 1] = x
      BY <2>1, <3>1
    <3>3. g.from < Len(From)
      <4>1. g.from \in Nat
        BY DEF Decoders
      <4> QED BY <1>7, <2>2, <3>1, <4>1
    <3>4. AfterByte(From, g, byte) = [h EXCEPT !.from = @ + 1]
      BY <2>6, <3>3 DEF AfterByte
    <3> QED BY <3>2, <3>4 DEF BlockByte
  <2>7. Written(read, n) = AfterData(self, 1, n)
    <3>1. 1 * n = n
      BY <1>4
    <3>2. AfterData(self, 1, n) = [self EXCEPT !.reader.patch_offset = @ + n,
                                     !.from_offset = @ + n, !.to_offset = @ + n,
                                     !.chunk_size = @ - n]
      BY <3>1 DEF AfterData
    <3> QED BY <1>2, <3>2 DEF Written, Taken, Appliers
  <2>8. from_pos' \in Nat
    BY <1>2, <1>4, <1>8
  <2> HIDE DEF b, read
  <2>9. Write(AfterData(self, 1, n), b)
    BY <1>8, <2>7
  <2>10. \A j \in 0 .. Len(b) - 1, g \in Decoders :
            g.state = "diff_data" /\ g.from = from_pos + 1 * j =>
               AfterByte(From, g, patch.bytes[Consumed + j + 1])
                  = BlockByte(g, b[j + 1], "extra_size", 1)
    BY <2>6
  <2> QED BY <1>1, <1>6, <2>5, <2>8, <2>9, <2>10, DataFits DEF n
<1>9. CASE self' = Failed(Taken(n)) /\ res' = "IO_FAILED" /\ UNCHANGED <<from_pos, to_buffer>>
  <2> HIDE DEF n
  <2> DEFINE q == Taken(n)
             w == self.reader
             m == w.patch_offset + n
             v == [w EXCEPT !.patch_offset = m]
  <2>1. w \in [open : {TRUE}, patch_size : Int, patch_offset : Nat, size : Sizes]
    BY <1>2, <1>5, OpenReader
  <2>2. w.patch_offset \in Nat
    BY <2>1
  <2>3. m \in Nat /\ m <= Consumed + n
    <3>1. w.patch_offset <= Consumed
      BY <1>2, <1>5 DEF Proper
    <3> HIDE DEF w
    <3> QED BY <1>2, <1>4, <2>2, <3>1
  <2>4. q = [self EXCEPT !.reader = v]
    BY <1>2 DEF Taken, Appliers
  <2> HIDE DEF m
  <2>5. v \in [open : {TRUE}, patch_size : Int, patch_offset : Nat, size : Sizes]
        /\ v.open /\ v.patch_offset = m
    BY <2>1, <2>3
  <2> HIDE DEF v, q
  <2>6. q \in Appliers
    BY <1>2, <2>4, <2>5 DEF Appliers, Readers
  <2>7. /\ q.state = self.state /\ q.patch_offset = self.patch_offset
        /\ q.chunk_size = self.chunk_size /\ q.to_offset = self.to_offset
        /\ q.to_size = self.to_size /\ q.reader = v
    BY <1>2, <2>4 DEF Appliers
  <2>8. Proper(patch.bytes, q, Consumed + n)
    BY <1>2, <2>3, <2>5, <2>6, <2>7 DEF Proper
  <2>9. IsError(res') /\ res' \notin {"ALREADY_DONE", "success"}
    BY <1>9 DEF IsError
  <2> QED BY <1>1, <1>2, <1>4, <1>6, <1>9, <2>7, <2>8, <2>9, FailedTurnFits DEF q
<1> QED BY <1>8, <1>9 DEF DiffData, Return

\* So does a turn of an applier that is done or failed.
LEMMA EndedFits ==
    ASSUME Complies, Inductive, AlreadyDone \/ AlreadyFailed
    PROVE  TurnFits
<1>1. /\ self' = self /\ UNCHANGED <<storage, host, chunk, from_pos>>
      /\ \/ Turn("done") /\ res' = "ALREADY_DONE"
         \/ Turn("failed") /\ res' = "ALREADY_FAILED"
  BY DEF AlreadyDone, AlreadyFailed, Return
<1>2. PICK st \in {"done", "failed"} : Turn(st)
  BY <1>1
<1>3. /\ Fits(patch.bytes, self, Consumed, Output) /\ self.state = st
      /\ chunk \in [size : Nat, offset : Nat] /\ chunk.offset <= chunk.size
      /\ chunk.size <= self.patch_offset /\ to_buffer \in Seq(Byte) /\ from_pos \in Nat
  BY <1>2, InTurn
<1>4. Output' = Output /\ Consumed' = Consumed
  BY <1>1 DEF Output, Consumed, ChunkLeft, storage
<1>5. self.state = "done" <=> res' = "ALREADY_DONE"
  BY <1>1, <1>2, <1>3 DEF Turn
<1>6. res' # "success" /\ (res' # "ALREADY_DONE" => self.state = "failed")
  BY <1>1 DEF Turn
<1> QED BY <1>1, <1>3, <1>4, <1>5, <1>6 DEF TurnFits, storage

\* Every turn does.
LEMMA ProcessOnceFits ==
    ASSUME Complies, Inductive, ProcessOnce
    PROVE  TurnFits
<1>1. CASE DfpatchSize \/ DiffSize \/ ExtraSize \/ Adjustment
  BY <1>1, UnpackSizeFits DEF DfpatchSize, DiffSize, ExtraSize, Adjustment, UnpackStates
<1>2. CASE DiffEnd
  BY <1>2, DataEndFits DEF DiffEnd, DataStates
<1>3. CASE ExtraEnd
  BY <1>3, DataEndFits DEF ExtraEnd, DataStates
<1> QED BY <1>1, <1>2, <1>3, FixedHeaderFits, ToSizeFits, DiffDataFits, ExtraDataFits,
           EndedFits DEF ProcessOnce

\* Nothing is taken from a chunk that is empty.
LEMMA ChunkStays ==
    ASSUME ProcessOnce, ~ChunkAvailable
    PROVE  chunk' = chunk
<1>1. CASE FixedHeader \/ ToSize
  BY <1>1 DEF FixedHeader, ToSize
<1>2. CASE DfpatchSize \/ DiffSize \/ ExtraSize \/ Adjustment
  BY <1>2 DEF DfpatchSize, DiffSize, ExtraSize, Adjustment, UnpackSize
<1>3. CASE DiffData \/ ExtraData
  BY <1>3 DEF DiffData, ExtraData, Readable
<1>4. CASE DiffEnd \/ ExtraEnd \/ AlreadyDone \/ AlreadyFailed
  BY <1>4 DEF DiffEnd, ExtraEnd, DataEnd, AlreadyDone, AlreadyFailed
<1> QED BY <1>1, <1>2, <1>3, <1>4 DEF ProcessOnce

\* A turn keeps the dumped applier and what it needs of the file.
LEMMA ProcessOnceComplies ==
    ASSUME Complies, Inductive, ProcessOnce
    PROVE  Complies'
<1>1. TurnFits
  BY ProcessOnceFits
<1>2. host \in {"process", "finalize"}
  BY TurnInCall DEF ProcessOnce, FixedHeader, ToSize, DfpatchSize, DiffSize, ExtraSize,
     Adjustment, UnpackSize, DiffData, ExtraData, Readable, DiffEnd, ExtraEnd, DataEnd,
     AlreadyDone, AlreadyFailed
<1>3. Typed'
  BY <1>1 DEF Complies, Typed, TurnFits
<1>4. host = "finalize" => chunk' = NoChunk
  <2>1. host = "finalize" => chunk = NoChunk
    BY DEF Complies, Calls
  <2>2. NoChunk.size - NoChunk.offset = 0
    BY DEF NoChunk
  <2>3. host = "finalize" => ~ChunkAvailable
    BY <2>1, <2>2 DEF ChunkAvailable, ChunkLeft
  <2> QED BY <2>1, <2>3, ChunkStays
<1>5. Calls'
  BY <1>1, <1>2, <1>4 DEF TurnFits, Calls, IsError, Attached
<1>6. Working'
  BY <1>1 DEF TurnFits, Working, Consumed
<1>7. DumpFits'
  BY <1>1 DEF TurnFits, Complies, DumpFits
<1>8. Complete'
  BY <1>1, <1>2 DEF TurnFits, Complete, Succeeded
<1> QED BY <1>3, <1>5, <1>6, <1>7, <1>8 DEF Complies

-----------------------------------------------------------------------------
\* An applier that is done or failed leaves what is left of a chunk.
LEMMA FitsLater ==
    ASSUME NEW bytes, NEW r, NEW c \in Nat, NEW k \in Nat, c <= k, NEW x,
           r.state \notin {"done", "failed"} => c = k, Fits(bytes, r, c, x)
    PROVE  Fits(bytes, r, k, x)
<1>1. Proper(bytes, r, k)
  BY ProperLater DEF Fits
<1>2. CASE r.state \notin {"done", "failed"}
  BY <1>2
<1>3. CASE r.state = "failed"
  BY <1>1, <1>3 DEF Fits
<1>4. CASE r.state = "done"
  <2>1. PICK e \in 0 .. Len(bytes) : Follows(bytes, r, c, x, e)
    BY <1>4 DEF Fits, Undecided
  <2>2. e \in Int /\ e <= c
    BY <2>1 DEF Follows
  <2>3. e <= k
    BY <2>2
  <2>4. Follows(bytes, r, k, x, e)
    BY <1>4, <2>1, <2>3 DEF Follows
  <2> QED BY <1>1, <1>4, <2>4 DEF Fits
<1> QED BY <1>2, <1>3, <1>4

\* An applier fits whatever chunk it is in.
LEMMA FitsOffset ==
    ASSUME NEW bytes, NEW r, NEW c, NEW x, Fits(bytes, r, c, x),
           NEW p \in Nat, p <= Len(bytes)
    PROVE  Fits(bytes, [r EXCEPT !.patch_offset = p], c, x)
<1> DEFINE q == [r EXCEPT !.patch_offset = p]
<1>1. r \in Appliers
  BY DEF Fits, Proper
<1>2. q \in Appliers
  BY <1>1 DEF Appliers
<1>3. /\ q.state = r.state /\ q.init_state = r.init_state /\ q.size = r.size
      /\ q.to_offset = r.to_offset /\ q.patch_offset = p
      /\ q.to_size = r.to_size /\ q.from_offset = r.from_offset
      /\ q.chunk_size = r.chunk_size /\ q.reader = r.reader
  BY <1>1 DEF Appliers
<1> HIDE DEF q
<1>4. Proper(bytes, q, c)
  BY <1>2, <1>3 DEF Fits, Proper
<1>5. Undecided(bytes, q) <=> Undecided(bytes, r)
  BY <1>3 DEF Undecided
<1>6. Stage(q) = Stage(r)
  BY <1>3 DEF Stage
<1>7. \A d : Agrees(r, d) => Agrees(q, d)
  BY <1>3, <1>6 DEF Agrees
<1>8. \A e : Follows(bytes, r, c, x, e) => Follows(bytes, q, c, x, e)
  BY <1>3, <1>7 DEF Follows
<1>9. Fits(bytes, q, c, x)
  BY <1>3, <1>4, <1>5, <1>8 DEF Fits
<1> QED BY <1>9 DEF q

\* The output matters only with a host that flushes it before it dumps.
LEMMA FitsOutput ==
    ASSUME NEW bytes, NEW r, NEW c, NEW x, NEW y, Fits(bytes, r, c, x),
           FlushBeforeDump => x = y
    PROVE  Fits(bytes, r, c, y)
<1>1. \A e : Follows(bytes, r, c, x, e) => Follows(bytes, r, c, y, e)
  BY DEF Follows
<1> QED BY <1>1 DEF Fits

\* An applier that is restored, later than in its first state.
LEMMA FitsRestored ==
    ASSUME NEW bytes, NEW r, NEW c, NEW x, Fits(bytes, r, c, x), r.state # "init"
    PROVE  LET q == [r EXCEPT !.init_state = "fixed_header", !.size = FirstSize]
           IN  Fits(bytes, q, c, x) /\ q.patch_offset = r.patch_offset
               /\ q.to_offset = r.to_offset /\ q.from_offset = r.from_offset
<1> DEFINE q == [r EXCEPT !.init_state = "fixed_header", !.size = FirstSize]
<1>1. r \in Appliers
  BY DEF Fits, Proper
<1>2. FirstSize \in Sizes
  BY DEF FirstSize, Sizes
<1>3. q \in Appliers
  BY <1>1, <1>2 DEF Appliers
<1>4. /\ q.state = r.state /\ q.to_offset = r.to_offset /\ q.patch_offset = r.patch_offset
      /\ q.to_size = r.to_size /\ q.from_offset = r.from_offset
      /\ q.chunk_size = r.chunk_size /\ q.reader = r.reader
  BY <1>1 DEF Appliers
<1> HIDE DEF q
<1>5. Proper(bytes, q, c)
  BY <1>3, <1>4 DEF Fits, Proper
<1>6. ~Undecided(bytes, q) /\ ~Undecided(bytes, r)
  BY <1>4 DEF Undecided
<1>7. Stage(q) = Stage(r)
  BY <1>4 DEF Stage
<1>8. \A d : Agrees(r, d) => Agrees(q, d)
  BY <1>4, <1>7 DEF Agrees
<1>9. \A e : Follows(bytes, r, c, x, e) => Follows(bytes, q, c, x, e)
  BY <1>4, <1>8 DEF Follows
<1>10. Fits(bytes, q, c, x)
  BY <1>4, <1>5, <1>6, <1>9 DEF Fits
<1> QED BY <1>4, <1>10 DEF q

\* What was written is as long as the applier says.
LEMMA FitsLength ==
    ASSUME NEW bytes, NEW r, NEW c, NEW x, Fits(bytes, r, c, x), r.state # "failed",
           FlushBeforeDump
    PROVE  Len(x) = r.to_offset
<1>1. CASE Undecided(bytes, r)
  <2>1. x = <<>> /\ r.to_offset = 0
    BY <1>1 DEF Undecided, Fits, Proper
  <2> QED BY <2>1
<1>2. CASE ~Undecided(bytes, r)
  <2>1. PICK e \in 0 .. Len(bytes) : Follows(bytes, r, c, x, e)
    BY <1>2 DEF Fits
  <2> QED BY <2>1 DEF Follows, Agrees
<1> QED BY <1>1, <1>2

\* The dump survives what keeps the beginning of the file.
LEMMA DumpSurvives ==
    ASSUME DumpFits, UNCHANGED <<patch, dumped>>,
           dumped \notin NoDumps /\ FlushBeforeDump =>
              /\ dumped.to_offset <= Len(to_file')
              /\ SubSeq(to_file', 1, dumped.to_offset) = SubSeq(to_file, 1, dumped.to_offset)
    PROVE  DumpFits'
<1>1. CASE dumped \in NoDumps
  BY <1>1 DEF DumpFits
<1>2. CASE dumped \notin NoDumps
  <2>1. Fits(patch.bytes, dumped, dumped.patch_offset, SubSeq(to_file, 1, dumped.to_offset))
    BY <1>2 DEF DumpFits
  <2>2. FlushBeforeDump =>
           SubSeq(to_file, 1, dumped.to_offset) = SubSeq(to_file', 1, dumped.to_offset)
    BY <1>2
  <2>3. Fits(patch.bytes, dumped, dumped.patch_offset, SubSeq(to_file', 1, dumped.to_offset))
    BY <2>1, <2>2, FitsOutput
  <2> QED BY <1>2, <2>3 DEF DumpFits
<1> QED BY <1>1, <1>2

\* The position of a dump is a number.
LEMMA DumpOffset ==
    ASSUME DumpFits, dumped \notin NoDumps
    PROVE  dumped \in Appliers /\ dumped.to_offset \in Nat
<1>1. dumped \in Appliers
  BY DEF DumpFits, Fits, Proper
<1> QED BY <1>1 DEF Appliers

\* A file that grows keeps its beginning.
LEMMA GrowingFile ==
    ASSUME NEW s \in Seq(Byte), NEW t \in Seq(Byte), NEW n \in Nat, n <= Len(s)
    PROVE  n <= Len(s \o t) /\ SubSeq(s \o t, 1, n) = SubSeq(s, 1, n)
<1>1. /\ Len(s \o t) = Len(s) + Len(t) /\ s \o t \in Seq(Byte)
      /\ \A i \in 1 .. Len(s) : (s \o t)[i] = s[i]
  BY ConcatProperties
<1>2. Len(s) \in Nat /\ Len(t) \in Nat
  OBVIOUS
<1>3. n <= Len(s \o t)
  BY <1>1, <1>2
<1>4. SubSeq(s \o t, 1, n) = [i \in 1 .. n |-> (s \o t)[i]]
      /\ SubSeq(s, 1, n) = [i \in 1 .. n |-> s[i]]
  BY <1>1, <1>3
<1>5. \A i \in 1 .. n : (s \o t)[i] = s[i]
  BY <1>1, <1>2
<1> QED BY <1>3, <1>4, <1>5

\* The last dump fits a file that grows.
LEMMA DumpSurvivesGrowth ==
    ASSUME DumpFits, UNCHANGED <<patch, dumped>>, to_file \in Seq(Byte),
           NEW t \in Seq(Byte), to_file' = to_file \o t
    PROVE  DumpFits'
<1>1. ASSUME dumped \notin NoDumps, FlushBeforeDump
      PROVE  /\ dumped.to_offset <= Len(to_file')
             /\ SubSeq(to_file', 1, dumped.to_offset) = SubSeq(to_file, 1, dumped.to_offset)
  <2>1. dumped.to_offset \in Nat
    BY <1>1, DumpOffset
  <2>2. dumped.to_offset <= Len(to_file)
    BY <1>1 DEF DumpFits
  <2> QED BY <2>1, <2>2, GrowingFile
<1> QED BY <1>1, DumpSurvives

\* A file that is cut is its beginning.
LEMMA TruncateFile ==
    ASSUME NEW s \in Seq(Byte), NEW n \in Nat
    PROVE  /\ Truncate(s, n) \in Seq(Byte) /\ Len(Truncate(s, n)) = n
           /\ SubSeq(Truncate(s, n), 1, n) = Truncate(s, n)
           /\ n <= Len(s) => Truncate(s, n) = SubSeq(s, 1, n)
<1> DEFINE t == Truncate(s, n)
<1>1. t \in Seq(Byte) /\ Len(t) = n
  <2>1. 0 \in Byte
    BY DEF Byte
  <2>2. \A k \in 1 .. n : (IF k <= Len(s) THEN s[k] ELSE 0) \in Byte
    BY <2>1
  <2> QED BY <2>2 DEF Truncate
<1>2. n <= Len(s) => t = SubSeq(s, 1, n)
  BY DEF Truncate
<1> HIDE DEF t
<1>3. SubSeq(t, 1, n) = t
  BY <1>1, SubSeqFull
<1> QED BY <1>1, <1>2, <1>3 DEF t

-----------------------------------------------------------------------------
\* The state of a host that is with its applier.
LEMMA AtWork ==
    ASSUME Complies, Attached
    PROVE  /\ patch \in Patches /\ patch.bytes \in Seq(Byte)
           /\ self \in Appliers /\ self.patch_offset \in Nat
           /\ self.patch_offset <= Len(patch.bytes)
           /\ Fits(patch.bytes, self, Consumed, Output)
           /\ chunk \in [size : Nat, offset : Nat] /\ chunk.offset <= chunk.size
           /\ ChunkLeft \in Nat /\ chunk.size <= self.patch_offset
           /\ Consumed \in Nat /\ Consumed <= self.patch_offset
           /\ to_buffer \in Seq(Byte) /\ to_file \in Seq(Byte) /\ Output \in Seq(Byte)
           /\ from_pos \in Nat
<1>1. Fits(patch.bytes, self, Consumed, Output)
  BY DEF Complies, Working, Consumed
<1>2. /\ patch \in Patches /\ to_file \in Seq(Byte) /\ to_buffer \in Seq(Byte)
      /\ chunk \in [size : Nat, offset : Nat] /\ chunk.offset <= chunk.size
      /\ chunk.size <= self.patch_offset /\ from_pos \in Nat
  BY DEF Complies, Typed
<1>3. patch.bytes \in Seq(Byte)
  BY <1>2, ApplyPatchAssumption
<1>4. self \in Appliers /\ self.patch_offset <= Len(patch.bytes)
  BY <1>1 DEF Fits, Proper
<1>5. self.patch_offset \in Nat /\ chunk.size \in Nat /\ chunk.offset \in Nat
  BY <1>2, <1>4 DEF Appliers
<1>6. ChunkLeft \in Nat /\ ChunkLeft <= self.patch_offset
  BY <1>2, <1>5 DEF ChunkLeft
<1>7. Consumed \in Nat /\ Consumed <= self.patch_offset
  BY <1>5, <1>6 DEF Consumed
<1>8. Output \in Seq(Byte)
  BY <1>2, ConcatProperties DEF Output
<1> QED BY <1>1, <1>2, <1>3, <1>4, <1>5, <1>6, <1>7, <1>8

\* Between two calls all of the chunk is taken, unless the applier is done or failed.
LEMMA BetweenCalls ==
    ASSUME Complies, host \in {"ready", "error", "dump"}, self.state \notin {"done", "failed"}
    PROVE  Consumed = self.patch_offset
<1>1. Attached
  BY DEF Attached
<1>2. ~ChunkAvailable
  BY DEF Complies, Calls
<1>3. ChunkLeft \in Nat /\ self.patch_offset \in Nat
  BY <1>1, AtWork
<1>4. ChunkLeft = 0
  BY <1>2, <1>3 DEF ChunkAvailable
<1> QED BY <1>3, <1>4 DEF Consumed

\* A step after which finalize has not succeeded.
LEMMA NoSuccess ==
    ASSUME host' \notin Succeeded \cup {"complete"}
    PROVE  Complete'
  BY DEF Complete

\* process is called with a chunk.
LEMMA ProcessComplies ==
    ASSUME Complies, Process
    PROVE  Complies'
<1> DEFINE bytes == patch.bytes
           p == self.patch_offset
<1>1. PICK size \in 1 .. Len(bytes) - p :
        self' = [self EXCEPT !.patch_offset = @ + size] /\ chunk' = [size |-> size, offset |-> 0]
  BY DEF Process
<1>2. /\ host \in {"ready", "error"} /\ host' = "process" /\ res' = "ok"
      /\ UNCHANGED <<storage, from_pos>>
  BY DEF Process
<1>3. Attached
  BY <1>2 DEF Attached
<1>4. /\ bytes \in Seq(Byte) /\ self \in Appliers /\ p \in Nat /\ p <= Len(bytes)
      /\ Fits(bytes, self, Consumed, Output)
      /\ Consumed \in Nat /\ Consumed <= p
  BY <1>3, AtWork
<1>5. size \in Nat /\ size \in Int /\ p + size \in Nat /\ p + size <= Len(bytes) /\ size <= p + size
  <2>1. Len(bytes) \in Nat
    BY <1>4
  <2> HIDE DEF p, bytes
  <2> QED BY <1>4, <2>1
<1> DEFINE m == p + size
           q == [self EXCEPT !.patch_offset = m]
<1>6. self' = q /\ q.patch_offset = m /\ q.state = self.state
  BY <1>1, <1>4 DEF Appliers
<1>7. chunk' \in [size : Nat, offset : Nat] /\ chunk'.size = size /\ chunk'.offset = 0
  BY <1>1, <1>5
<1>8. Fits(bytes, q, p, Output)
  <2>1. Fits(bytes, self, p, Output)
    BY <1>2, <1>4, BetweenCalls, FitsLater
  <2> HIDE DEF m
  <2> QED BY <1>5, <2>1, FitsOffset DEF m
<1> HIDE DEF q
<1>9. Consumed' = p /\ (self'.patch_offset - ChunkLeft') = p
  <2>1. ChunkLeft' = size
    BY <1>5, <1>7 DEF ChunkLeft
  <2> HIDE DEF p
  <2>2. m - size = p
    BY <1>4, <1>5
  <2> QED BY <1>6, <2>1, <2>2 DEF Consumed
<1>10. Output' = Output
  BY <1>2 DEF Output, storage
<1>11. Typed'
  <2>1. chunk'.offset <= chunk'.size /\ chunk'.size <= self'.patch_offset
    BY <1>5, <1>6, <1>7
  <2> QED BY <1>2, <1>7, <2>1 DEF Complies, Typed, storage
<1>12. Calls'
  BY <1>2 DEF Calls, IsError, Attached
<1>13. Working'
  BY <1>2, <1>6, <1>8, <1>9, <1>10 DEF Working, storage
<1>14. DumpFits'
  BY <1>2 DEF Complies, DumpFits, storage
<1>15. Complete'
  BY <1>2, NoSuccess DEF Succeeded
<1> QED BY <1>11, <1>12, <1>13, <1>14, <1>15 DEF Complies

\* It returns.
LEMMA ReturnProcessComplies ==
    ASSUME Complies, ReturnProcess
    PROVE  Complies'
<1>1. /\ host = "process" /\ UNCHANGED <<storage, self, chunk, from_pos, res>>
      /\ IsError(res) \/ (res # "byte" /\ ~ChunkAvailable)
      /\ host' = IF IsError(res) /\ res # "ALREADY_DONE" THEN "error" ELSE "ready"
  BY DEF ReturnProcess
<1>2. ChunkAvailable' <=> ChunkAvailable
  BY <1>1 DEF ChunkAvailable, ChunkLeft
<1>3. Calls'
  <2>1. host' = "error" => self'.state = "failed"
    BY <1>1 DEF Complies, Calls
  <2>2. host' = "ready" => ~ChunkAvailable' \/ self'.state = "done"
    BY <1>1, <1>2 DEF Complies, Calls, IsError
  <2> QED BY <1>1, <2>1, <2>2 DEF Complies, Calls, Attached
<1>4. Typed' /\ DumpFits'
  BY <1>1 DEF Complies, Typed, DumpFits, storage, ChunkLeft
<1>5. Working'
  BY <1>1 DEF Complies, Working, Attached, storage, ChunkLeft, Output
<1>6. Complete'
  BY <1>1, NoSuccess DEF Succeeded
<1> QED BY <1>3, <1>4, <1>5, <1>6 DEF Complies

\* finalize is called.
LEMMA FinalizeComplies ==
    ASSUME Complies, Finalize
    PROVE  Complies'
<1>1. /\ host \in {"ready", "error"} /\ host' = "finalize" /\ chunk' = NoChunk /\ res' = "ok"
      /\ UNCHANGED <<storage, self, from_pos>>
  BY DEF Finalize
<1>2. Attached
  BY <1>1 DEF Attached
<1>3. /\ self.patch_offset \in Nat /\ Fits(patch.bytes, self, Consumed, Output)
      /\ Consumed \in Nat /\ Consumed <= self.patch_offset
  BY <1>2, AtWork
<1>4. NoChunk \in [size : Nat, offset : Nat] /\ NoChunk.size = 0 /\ NoChunk.offset = 0
  BY DEF NoChunk
<1>5. Fits(patch.bytes, self, self.patch_offset, Output)
  BY <1>1, <1>3, BetweenCalls, FitsLater
<1>6. ChunkLeft' = 0 /\ self'.patch_offset - ChunkLeft' = self.patch_offset /\ Output' = Output
  <2>1. ChunkLeft' = 0
    BY <1>1, <1>4 DEF ChunkLeft
  <2>2. self.patch_offset - 0 = self.patch_offset
    BY <1>3
  <2> QED BY <1>1, <2>1, <2>2 DEF Output, storage
<1>7. Typed'
  BY <1>1, <1>3, <1>4 DEF Complies, Typed, storage
<1>8. Calls'
  BY <1>1 DEF Calls, IsError, Attached
<1>9. Working'
  BY <1>1, <1>5, <1>6 DEF Working, storage
<1>10. DumpFits'
  BY <1>1 DEF Complies, DumpFits, storage
<1>11. Complete'
  BY <1>1, NoSuccess DEF Succeeded
<1> QED BY <1>7, <1>8, <1>9, <1>10, <1>11 DEF Complies

\* The process of the host ends: what was in the buffer, or some of it, is in the file.
LEMMA LostComplies ==
    ASSUME Complies, Attached, LoseApplier, UNCHANGED patch, dumped' \in {dumped, NoDump},
           to_buffer' = <<>>, NEW t \in Seq(Byte), to_file' = to_file \o t,
           host' \in {"off", "complete", "lost"}
    PROVE  Typed' /\ Calls' /\ Working' /\ DumpFits'
<1>1. NoChunk \in [size : Nat, offset : Nat] /\ NoChunk.size = 0 /\ NoChunk.offset = 0
      /\ NewApplier.patch_offset = 0 /\ <<>> \in Seq(Byte)
  BY DEF NoChunk, NewApplier
<1>2. to_file \in Seq(Byte)
  BY AtWork
<1>3. to_file' \in Seq(Byte)
  BY <1>2, ConcatProperties
<1>4. Typed'
  BY <1>1, <1>3 DEF LoseApplier, Complies, Typed
<1>5. Calls'
  BY DEF LoseApplier, Calls, IsError, Attached
<1>6. Working'
  BY DEF Working, Attached
<1>7. DumpFits'
  <2>1. CASE dumped' = NoDump
    BY <2>1 DEF DumpFits, NoDumps
  <2>2. CASE dumped' = dumped
    BY <1>2, <2>2, DumpSurvivesGrowth DEF Complies
  <2> QED BY <2>1, <2>2
<1> QED BY <1>4, <1>5, <1>6, <1>7

\* After an error all of the buffer is flushed.
LEMMA EndWithErrorComplies ==
    ASSUME Complies, Attached, EndWithError, UNCHANGED patch
    PROVE  Complies'
<1>1. /\ host' = "off" /\ dumped' \in {dumped, NoDump} /\ LoseApplier
      /\ to_file' = to_file \o to_buffer /\ to_buffer' = <<>>
  BY DEF EndWithError, Flush
<1>2. to_buffer \in Seq(Byte)
  BY AtWork
<1>3. Typed' /\ Calls' /\ Working' /\ DumpFits'
  BY <1>1, <1>2, LostComplies
<1>4. Complete'
  BY <1>1, NoSuccess DEF Succeeded
<1> QED BY <1>3, <1>4 DEF Complies

\* finalize succeeds only after the whole patch.
LEMMA FinalResultComplies ==
    ASSUME Complies, host = "finalize", res \notin {"ok", "byte"}, FinalResult = "success"
    PROVE  /\ patch.good /\ (FlushBeforeDump => Output = patch.to)
           /\ res = "ALREADY_DONE" /\ self.state = "done"
<1> DEFINE N == Len(patch.bytes)
           D == Decoding(From, patch.bytes)
<1>1. Attached
  BY DEF Attached
<1>2. /\ patch \in Patches /\ patch.bytes \in Seq(Byte)
      /\ Fits(patch.bytes, self, Consumed, Output) /\ self \in Appliers
  BY <1>1, AtWork
<1>3. res = "ALREADY_DONE" /\ WholePatchRead
  BY DEF FinalResult, Complies, Calls
<1>4. self.state = "done"
  BY <1>3 DEF Complies, Calls
<1>5. self.reader.open /\ self.reader.patch_offset = self.reader.patch_size
  BY <1>2, <1>3, <1>4 DEF Fits, Proper, WholePatchRead
<1>6. PICK e \in 0 .. N : Follows(patch.bytes, self, Consumed, Output, e)
  BY <1>2, <1>4 DEF Fits, Undecided
<1>7. e = N
  <2>1. self.reader.patch_offset \in Nat /\ N \in Nat
    <3>1. self.reader.patch_offset \in Nat
      BY <1>2, <1>5, OpenReader
    <3> QED BY <1>2, <3>1
  <2>2. self.reader.patch_size - self.reader.patch_offset >= N - e
    BY <1>5, <1>6 DEF Follows
  <2> QED BY <1>5, <2>1, <2>2
<1>8. D[N].state = "done" /\ (FlushBeforeDump => Output = D[N].to)
  BY <1>4, <1>6, <1>7 DEF Follows, Agrees, Stage
<1>9. patch.good /\ patch.to = D[N].to
  <2>1. WellFormed(From, patch.bytes) /\ MadeFrom(From, patch.bytes) = D[N].to
    BY <1>8 DEF WellFormed, MadeFrom
  <2> QED BY <1>2, <2>1, ApplyPatchAssumption
<1> QED BY <1>3, <1>4, <1>8, <1>9

\* It returns.
LEMMA ReturnFinalizeComplies ==
    ASSUME Complies, ReturnFinalize
    PROVE  Complies'
<1>1. host = "finalize" /\ res \notin {"ok", "byte"} /\ Attached
  BY DEF ReturnFinalize, Attached
<1>2. CASE FinalResult # "success"
  BY <1>1, <1>2, EndWithErrorComplies DEF ReturnFinalize
<1>3. CASE FinalResult = "success"
  <2>1. host' = "finalized" /\ UNCHANGED <<storage, self, chunk, from_pos, res>>
    BY <1>3 DEF ReturnFinalize
  <2>2. Typed' /\ DumpFits'
    BY <2>1 DEF Complies, Typed, DumpFits, storage
  <2>3. Calls'
    BY <2>1 DEF Complies, Calls, Attached
  <2>4. Working'
    BY <1>1, <2>1 DEF Complies, Working, storage, ChunkLeft, Output
  <2>5. Complete'
    BY <1>1, <1>3, <2>1, FinalResultComplies DEF Complete, Succeeded, storage, Output
  <2> QED BY <2>2, <2>3, <2>4, <2>5 DEF Complies
<1> QED BY <1>2, <1>3

\* The dump is removed.
LEMMA RemoveStateComplies ==
    ASSUME Complies, RemoveState
    PROVE  Complies'
<1>1. /\ host = "finalized" /\ host' = "removed" /\ dumped' = NoDump
      /\ UNCHANGED <<patch, to_file, to_buffer, self, chunk, from_pos, res>>
  BY DEF RemoveState
<1>2. Typed' /\ DumpFits'
  BY <1>1 DEF Complies, Typed, DumpFits, NoDumps
<1>3. Calls'
  BY <1>1 DEF Complies, Calls, Attached
<1>4. Working'
  BY <1>1 DEF Complies, Working, ChunkLeft, Output, Attached
<1>5. Complete'
  BY <1>1 DEF Complies, Complete, Succeeded, Output
<1> QED BY <1>2, <1>3, <1>4, <1>5 DEF Complies

\* The files are closed, and the last bytes are in the to-file or lost.
LEMMA CloseFilesComplies ==
    ASSUME Complies, CloseFiles
    PROVE  Complies'
<1>1. /\ host \in {"removed", "ready"} /\ Attached /\ LoseApplier /\ to_buffer' = <<>>
      /\ UNCHANGED <<patch, dumped>> /\ host' \in {"off", "complete", "lost"}
      /\ host' = "complete" => host = "removed" /\ to_file' = Output
  BY DEF CloseFiles, Flush, LoseTail, Output, Attached
<1>2. to_buffer \in Seq(Byte)
  BY <1>1, AtWork
<1>3. PICK t \in Seq(Byte) : to_file' = to_file \o t
  <2>1. CASE Flush
    BY <1>2, <2>1 DEF Flush
  <2>2. CASE LoseTail
    <3>1. PICK n \in 0 .. Len(to_buffer) : to_file' = to_file \o SubSeq(to_buffer, 1, n)
      BY <2>2 DEF LoseTail
    <3>2. SubSeq(to_buffer, 1, n) \in Seq(Byte)
      BY <1>2
    <3> QED BY <3>1, <3>2
  <2> QED BY <2>1, <2>2 DEF CloseFiles
<1>4. Typed' /\ Calls' /\ Working' /\ DumpFits'
  BY <1>1, <1>3, LostComplies
<1>5. Complete'
  BY <1>1 DEF Complies, Complete, Succeeded
<1> QED BY <1>4, <1>5 DEF Complies

\* A crash loses what is buffered.
LEMMA CrashComplies ==
    ASSUME Complies, Crash
    PROVE  Complies'
<1>1. /\ Attached /\ LoseApplier /\ to_buffer' = <<>> /\ UNCHANGED <<patch, dumped>>
      /\ host' = "off"
  BY DEF Crash, LoseTail
<1>2. to_buffer \in Seq(Byte)
  BY <1>1, AtWork
<1>3. PICK n \in 0 .. Len(to_buffer) : to_file' = to_file \o SubSeq(to_buffer, 1, n)
  BY DEF Crash, LoseTail
<1>4. SubSeq(to_buffer, 1, n) \in Seq(Byte)
  BY <1>2
<1>5. Typed' /\ Calls' /\ Working' /\ DumpFits'
  BY <1>1, <1>3, <1>4, LostComplies
<1>6. Complete'
  BY <1>1, NoSuccess DEF Succeeded
<1> QED BY <1>5, <1>6 DEF Complies

\* Before the dump the to-file is flushed, or not.
LEMMA OpenStateComplies ==
    ASSUME Complies, OpenState
    PROVE  Complies'
<1>1. /\ host = "ready" /\ host' = "dump" /\ dumped' = TornDump /\ Attached /\ Attached'
      /\ UNCHANGED <<patch, self, chunk, from_pos, res>>
      /\ IF FlushBeforeDump THEN to_file' = Output /\ to_buffer' = <<>>
         ELSE UNCHANGED <<to_file, to_buffer>>
  BY DEF OpenState, Flush, Output, Attached
<1>2. /\ Fits(patch.bytes, self, Consumed, Output) /\ Output \in Seq(Byte)
      /\ to_file \in Seq(Byte) /\ to_buffer \in Seq(Byte)
  BY <1>1, AtWork
<1>3. Output' = Output /\ to_file' \in Seq(Byte) /\ to_buffer' \in Seq(Byte)
  <2>1. CASE FlushBeforeDump
    <3>1. to_file' = Output /\ to_buffer' = <<>> /\ <<>> \in Seq(Byte)
      BY <1>1, <2>1
    <3>2. Output' = to_file' \o to_buffer'
      BY DEF Output
    <3>3. Output \o <<>> = Output
      BY <1>2, ConcatEmptySeq
    <3> QED BY <1>2, <3>1, <3>2, <3>3
  <2>2. CASE ~FlushBeforeDump
    BY <1>1, <1>2, <2>2 DEF Output
  <2> QED BY <2>1, <2>2
<1>4. Typed'
  BY <1>1, <1>3 DEF Complies, Typed
<1>5. Calls'
  BY <1>1 DEF Complies, Calls, ChunkAvailable, ChunkLeft, IsError
<1>6. Working'
  BY <1>1, <1>2, <1>3 DEF Working, Consumed, ChunkLeft
<1>7. DumpFits'
  BY <1>1 DEF DumpFits, NoDumps
<1>8. Complete'
  BY <1>1, NoSuccess DEF Succeeded
<1> QED BY <1>4, <1>5, <1>6, <1>7, <1>8 DEF Complies

\* The dump is of an applier whose output is in the file.
LEMMA DumpComplies ==
    ASSUME Complies, Inductive, Dump
    PROVE  Complies'
<1>1. /\ host = "dump" /\ host' = "ready" /\ dumped' \in {self, dumped}
      /\ UNCHANGED <<patch, to_file, to_buffer, self, chunk, from_pos, res>>
  BY DEF Dump, Image
<1>2. Attached /\ Attached' /\ self.state # "failed"
  BY <1>1 DEF Attached, Inductive, FailureSeen
<1>3. /\ Fits(patch.bytes, self, Consumed, Output) /\ self \in Appliers
      /\ Consumed \in Nat /\ self.patch_offset \in Nat /\ Consumed <= self.patch_offset
      /\ Output \in Seq(Byte) /\ to_file \in Seq(Byte)
  BY <1>2, AtWork
<1>4. Fits(patch.bytes, self, self.patch_offset, Output)
  BY <1>1, <1>3, BetweenCalls, FitsLater
<1>5. ASSUME dumped' = self PROVE DumpFits'
  <2>1. ASSUME FlushBeforeDump
        PROVE  self.to_offset <= Len(to_file') /\ SubSeq(to_file', 1, self.to_offset) = Output
    <3>1. to_file' = Output
      <4>1. to_file' = to_file /\ to_buffer = <<>>
        BY <1>1, <2>1 DEF Complies, Calls
      <4>2. to_file \o <<>> = to_file
        BY <1>3, ConcatEmptySeq
      <4> QED BY <4>1, <4>2 DEF Output
    <3>2. Len(Output) = self.to_offset
      BY <1>2, <1>3, <2>1, FitsLength
    <3>3. SubSeq(Output, 1, Len(Output)) = Output /\ Len(Output) <= Len(Output)
      BY <1>3, SubSeqFull
    <3> QED BY <3>1, <3>2, <3>3
  <2>2. Fits(patch.bytes, self, self.patch_offset, SubSeq(to_file', 1, self.to_offset))
    BY <1>4, <2>1, FitsOutput
  <2> QED BY <1>1, <1>5, <2>1, <2>2 DEF DumpFits
<1>6. ASSUME dumped' = dumped PROVE DumpFits'
  BY <1>1, <1>6 DEF Complies, DumpFits
<1>7. DumpFits'
  BY <1>1, <1>5, <1>6
<1>8. Typed'
  BY <1>1 DEF Complies, Typed
<1>9. Calls'
  BY <1>1, <1>2 DEF Complies, Calls, ChunkAvailable, ChunkLeft, IsError
<1>10. Working'
  BY <1>1, <1>2, <1>3 DEF Working, Consumed, ChunkLeft, Output
<1>11. Complete'
  BY <1>1, NoSuccess DEF Succeeded
<1> QED BY <1>7, <1>8, <1>9, <1>10, <1>11 DEF Complies

\* A dump that cannot be restored is removed.
LEMMA RestoreFailsComplies ==
    ASSUME Complies, RestoreFails
    PROVE  Complies'
<1>1. /\ host = "off" /\ dumped' = NoDump
      /\ UNCHANGED <<patch, to_file, to_buffer, host, self, chunk, from_pos, res>>
  BY DEF RestoreFails
<1>2. Typed' /\ DumpFits'
  BY <1>1 DEF Complies, Typed, DumpFits, NoDumps
<1>3. Calls' /\ Working'
  BY <1>1 DEF Complies, Calls, Working, Attached
<1>4. Complete'
  BY <1>1, NoSuccess DEF Succeeded
<1> QED BY <1>2, <1>3, <1>4 DEF Complies

\* The applier is started, from nothing or from a dump.
LEMMA StartComplies ==
    ASSUME Complies, Inductive, Start
    PROVE  Complies'
<1>1. /\ host = "off" /\ host' = "ready" /\ self' = Restored /\ from_pos' = Restored.from_offset
      /\ to_file' = Truncate(to_file, Restored.to_offset) /\ dumped.state # "torn"
      /\ UNCHANGED <<patch, to_buffer, dumped, chunk, res>>
  BY DEF Start
<1>2. /\ chunk = NoChunk /\ to_buffer = <<>> /\ patch \in Patches /\ to_file \in Seq(Byte)
  BY <1>1 DEF Complies, Calls, Typed, Attached
<1>3. patch.bytes \in Seq(Byte)
  BY <1>2, ApplyPatchAssumption
<1>4. /\ NoChunk \in [size : Nat, offset : Nat] /\ NoChunk.size = 0 /\ NoChunk.offset = 0
      /\ ChunkLeft' = 0 /\ ~ChunkAvailable'
  <2>1. NoChunk \in [size : Nat, offset : Nat] /\ NoChunk.size = 0 /\ NoChunk.offset = 0
    BY DEF NoChunk
  <2>2. ChunkLeft' = 0
    BY <1>1, <1>2, <2>1 DEF ChunkLeft
  <2> QED BY <2>1, <2>2 DEF ChunkAvailable
<1>5. CASE dumped.state \in {"none", "init"}
  <2>1. Restored = NewApplier
    BY <1>5 DEF Restored
  <2>2. /\ NewApplier.patch_offset = 0 /\ NewApplier.to_offset = 0
        /\ NewApplier.from_offset = 0 /\ NewApplier.state = "init"
    BY DEF NewApplier
  <2>3. to_file' = <<>>
    <3>1. to_file' \in Seq(Byte) /\ Len(to_file') = 0
      BY <1>1, <1>2, <2>1, <2>2, TruncateFile
    <3> QED BY <3>1, EmptySeq
  <2>4. Output' = <<>> /\ self'.patch_offset - ChunkLeft' = 0
    <3>1. <<>> \o <<>> = <<>>
      OBVIOUS
    <3> QED BY <1>1, <1>2, <1>4, <2>1, <2>2, <2>3, <3>1 DEF Output
  <2>5. Working'
    BY <1>1, <1>3, <2>1, <2>4, NewFits DEF Working
  <2>6. DumpFits'
    <3>1. CASE dumped \in NoDumps
      BY <1>1, <3>1 DEF DumpFits
    <3>2. CASE dumped \notin NoDumps
      <4>1. /\ dumped \in Appliers /\ dumped.state = "init" /\ dumped.to_offset = 0
            /\ FlushBeforeDump => dumped.to_offset <= Len(to_file)
        <5>1. dumped \in Appliers
          BY <3>2, DumpOffset DEF Complies
        <5>2. dumped.state # "none"
          BY <5>1 DEF Appliers, States, SizeStates, DataStates
        <5>3. dumped.state = "init"
          BY <1>5, <5>2
        <5> QED BY <3>2, <5>1, <5>3 DEF Complies, DumpFits, Fits, Proper
      <4>2. SubSeq(to_file, 1, 0) = <<>> /\ SubSeq(to_file', 1, 0) = <<>> /\ 0 <= Len(to_file')
        BY <1>2, <2>3, SubSeqEmpty
      <4> QED BY <1>1, <4>1, <4>2, DumpSurvives DEF Complies
    <3> QED BY <3>1, <3>2
  <2>7. Typed'
    <3>1. to_file' \in Seq(Byte) /\ to_buffer' \in Seq(Byte)
      BY <1>1, <1>2, <2>3
    <3> QED BY <1>1, <1>2, <1>4, <2>1, <2>2, <3>1 DEF Typed
  <2>8. Calls'
    BY <1>1, <1>4 DEF Complies, Calls, Attached
  <2>9. Complete'
    BY <1>1, NoSuccess DEF Succeeded
  <2> QED BY <2>5, <2>6, <2>7, <2>8, <2>9 DEF Complies
<1>6. CASE dumped.state \notin {"none", "init"}
  <2> DEFINE q == [dumped EXCEPT !.init_state = "fixed_header", !.size = FirstSize]
             n == dumped.to_offset
             x == SubSeq(to_file, 1, n)
  <2>1. Restored = q
    BY <1>6 DEF Restored
  <2>2. dumped \notin NoDumps
    BY <1>1, <1>6 DEF NoDumps, NoDump, TornDump
  <2>3. /\ Fits(patch.bytes, dumped, dumped.patch_offset, x)
        /\ FlushBeforeDump => n <= Len(to_file)
    BY <2>2 DEF Complies, DumpFits
  <2>4. dumped \in Appliers /\ n \in Nat
    BY <2>2, DumpOffset DEF Complies
  <2>5. dumped.patch_offset \in Nat /\ dumped.from_offset \in Nat
    BY <2>4 DEF Appliers
  <2>6. /\ Fits(patch.bytes, q, dumped.patch_offset, x) /\ q.patch_offset = dumped.patch_offset
        /\ q.to_offset = n /\ q.from_offset = dumped.from_offset
    BY <1>6, <2>3, FitsRestored
  <2> HIDE DEF q
  <2>7. /\ to_file' = Truncate(to_file, n) /\ to_file' \in Seq(Byte) /\ Len(to_file') = n
        /\ SubSeq(to_file', 1, n) = to_file' /\ (FlushBeforeDump => to_file' = x)
    <3> HIDE DEF n
    <3>1. to_file' = Truncate(to_file, n)
      BY <1>1, <2>1, <2>6
    <3> QED BY <1>2, <2>3, <2>4, <3>1, TruncateFile
  <2>8. Output' = to_file' /\ self'.patch_offset - ChunkLeft' = dumped.patch_offset
    <3>1. to_file' \o <<>> = to_file'
      BY <2>7, ConcatEmptySeq
    <3>2. dumped.patch_offset - 0 = dumped.patch_offset
      BY <2>5
    <3> QED BY <1>1, <1>2, <1>4, <2>1, <2>6, <3>1, <3>2 DEF Output
  <2>9. Working'
    <3>1. Fits(patch.bytes, q, dumped.patch_offset, to_file')
      BY <2>6, <2>7, FitsOutput
    <3> QED BY <1>1, <2>1, <2>8, <3>1 DEF Working
  <2>10. DumpFits'
    <3>1. FlushBeforeDump => n <= Len(to_file') /\ SubSeq(to_file', 1, n) = x
      BY <2>4, <2>7
    <3> QED BY <1>1, <3>1, DumpSurvives DEF Complies
  <2>11. Typed'
    <3>1. 0 <= q.patch_offset /\ from_pos' \in Nat
      BY <1>1, <2>1, <2>5, <2>6
    <3> QED BY <1>1, <1>2, <1>4, <2>1, <2>7, <3>1 DEF Complies, Typed
  <2>12. Calls'
    BY <1>1, <1>4 DEF Complies, Calls, Attached
  <2>13. Complete'
    BY <1>1, NoSuccess DEF Succeeded
  <2> QED BY <2>9, <2>10, <2>11, <2>12, <2>13 DEF Complies
<1> QED BY <1>5, <1>6

\* Each step of the next-state relation.
LEMMA CompliesNext ==
    ASSUME Complies, Inductive, [Next]_vars
    PROVE  Complies'
<1>1. CASE Idle \/ UNCHANGED vars
  <2>1. UNCHANGED <<storage, host, self, chunk, from_pos, res>>
    BY <1>1 DEF Idle, vars
  <2> QED BY <2>1 DEF storage, Complies, Typed, Calls, Working, DumpFits, Complete, Attached,
                      ChunkAvailable, ChunkLeft, Output
<1>2. CASE CleanAndExit \/ DumpFails
  <2>1. Attached /\ EndWithError /\ UNCHANGED patch
    BY <1>2 DEF CleanAndExit, DumpFails, Attached
  <2> QED BY <2>1, EndWithErrorComplies
<1> QED BY <1>1, <1>2, ProcessOnceComplies, ProcessComplies, ReturnProcessComplies,
           FinalizeComplies, ReturnFinalizeComplies, RemoveStateComplies, CloseFilesComplies,
           CrashComplies, OpenStateComplies, DumpComplies, StartComplies, RestoreFailsComplies
        DEF Next, Call, Host

\* The applier of c/detools.c, however its patch is cut into chunks, and however often
\* its host dumps it, crashes and restores it, is at each moment where the decoder of
\* the whole patch is.
THEOREM CompliesAlways == Spec => []Complies
<1>1. Init => Complies
  <2> SUFFICES ASSUME Init PROVE Complies
    OBVIOUS
  <2> USE DEF Init
  <2>1. NoChunk \in [size : Nat, offset : Nat] /\ NoChunk.size = 0 /\ NoChunk.offset = 0
        /\ NewApplier.patch_offset = 0 /\ <<>> \in Seq(Byte)
    BY DEF NoChunk, NewApplier
  <2>2. Typed
    BY <2>1 DEF Typed
  <2>3. Calls
    BY DEF Calls, IsError, Attached
  <2>4. Working /\ DumpFits /\ Complete
    BY DEF Working, Attached, DumpFits, NoDumps, Complete, Succeeded
  <2> QED BY <2>2, <2>3, <2>4 DEF Complies
<1> QED BY <1>1, CompliesNext, InductiveInvariant, PTL DEF Spec

-----------------------------------------------------------------------------
\* Each variable has its type: among others, chunk_read never reads beyond the chunk
\* (detools.c:103-115) nor the patch reader beyond the patch.
THEOREM TypeOKAlways == Spec => []TypeOK
<1>1. Complies /\ Inductive => TypeOK
  <2> SUFFICES ASSUME Complies, Inductive PROVE TypeOK
    OBVIOUS
  <2>1. self \in Appliers /\ self.patch_offset \in 0 .. Len(patch.bytes)
    <3>1. CASE Attached
      <4>1. self \in Appliers /\ self.patch_offset \in Nat
            /\ self.patch_offset <= Len(patch.bytes) /\ patch.bytes \in Seq(Byte)
        BY <3>1, AtWork
      <4> QED BY <4>1
    <3>2. CASE ~Attached
      <4>1. self = NewApplier /\ patch \in Patches
        BY <3>2 DEF Complies, Calls, Typed, Attached
      <4>2. patch.bytes \in Seq(Byte)
        BY <4>1, ApplyPatchAssumption
      <4>3. NewApplier \in Appliers
        BY <4>2, NewFits DEF Fits, Proper
      <4> QED BY <4>1, <4>2, <4>3 DEF NewApplier
    <3> QED BY <3>1, <3>2
  <2>2. chunk.offset \in 0 .. chunk.size
    <3>1. chunk \in [size : Nat, offset : Nat] /\ chunk.offset <= chunk.size
      BY DEF Complies, Typed
    <3> QED BY <3>1
  <2>3. Output \in Seq(Byte)
    BY ConcatProperties DEF Complies, Typed, Output
  <2>4. self.reader.open => self.reader.patch_offset \in 0 .. Len(patch.bytes)
    <3> SUFFICES ASSUME self.reader.open
                 PROVE  self.reader.patch_offset \in 0 .. Len(patch.bytes)
      OBVIOUS
    <3>1. Attached
      BY DEF Complies, Calls, NewApplier, NoReader, Attached
    <3>2. /\ self.patch_offset \in Nat /\ self.patch_offset <= Len(patch.bytes)
          /\ Consumed \in Nat /\ Consumed <= self.patch_offset
          /\ self \in Appliers /\ Fits(patch.bytes, self, Consumed, Output)
          /\ patch.bytes \in Seq(Byte)
      BY <3>1, AtWork
    <3>3. self.reader.patch_offset <= Consumed
      BY <3>2 DEF Fits, Proper
    <3>4. self.reader.patch_offset \in Nat
      BY <3>2, OpenReader
    <3> QED BY <3>2, <3>3, <3>4
  <2>5. self.state \in {"init", "dfpatch_size", "diff_size", "diff_data", "extra_size",
                        "extra_data", "adjustment", "done", "failed"}
    BY <2>1 DEF Appliers, States, SizeStates, DataStates
  <2> QED BY <2>1, <2>2, <2>3, <2>4, <2>5 DEF Complies, Inductive, Hosts, Typed, TypeOK
<1> QED BY <1>1, CompliesAlways, InductiveInvariant, PTL

\* The check of common_process_size (detools.c:1070-1090), made when a size is read,
\* bounds what all the turns for its data write, unless the size is negative.
THEOREM OutputBoundedAlways == Spec => []OutputBounded
<1>1. Complies => OutputBounded
  <2> SUFFICES ASSUME Complies, self.state # "init", self.chunk_size >= 0
               PROVE  self.to_offset <= self.to_size
    BY DEF OutputBounded
  <2>1. Attached
    BY DEF Complies, Calls, NewApplier, Attached
  <2>2. self \in Appliers /\ Fits(patch.bytes, self, Consumed, Output)
    BY <2>1, AtWork
  <2>3. /\ self.to_offset \in Nat /\ self.to_size \in Nat /\ self.chunk_size \in Int
        /\ self.to_offset + self.chunk_size <= self.to_size
    BY <2>2 DEF Fits, Proper, Appliers
  <2> QED BY <2>3
<1> QED BY <1>1, CompliesAlways, PTL

\* What the decoder makes of a good patch begins with what it has made of a part of it.
LEMMA GoodBegins ==
    ASSUME NEW p \in Patches, p.good, NEW r, NEW c, NEW x, Fits(p.bytes, r, c, x),
           r.state # "failed", FlushBeforeDump
    PROVE  x = SubSeq(p.to, 1, r.to_offset)
<1> DEFINE N == Len(p.bytes)
           D == Decoding(From, p.bytes)
<1>1. /\ p.bytes \in Seq(Byte) /\ p.to \in Seq(Byte) /\ From \in Seq(Byte) /\ N \in Nat
      /\ p.to = MadeFrom(From, p.bytes)
  BY ApplyPatchAssumption
<1>2. p.to = D[N].to
  BY <1>1 DEF MadeFrom
<1>3. CASE Undecided(p.bytes, r)
  <2>1. x = <<>> /\ r.to_offset = 0
    BY <1>3 DEF Undecided, Fits, Proper
  <2> QED BY <1>1, <2>1, SubSeqEmpty
<1>4. CASE ~Undecided(p.bytes, r)
  <2>1. PICK e \in 0 .. N : Follows(p.bytes, r, c, x, e)
    BY <1>4 DEF Fits
  <2>2. x = D[e].to /\ Len(x) = r.to_offset
    BY <2>1 DEF Follows, Agrees
  <2>3. N \in e .. N
    BY <1>1
  <2>4. Begins(D[e].to, D[N].to)
    BY <1>1, <2>3, ImageBegins
  <2> HIDE DEF D, N
  <2> QED BY <1>2, <2>2, <2>4 DEF Begins
<1> QED BY <1>3, <1>4

\* With a host that flushes the to-file before it dumps the applier, which the example
\* dump_restore does not do (main.c:367), what is written of a good patch is at all
\* times the beginning of the new image, after crashes and restores too.
THEOREM OutputIsPrefixAlways ==
    ASSUME FlushBeforeDump
    PROVE  Spec => []OutputIsPrefix
<1>1. Complies => OutputIsPrefix
  BY AtWork, GoodBegins DEF OutputIsPrefix
<1> QED BY <1>1, CompliesAlways, PTL

\* With such a host, detools_apply_patch_finalize (detools.c:1509) reports success
\* only for a patch that is whole and well formed, and only when the new image is
\* written, if perhaps its end only to the stream; crashes between that and the closing
\* of the to-file included (main.c:363-376), the to-file is the new image once it is
\* closed without an error.
THEOREM SuccessIsCompleteAlways ==
    ASSUME FlushBeforeDump
    PROVE  Spec => []SuccessIsComplete
<1>1. Complies => SuccessIsComplete
  BY DEF Complies, Complete, Succeeded, SuccessIsComplete
<1> QED BY <1>1, CompliesAlways, PTL

\* With such a host, what the last dump says is written is in the to-file, as it must be
\* for detools_apply_patch_restore to go on from there after a crash.
THEOREM DumpIsDurableAlways ==
    ASSUME FlushBeforeDump
    PROVE  Spec => []DumpIsDurable
<1>1. Complies /\ Inductive => DumpIsDurable
  <2> SUFFICES ASSUME Complies, Inductive, dumped.state \notin {"none", "torn", "init"}
               PROVE  /\ dumped.to_offset <= Len(to_file)
                      /\ patch.good => Truncate(to_file, dumped.to_offset)
                                          = SubSeq(patch.to, 1, dumped.to_offset)
    BY DEF DumpIsDurable
  <2> DEFINE n == dumped.to_offset
  <2>1. dumped \notin NoDumps /\ dumped.state # "failed"
    BY DEF NoDumps, NoDump, TornDump, Inductive, Dumps
  <2>2. /\ n <= Len(to_file)
        /\ Fits(patch.bytes, dumped, dumped.patch_offset, SubSeq(to_file, 1, n))
    BY <2>1 DEF Complies, DumpFits
  <2>3. n \in Nat
    BY <2>1, DumpOffset DEF Complies
  <2>4. patch \in Patches /\ to_file \in Seq(Byte)
    BY DEF Complies, Typed
  <2>5. Truncate(to_file, n) = SubSeq(to_file, 1, n)
    BY <2>2, <2>3, <2>4, TruncateFile
  <2>6. patch.good => SubSeq(to_file, 1, n) = SubSeq(patch.to, 1, n)
    BY <2>1, <2>2, <2>4, GoodBegins
  <2> QED BY <2>2, <2>5, <2>6
<1> QED BY <1>1, CompliesAlways, InductiveInvariant, PTL

-----------------------------------------------------------------------------
\* What the patch reader takes for the rest of the patch is the rest of it.
Exact(bytes, r, c) ==
    r.reader.open => r.reader.patch_size - r.reader.patch_offset = Len(bytes) - c

\* All of the header is in the first chunk, and of it so far only bytes are taken that
\* are followed by others.
InHeader ==
    /\ host \in {"ready", "dump"} => self.patch_offset = 0
    /\ host = "process" => /\ chunk.size = self.patch_offset
                           /\ HeaderSize <= self.patch_offset
                           /\ \A j \in 2 .. Consumed : More(patch.bytes[j])

\* The applier goes on.
Smooth ==
    /\ self.state # "failed" /\ Exact(patch.bytes, self, Consumed)
    /\ self.state = "init" => host \in {"ready", "dump", "process"} /\ InHeader

\* The host is with an applier whose patch it has not yet finalized.
Underway == {"ready", "dump", "process", "finalize"}

\* With a good patch, no callback that failed, and finalize called at the end of the
\* patch.
Accepting ==
    /\ crashes \in Nat /\ failures \in Nat
    /\ patch.good /\ failures = 0 =>
          /\ host # "error"
          /\ host \in Underway /\ (host = "finalize" => self.patch_offset = Len(patch.bytes))
                => Smooth
          /\ host = "finalize" /\ self.patch_offset = Len(patch.bytes) =>
                res \in {"ok", "ALREADY_DONE"}
          /\ dumped \notin NoDumps => Exact(patch.bytes, dumped, dumped.patch_offset)

\* An applier of a good patch that goes on is where the decoder is after as many bytes.
LEMMA GoodFollows ==
    ASSUME NEW p \in Patches, p.good, NEW r, NEW c \in 0 .. Len(p.bytes), NEW x,
           Fits(p.bytes, r, c, x), r.state # "failed"
    PROVE  LET D == Decoding(From, p.bytes)
           IN  /\ Agrees(r, D[c]) /\ ~Undecided(p.bytes, r)
               /\ Len(p.bytes) # 0 /\ (c = Len(p.bytes) <=> D[c].state = "done")
<1> DEFINE N == Len(p.bytes)
           D == Decoding(From, p.bytes)
<1>1. /\ From \in Seq(Byte) /\ p.bytes \in Seq(Byte) /\ N \in Nat
      /\ WellFormed(From, p.bytes)
  BY ApplyPatchAssumption
<1>2. /\ D[N].state = "done"
      /\ \A k \in 0 .. N - 1 : D[k].state # "done" /\ ~Stuck(From, N - k, D[k])
  BY <1>1, WellFormedSteps
<1>3. /\ D[0] = Begin
      /\ \A k \in 1 .. N : D[k] = AfterByte(From, D[k - 1], p.bytes[k])
  BY <1>1, DecodingSteps
<1> HIDE DEF N, D
<1>4. 1 \in 1 .. N /\ D[1] = AfterByte(From, Begin, p.bytes[1]) /\ D[1].state # "wrong"
  <2>1. N # 0
    BY <1>2, <1>3 DEF Begin
  <2>2. 1 \in 1 .. N /\ 1 - 1 = 0
    BY <1>1, <2>1
  <2>3. D[1].state # "wrong"
    BY <1>1, <1>2, <2>2 DEF Stuck
  <2> QED BY <1>3, <2>2, <2>3
<1>5. ~Undecided(p.bytes, r)
  <2>1. CASE CompressionOf(p.bytes[1]) # 0
    <3>1. D[1] = Wrong(Begin)
      BY <1>4, <2>1 DEF AfterByte, Begin
    <3> QED BY <1>4, <3>1 DEF Wrong, Begin
  <2> QED BY <2>1 DEF Undecided
<1>6. PICK e \in 0 .. N : Follows(p.bytes, r, c, x, e)
  BY <1>5 DEF Fits, N
<1>7. e <= c /\ Agrees(r, D[e]) /\ (r.state # "done" => e = c)
  BY <1>6 DEF Follows, D
<1>8. e = c
  <2>1. CASE r.state = "done"
    <3>1. D[e].state = "done"
      BY <1>7, <2>1 DEF Agrees, Stage
    <3>2. e = N
      BY <1>1, <1>2, <3>1
    <3> QED BY <1>1, <1>7, <3>2 DEF N
  <2> QED BY <1>7, <2>1
<1>9. c = N <=> D[c].state = "done"
  BY <1>1, <1>2 DEF N
<1> QED BY <1>1, <1>4, <1>5, <1>7, <1>8, <1>9 DEF N, D

\* A turn of such an applier, before the end of the patch.
LEMMA SoundTurn ==
    ASSUME Complies, Inductive, patch.good, NEW st, Turn(st), st \notin {"done", "failed"}
    PROVE  LET N == Len(patch.bytes)
               D == Decoding(From, patch.bytes)
           IN  /\ N \in Nat /\ Consumed \in 0 .. N - 1
               /\ D[Consumed] \in Decoders /\ D[Consumed + 1] \in Decoders
               /\ Agrees(self, D[Consumed]) /\ D[Consumed].state # "done"
               /\ ~Undecided(patch.bytes, self)
               /\ ~Stuck(From, N - Consumed, D[Consumed])
               /\ D[Consumed + 1].state # "wrong"
<1> DEFINE N == Len(patch.bytes)
           D == Decoding(From, patch.bytes)
           c == Consumed
<1>1. /\ patch \in Patches /\ patch.bytes \in Seq(Byte) /\ self \in Appliers
      /\ self.state = st /\ Fits(patch.bytes, self, c, Output)
      /\ ChunkLeft \in Nat /\ c \in Nat /\ c + ChunkLeft <= N
  BY InTurn
<1>2. From \in Seq(Byte) /\ WellFormed(From, patch.bytes) /\ N \in Nat
  BY <1>1, ApplyPatchAssumption
<1>3. /\ D[N].state = "done"
      /\ \A k \in 0 .. N - 1 : D[k].state # "done" /\ ~Stuck(From, N - k, D[k])
  BY <1>1, <1>2, WellFormedSteps
<1>4. \A k \in 0 .. N : D[k] \in Decoders
  BY <1>1, <1>2, DecodingSteps
<1>5. c \in 0 .. N
  BY <1>1, <1>2
<1>6. Agrees(self, D[c]) /\ ~Undecided(patch.bytes, self) /\ (c = N <=> D[c].state = "done")
  BY <1>1, <1>5, GoodFollows
<1> HIDE DEF N, D, c
<1>7. D[c].state # "done"
  <2>1. self.init_state \in {"fixed_header", "to_size"}
    BY <1>1 DEF Appliers
  <2> QED BY <1>1, <1>6, <2>1 DEF Agrees, Stage
<1>8. c \in 0 .. N - 1 /\ c + 1 \in 0 .. N
  BY <1>2, <1>5, <1>6, <1>7
<1>9. D[c + 1].state # "wrong"
  <2>1. CASE c + 1 = N
    BY <1>3, <2>1
  <2>2. CASE c + 1 \in 0 .. N - 1
    BY <1>3, <2>2 DEF Stuck
  <2> QED BY <1>2, <1>8, <2>1, <2>2
<1>10. D[c] \in Decoders /\ D[c + 1] \in Decoders /\ ~Stuck(From, N - c, D[c])
  BY <1>3, <1>4, <1>5, <1>8
<1> QED BY <1>2, <1>6, <1>7, <1>8, <1>9, <1>10 DEF N, D, c

\* The handler of a size that the decoder does not find wrong does not fail.
LEMMA HandlerGoesOn ==
    ASSUME NEW q \in Appliers, NEW g \in Decoders, Agrees(q, g), q.state \in UnpackStates,
           NEW n \in Int, from_pos = q.from_offset, AfterUnpack(q, n),
           AfterValue(g, n).state # "wrong", failures \in Nat, failures' = 0
    PROVE  self'.state # "failed"
<1>1. /\ g.state = q.state /\ g.to_size = q.to_size
      /\ Len(g.to) = q.to_offset /\ g.from = q.from_offset
  BY DEF Agrees, Stage, UnpackStates
<1>2. Wrong(g).state = "wrong"
  BY DEF Wrong, Decoders
<1>3. CASE q.state = "dfpatch_size"
  <2>1. ~(n > 0)
    BY <1>1, <1>2, <1>3 DEF AfterValue
  <2> QED BY <1>3, <2>1 DEF AfterUnpack, AfterDfpatchSize, Return, Appliers
<1>4. CASE q.state \in {"diff_size", "extra_size"}
  <2>1. ~TooLarge(q, n)
    BY <1>1, <1>2, <1>4 DEF AfterValue, DataNext, TooLarge
  <2>2. \E next \in {"diff_data", "extra_data"} : AfterSize(q, n, next)
    BY <1>4 DEF AfterUnpack
  <2> QED BY <2>1, <2>2 DEF AfterSize, Return, Appliers
<1>5. CASE q.state = "adjustment"
  <2>1. ~(from_pos + n < 0)
    BY <1>1, <1>2, <1>5 DEF AfterValue
  <2>2. AfterAdjustment(q, n)
    BY <1>5 DEF AfterUnpack
  <2>3. /\ q.state # "failed"
        /\ self' = [q EXCEPT !.from_offset = @ + n,
                             !.state = IF q.to_offset = q.to_size THEN "done" ELSE "diff_size"]
    BY <1>5, <2>1, <2>2 DEF AfterAdjustment, Return
  <2> QED BY <2>3 DEF Appliers
<1> QED BY <1>3, <1>4, <1>5 DEF UnpackStates

\* The header does not end before a byte that has none behind it.
LEMMA HeaderAhead ==
    ASSUME patch.bytes \in Seq(Byte), NEW c \in 0 .. Len(patch.bytes) - 1,
           NEW p \in Nat, HeaderSize <= p, \A j \in 2 .. c : More(patch.bytes[j])
    PROVE  c < p
<1> DEFINE N == Len(patch.bytes)
           ends == {k \in 2 .. N : ~More(patch.bytes[k])}
<1>1. N \in Nat
  OBVIOUS
<1>2. CASE ends = {}
  <2>1. HeaderSize = N
    BY <1>2 DEF HeaderSize
  <2> QED BY <1>1, <2>1
<1>3. CASE ends # {}
  <2>1. HeaderSize = CHOOSE k \in ends : \A j \in ends : k <= j
    BY <1>3 DEF HeaderSize
  <2>2. \E k \in ends : \A j \in ends : k <= j
    <3>1. ends \in SUBSET Nat
      BY <1>1
    <3> HIDE DEF ends
    <3> QED BY <1>3, <3>1, LeastElement
  <2>3. HeaderSize \in ends
    BY <2>1, <2>2
  <2>4. HeaderSize \in 2 .. N /\ ~More(patch.bytes[HeaderSize])
    BY <2>3
  <2> HIDE DEF N
  <2>5. HeaderSize \notin 2 .. c
    BY <2>4
  <2> QED BY <1>1, <2>4, <2>5
<1> QED BY <1>2, <1>3

\* An applier that reads the header has more of it in the chunk.
LEMMA HeaderInChunk ==
    ASSUME Complies, patch.good, Smooth, host = "process", self.state = "init"
    PROVE  ChunkAvailable /\ chunk.size = self.patch_offset /\ Consumed = chunk.offset
<1>1. Attached
  BY DEF Attached
<1>2. /\ patch \in Patches /\ patch.bytes \in Seq(Byte)
      /\ self \in Appliers /\ self.patch_offset \in Nat
      /\ self.patch_offset <= Len(patch.bytes)
      /\ Fits(patch.bytes, self, Consumed, Output)
      /\ chunk \in [size : Nat, offset : Nat] /\ chunk.offset <= chunk.size
      /\ Consumed \in Nat /\ Consumed <= self.patch_offset
  BY <1>1, AtWork
<1>3. Consumed \in 0 .. Len(patch.bytes) - 1
  <2> DEFINE N == Len(patch.bytes)
             D == Decoding(From, patch.bytes)
  <2>1. N \in Nat /\ Consumed \in 0 .. N
    BY <1>2
  <2>2. Agrees(self, D[Consumed]) /\ (Consumed = N <=> D[Consumed].state = "done")
    BY <1>2, <2>1, GoodFollows DEF Smooth
  <2> HIDE DEF N, D
  <2>3. D[Consumed].state # "done"
    BY <1>2, <2>2 DEF Agrees, Stage, Appliers
  <2> QED BY <2>1, <2>2, <2>3 DEF N
<1>4. /\ HeaderSize <= self.patch_offset /\ \A j \in 2 .. Consumed : More(patch.bytes[j])
      /\ chunk.size = self.patch_offset
  BY DEF Smooth, InHeader
<1>5. Consumed < self.patch_offset
  BY <1>2, <1>3, <1>4, HeaderAhead
<1>6. chunk.size \in Nat /\ chunk.offset \in Nat
  BY <1>2
<1>7. ChunkAvailable /\ Consumed = chunk.offset
  BY <1>2, <1>4, <1>5, <1>6 DEF Consumed, ChunkAvailable, ChunkLeft
<1> QED BY <1>4, <1>7

\* What a turn leaves of Smooth.
GoesOn ==
    /\ self'.state # "failed" /\ Exact(patch.bytes, self', Consumed')
    /\ self'.state = "init" => /\ self.state = "init" /\ chunk'.size = chunk.size
                               /\ \A j \in 2 .. Consumed' : More(patch.bytes[j])

\* A turn that takes n bytes, from the reader too when it is open.
LEMMA TakenExactly ==
    ASSUME Complies, Inductive, NEW st, Turn(st), NEW n \in 0 .. ChunkLeft, Consume(n),
           self'.patch_offset = self.patch_offset, Exact(patch.bytes, self, Consumed),
           self.reader.open, self'.reader.patch_size = self.reader.patch_size,
           self'.reader.patch_offset = self.reader.patch_offset + n
    PROVE  Exact(patch.bytes, self', Consumed')
<1>1. /\ self \in Appliers /\ Consumed \in Nat /\ ChunkLeft \in Nat
      /\ chunk \in [size : Nat, offset : Nat] /\ chunk.offset <= chunk.size
      /\ chunk.size <= self.patch_offset /\ patch.bytes \in Seq(Byte)
  BY InTurn
<1>2. self.patch_offset \in Nat /\ Len(patch.bytes) \in Nat
  BY <1>1 DEF Appliers
<1>3. Consumed' = Consumed + n
  BY <1>1, <1>2, Consuming
<1>4. self.reader.patch_offset \in Nat /\ self.reader.patch_size \in Int
  BY <1>1, OpenReader
<1>5. self.reader.patch_size - self.reader.patch_offset = Len(patch.bytes) - Consumed
  BY DEF Exact
<1>6. self.reader.patch_size - (self.reader.patch_offset + n)
        = Len(patch.bytes) - (Consumed + n)
  <2> DEFINE s == self.reader.patch_size
             o == self.reader.patch_offset
             N == Len(patch.bytes)
  <2>1. s \in Int /\ o \in Nat /\ N \in Nat /\ n \in Int /\ s - o = N - Consumed
    BY <1>1, <1>2, <1>4, <1>5
  <2> HIDE DEF s, o, N
  <2>2. s - (o + n) = N - (Consumed + n)
    BY <1>1, <2>1
  <2> QED BY <2>2 DEF s, o, N
<1> QED BY <1>3, <1>6 DEF Exact

\* So does one that takes nothing.
LEMMA NothingTaken ==
    ASSUME Complies, Inductive, NEW st, Turn(st), st \notin {"init", "failed"}, UNCHANGED chunk,
           self'.patch_offset = self.patch_offset, self'.reader = self.reader,
           self'.state \notin {"init", "failed"}, Exact(patch.bytes, self, Consumed)
    PROVE  GoesOn
<1>1. Consumed' = Consumed
  BY DEF Consumed, ChunkLeft
<1> QED BY <1>1 DEF GoesOn, Exact

\* The turns for the sizes.
LEMMA UnpackSizeGoesOn ==
    ASSUME Complies, Inductive, patch.good, Smooth, failures \in Nat, failures' = 0,
           NEW st \in UnpackStates, UnpackSize(st)
    PROVE  GoesOn
<1> DEFINE N == Len(patch.bytes)
           D == Decoding(From, patch.bytes)
           d == D[Consumed]
           byte == ChunkByte(1)
           size == SizeAfter(self.reader.size, byte)
<1>1. Turn(st) /\ st \notin {"init", "done", "failed"}
  BY DEF UnpackSize, UnpackStates
<1>2. /\ patch.bytes \in Seq(Byte) /\ Consumed \in Nat /\ ChunkLeft \in Nat
      /\ self.state = st /\ self \in Appliers /\ Proper(patch.bytes, self, Consumed)
      /\ Consumed + ChunkLeft <= N /\ from_pos = self.from_offset
  BY <1>1, InTurn
<1>3. /\ N \in Nat /\ Consumed \in 0 .. N - 1 /\ d \in Decoders
      /\ Agrees(self, d) /\ D[Consumed + 1].state # "wrong"
  BY <1>1, SoundTurn
<1>4. Exact(patch.bytes, self, Consumed) /\ self.reader.open
  BY <1>1, <1>2 DEF Smooth, Proper
<1>5. self.reader.patch_offset \in Nat /\ self.reader.patch_size \in Int
      /\ self.reader.size \in Sizes
  BY <1>2, <1>4, OpenReader
<1>6. ~PatchEnds(1)
  BY <1>3, <1>4, <1>5 DEF PatchEnds, Exact
<1>7. CASE ~ChunkAvailable
  <2>1. self' = self /\ UNCHANGED chunk
    BY <1>6, <1>7 DEF UnpackSize, Return
  <2> QED BY <1>1, <1>2, <1>4, <2>1, NothingTaken
<1>8. CASE ChunkAvailable
  <2>1. /\ 1 \in 0 .. ChunkLeft /\ byte \in Byte
        /\ D[Consumed + 1] = AfterByte(From, d, byte)
    BY <1>2, <1>8, NextByte
  <2>2. Consume(1)
    BY <1>6, <1>8 DEF UnpackSize
  <2> HIDE DEF D, N, d, byte
  <2>3. ~Overflow(self.reader.size)
    <3>1. d.state = st /\ d.size = self.reader.size
      BY <1>1, <1>2, <1>3 DEF Agrees, Stage, UnpackStates
    <3>2. Wrong(d).state = "wrong"
      BY <1>3 DEF Wrong, Decoders
    <3> QED BY <1>3, <2>1, <3>1, <3>2 DEF AfterByte, SizeByte, UnpackStates
  <2>4. FirstSize \in Sizes /\ size \in Sizes
    BY <1>5, <2>1, SizeTypes
  <2> HIDE DEF size
  <2>5. ASSUME NEW z \in Sizes, self'.reader = ReadByte(self, z).reader,
               self'.state \notin {"init", "failed"}, self'.patch_offset = self.patch_offset
        PROVE  GoesOn
    <3>1. /\ self'.reader.patch_size = self.reader.patch_size
          /\ self'.reader.patch_offset = self.reader.patch_offset + 1
      BY <1>2, <1>4, <2>5, ReadByteFields
    <3>2. Exact(patch.bytes, self', Consumed')
      BY <1>1, <1>4, <2>1, <2>2, <2>5, <3>1, TakenExactly
    <3> QED BY <2>5, <3>2 DEF GoesOn
  <2>6. CASE More(byte)
    <3>1. self' = ReadByte(self, size)
      BY <1>6, <1>8, <2>3, <2>6 DEF UnpackSize, Return, ReadByte, byte, size
    <3>2. ReadByte(self, size) = [self EXCEPT !.reader = ReadByte(self, size).reader]
      BY <1>2, <1>4, <2>4, ReadByteFields
    <3>3. self'.state = st /\ self'.patch_offset = self.patch_offset
      BY <1>2, <3>1, <3>2 DEF Appliers
    <3> QED BY <1>1, <2>4, <2>5, <3>1, <3>3
  <2>7. CASE ~More(byte)
    <3> DEFINE q == ReadByte(self, FirstSize)
               n == SizeValue(size)
               g == [d EXCEPT !.size = FirstSize]
    <3>1. AfterUnpack(q, n)
      BY <1>6, <1>8, <2>3, <2>7 DEF UnpackSize, Return, ReadByte, byte, size
    <3>2. /\ n \in Int /\ g \in Decoders /\ Agrees(q, g)
          /\ D[Consumed + 1] = AfterValue(g, n)
      BY <1>2, <1>3, <1>4, <2>1, <2>3, <2>7, LastByte DEF size
    <3>3. q \in Appliers /\ q = [self EXCEPT !.reader = q.reader]
      BY <1>2, <1>4, <2>4, ReadByteFields
    <3>4. q.reader = ReadByte(self, FirstSize).reader
      OBVIOUS
    <3> HIDE DEF q, n, g
    <3>5. /\ q.state = st /\ q.patch_offset = self.patch_offset
          /\ q.from_offset = self.from_offset /\ q.chunk_size = self.chunk_size
          /\ q.to_offset = self.to_offset /\ q.to_size = self.to_size
      BY <1>2, <3>3 DEF Appliers
    <3>6. self'.state # "failed"
      BY <1>2, <1>3, <3>1, <3>2, <3>3, <3>5, HandlerGoesOn
    <3>7. q.chunk_size >= 0 => q.to_offset + q.chunk_size <= q.to_size
      BY <1>2, <3>5 DEF Proper
    <3>8. Handled(q, AfterValue(g, n))
      BY <1>2, <3>1, <3>2, <3>3, <3>5, <3>7, HandlerAgrees
    <3> QED BY <2>4, <2>5, <3>4, <3>5, <3>6, <3>8 DEF Handled
  <2> QED BY <2>6, <2>7
<1> QED BY <1>7, <1>8

\* A block of data of a good patch is in the rest of it, and of the old image.
LEMMA DataAhead ==
    ASSUME Complies, Inductive, patch.good, Smooth, NEW st \in DataStates, Turn(st)
    PROVE  /\ Wanted \in Nat /\ ~PatchEnds(Wanted) /\ Wanted <= self.chunk_size
           /\ st = "diff_data" /\ Wanted > 0 => from_pos + Wanted <= Len(From)
<1> DEFINE N == Len(patch.bytes)
           D == Decoding(From, patch.bytes)
           d == D[Consumed]
<1>1. st \notin {"init", "done", "failed"}
  BY DEF DataStates
<1>2. /\ patch.bytes \in Seq(Byte) /\ Consumed \in Nat
      /\ self.state = st /\ self \in Appliers /\ Proper(patch.bytes, self, Consumed)
      /\ from_pos = self.from_offset /\ from_pos \in Nat
  BY <1>1, InTurn
<1>3. /\ N \in Nat /\ Consumed \in 0 .. N - 1 /\ d \in Decoders
      /\ Agrees(self, d) /\ ~Stuck(From, N - Consumed, d)
  BY <1>1, SoundTurn
<1>4. Exact(patch.bytes, self, Consumed) /\ self.reader.open
  BY <1>1, <1>2 DEF Smooth, Proper
<1>5. self.reader.patch_offset \in Nat /\ self.reader.patch_size \in Int
  BY <1>2, <1>4, OpenReader
<1> DEFINE l == self.chunk_size
           o == self.reader.patch_offset
           s == self.reader.patch_size
<1>6. l \in Int /\ s - o = N - Consumed /\ BufferSize \in Nat \ {0} /\ Len(From) \in Nat
  BY <1>2, <1>4, ApplyPatchAssumption DEF Appliers, Exact
<1>7. Wanted = IF l < 0 THEN BufferSize ELSE MinOf(BufferSize, l)
  BY DEF Wanted
<1>8. PatchEnds(Wanted) <=> o + Wanted > s
  BY DEF PatchEnds
<1>9. l # 0 => l \in 1 .. N - Consumed /\ (st = "diff_data" => from_pos + l <= Len(From))
  <2>1. l # 0 => d.state = st /\ d.left = l /\ d.from = from_pos
    BY <1>2, <1>3 DEF Agrees, Stage, DataStates
  <2>2. l # 0 => l \in 1 .. N - Consumed /\ (st = "diff_data" => ~(from_pos + l > Len(From)))
    BY <1>3, <2>1 DEF Stuck
  <2> QED BY <1>2, <1>6, <2>2
<1> HIDE DEF l, o, s, N, d
<1>10. Wanted \in Nat /\ Wanted <= l
  BY <1>6, <1>7, <1>9 DEF MinOf
<1>11. ~(o + Wanted > s)
  BY <1>3, <1>5, <1>6, <1>9, <1>10 DEF o, s
<1>12. st = "diff_data" /\ Wanted > 0 => from_pos + Wanted <= Len(From)
  BY <1>2, <1>6, <1>9, <1>10
<1> QED BY <1>8, <1>10, <1>11, <1>12 DEF l

\* The turns for data.
LEMMA DataEndGoesOn ==
    ASSUME Complies, Inductive, patch.good, Smooth, NEW st \in DataStates,
           NEW next \in {"extra_size", "adjustment"}, DataEnd(st, next)
    PROVE  GoesOn
<1>1. Turn(st) /\ UNCHANGED chunk /\ st \notin {"init", "failed"}
  BY DEF DataEnd, DataStates
<1>2. self \in Appliers /\ self.state = st
  BY <1>1, InTurn
<1>3. ~PatchEnds(Wanted)
  BY <1>1, DataAhead
<1>4. self' = self \/ self' = [self EXCEPT !.state = next]
  BY <1>3 DEF DataEnd, Return
<1>5. /\ self'.state \in {st, next} /\ self'.reader = self.reader
      /\ self'.patch_offset = self.patch_offset
  BY <1>2, <1>4 DEF Appliers
<1> QED BY <1>1, <1>5, NothingTaken DEF Smooth

LEMMA DataGoesOn ==
    ASSUME Complies, Inductive, patch.good, Smooth, failures \in Nat, failures' = 0,
           DiffData \/ ExtraData
    PROVE  GoesOn
<1> DEFINE n == Delivered
<1>1. PICK st \in DataStates : Readable(st) /\ (st = "diff_data" <=> DiffData)
  <2>1. DiffData => Readable("diff_data") /\ "diff_data" \in DataStates
    BY DEF DiffData, DataStates
  <2>2. ExtraData => Readable("extra_data") /\ "extra_data" \in DataStates
    BY DEF ExtraData, DataStates
  <2>3. DiffData => ~ExtraData
    BY DEF DiffData, ExtraData, Readable, Turn
  <2> QED BY <2>1, <2>2, <2>3
<1>2. Turn(st) /\ Wanted > 0 /\ st \notin {"init", "failed"}
  BY <1>1 DEF Readable, DataStates
<1>3. /\ self \in Appliers /\ self.state = st /\ Proper(patch.bytes, self, Consumed)
      /\ from_pos \in Nat /\ ChunkLeft \in Nat
  BY <1>2, InTurn
<1>4. n \in 1 .. ChunkLeft
  BY <1>1, DeliveredSize
<1>5. /\ Wanted \in Nat /\ n <= Wanted
      /\ DiffData => from_pos + Wanted <= Len(From)
  <2>1. Wanted \in Nat /\ (DiffData => from_pos + Wanted <= Len(From))
    BY <1>1, <1>2, DataAhead
  <2> QED BY <1>3, <2>1 DEF Delivered, MinOf
<1>6. n \in Nat /\ n \in 0 .. ChunkLeft /\ Consume(n)
  BY <1>3, <1>4 DEF DiffData, ExtraData
<1>7. DiffData => ~(from_pos + n > Len(From))
  <2>1. Len(From) \in Nat
    BY ApplyPatchAssumption
  <2> HIDE DEF n
  <2> QED BY <1>3, <1>5, <1>6, <2>1
<1> HIDE DEF n
<1>8. \E v : self' = Written([Taken(n) EXCEPT !.from_offset = v], n)
  <2>1. failures' # failures + 1
    OBVIOUS
  <2>2. CASE DiffData
    <3>1. \E data : Write(Written([Taken(n) EXCEPT !.from_offset = @ + n], n), data)
      BY <1>7, <2>1, <2>2 DEF DiffData, n
    <3>2. self' = Written([Taken(n) EXCEPT !.from_offset = @ + n], n)
      BY <2>1, <3>1 DEF Write, Fails, Return
    <3>3. \E v : [Taken(n) EXCEPT !.from_offset = @ + n] = [Taken(n) EXCEPT !.from_offset = v]
      OBVIOUS
    <3> QED BY <3>2, <3>3
  <2>3. CASE ExtraData
    <3>1. \E data : Write(Written(Taken(n), n), data)
      BY <2>3 DEF ExtraData, n
    <3>2. self' = Written(Taken(n), n)
      BY <2>1, <3>1 DEF Write, Fails, Return
    <3>3. Taken(n) = [Taken(n) EXCEPT !.from_offset = Taken(n).from_offset]
      BY <1>3 DEF Taken, Appliers
    <3> QED BY <3>2, <3>3
  <2> QED BY <2>2, <2>3
<1>9. Exact(patch.bytes, self, Consumed) /\ self.reader.open
  BY <1>2, <1>3 DEF Smooth, Proper
<1>10. /\ self'.state = st /\ self'.patch_offset = self.patch_offset
       /\ self'.reader = [self.reader EXCEPT !.patch_offset = @ + n]
  BY <1>3, <1>8 DEF Written, Taken, Appliers
<1>11. /\ self'.reader.patch_size = self.reader.patch_size
       /\ self'.reader.patch_offset = self.reader.patch_offset + n
  <2>1. self.reader \in [open : {TRUE}, patch_size : Int, patch_offset : Nat, size : Sizes]
    BY <1>3, <1>9, OpenReader
  <2> DEFINE w == self.reader
  <2> HIDE DEF w
  <2>2. w \in [open : {TRUE}, patch_size : Int, patch_offset : Nat, size : Sizes]
    BY <2>1 DEF w
  <2> DEFINE v == [w EXCEPT !.patch_offset = @ + n]
  <2>3. v.patch_size = w.patch_size /\ v.patch_offset = w.patch_offset + n
    BY <2>2
  <2> QED BY <1>10, <2>3 DEF w
<1>12. Exact(patch.bytes, self', Consumed')
  BY <1>2, <1>6, <1>9, <1>10, <1>11, TakenExactly
<1> QED BY <1>2, <1>10, <1>12 DEF GoesOn

\* The turns for the header.
LEMMA FixedHeaderGoesOn ==
    ASSUME Complies, Inductive, patch.good, Smooth, host = "process", FixedHeader
    PROVE  GoesOn
<1> DEFINE N == Len(patch.bytes)
           D == Decoding(From, patch.bytes)
           d == D[Consumed]
           byte == ChunkByte(1)
<1>1. Turn("init") /\ self.init_state = "fixed_header"
  BY DEF FixedHeader
<1>2. /\ patch.bytes \in Seq(Byte) /\ Consumed \in Nat /\ ChunkLeft \in Nat
      /\ self.state = "init" /\ self \in Appliers /\ Proper(patch.bytes, self, Consumed)
      /\ Fits(patch.bytes, self, Consumed, Output) /\ Consumed + ChunkLeft <= N
      /\ chunk \in [size : Nat, offset : Nat] /\ chunk.offset <= chunk.size
      /\ chunk.size <= self.patch_offset
  BY <1>1, InTurn
<1>3. /\ d \in Decoders /\ Agrees(self, d) /\ D[Consumed + 1].state # "wrong"
  BY <1>1, SoundTurn
<1>4. ChunkAvailable
  BY <1>2, HeaderInChunk
<1>5. 1 \in 0 .. ChunkLeft /\ D[Consumed + 1] = AfterByte(From, d, byte)
  BY <1>2, <1>4, NextByte
<1>6. Consume(1)
  BY <1>4 DEF FixedHeader
<1> HIDE DEF D, N, d, byte
<1>7. d.state = "fixed_header"
  BY <1>1, <1>2, <1>3 DEF Agrees, Stage
<1>8. PatchType(byte) = 0
  <2>1. Wrong(d).state = "wrong"
    BY <1>3 DEF Wrong, Decoders
  <2> QED BY <1>3, <1>5, <1>7, <2>1 DEF AfterByte
<1>9. self' = [self EXCEPT !.init_state = "to_size", !.size = FirstSize]
  BY <1>4, <1>8 DEF FixedHeader, Return, byte
<1>10. /\ self'.state = "init" /\ self'.reader = self.reader
       /\ self'.patch_offset = self.patch_offset /\ self.patch_offset \in Nat
  BY <1>2, <1>9 DEF Appliers
<1>11. chunk'.size = chunk.size
  BY <1>2, <1>6 DEF Consume
<1>12. Consumed' = Consumed + 1
  BY <1>2, <1>5, <1>6, <1>10, Consuming
<1>13. Consumed = 0
  BY <1>1, <1>2 DEF Fits
<1>14. \A j \in 2 .. Consumed' : FALSE
  BY <1>12, <1>13
<1>15. ~self'.reader.open
  BY <1>2, <1>10 DEF Proper
<1>16. \A j \in 2 .. Consumed' : More(patch.bytes[j])
  BY <1>14
<1> QED BY <1>2, <1>10, <1>11, <1>15, <1>16 DEF GoesOn, Exact

LEMMA ToSizeGoesOn ==
    ASSUME Complies, Inductive, patch.good, Smooth, host = "process", ToSize
    PROVE  GoesOn
<1> DEFINE N == Len(patch.bytes)
           D == Decoding(From, patch.bytes)
           d == D[Consumed]
           byte == ChunkByte(1)
<1>1. Turn("init") /\ self.init_state = "to_size"
  BY DEF ToSize
<1>2. /\ patch.bytes \in Seq(Byte) /\ Consumed \in Nat /\ ChunkLeft \in Nat
      /\ self.state = "init" /\ self \in Appliers /\ Proper(patch.bytes, self, Consumed)
      /\ Fits(patch.bytes, self, Consumed, Output) /\ Consumed + ChunkLeft <= N
      /\ chunk \in [size : Nat, offset : Nat] /\ chunk.offset <= chunk.size
      /\ chunk.size <= self.patch_offset
  BY <1>1, InTurn
<1>3. /\ d \in Decoders /\ Agrees(self, d) /\ D[Consumed + 1].state # "wrong"
      /\ ~Undecided(patch.bytes, self) /\ N \in Nat /\ Consumed \in 0 .. N - 1
  BY <1>1, SoundTurn
<1>4. ChunkAvailable /\ Consumed = chunk.offset
  BY <1>2, HeaderInChunk
<1>5. /\ 1 \in 0 .. ChunkLeft /\ D[Consumed + 1] = AfterByte(From, d, byte)
      /\ byte = patch.bytes[Consumed + 1]
  BY <1>2, <1>4, NextByte
<1>6. Consume(1)
  BY <1>4 DEF ToSize
<1> HIDE DEF D, d, byte
<1>7. d.state = "to_size" /\ d.size = self.size
  BY <1>1, <1>2, <1>3 DEF Agrees, Stage
<1>8. ~Overflow(self.size)
  <2>1. Wrong(d).state = "wrong"
    BY <1>3 DEF Wrong, Decoders
  <2> QED BY <1>3, <1>5, <1>7, <2>1 DEF AfterByte, SizeByte
<1>9. Compression = 0
  BY <1>1, <1>2, <1>3 DEF Undecided, Compression
<1>10. chunk'.size = chunk.size
  BY <1>2, <1>6 DEF Consume
<1>11. self'.patch_offset = self.patch_offset => Consumed' = Consumed + 1
  <2>1. self.patch_offset \in Nat
    BY <1>2 DEF Appliers
  <2> QED BY <1>2, <1>5, <1>6, <2>1, Consuming
<1>12. CASE More(byte)
  <2>1. self' = [self EXCEPT !.size = SizeAfter(self.size, byte)]
    BY <1>4, <1>8, <1>12 DEF ToSize, Return, byte
  <2>2. /\ self'.state = "init" /\ self'.reader = self.reader
        /\ self'.patch_offset = self.patch_offset
    BY <1>2, <2>1 DEF Appliers
  <2>3. \A j \in 2 .. Consumed : More(patch.bytes[j])
    BY <1>2 DEF Smooth, InHeader
  <2>4. \A j \in 2 .. Consumed' : More(patch.bytes[j])
    BY <1>2, <1>5, <1>11, <1>12, <2>2, <2>3
  <2>5. ~self'.reader.open
    BY <1>2, <2>2 DEF Proper
  <2> QED BY <1>2, <1>10, <2>2, <2>4, <2>5 DEF GoesOn, Exact
<1>13. CASE ~More(byte)
  <2> DEFINE left == N - chunk.offset - 1
             v == SizeAfter(self.size, byte).value
             q == [self EXCEPT !.to_size = v, !.reader = Reader(left)]
  <2>1. self' = AfterToSize(q)
    BY <1>4, <1>8, <1>9, <1>13 DEF ToSize, Return, byte
  <2>2. /\ self'.state \in {"dfpatch_size", "done"} /\ self'.reader = Reader(left)
        /\ self'.patch_offset = self.patch_offset
    BY <1>2, <2>1 DEF AfterToSize, Appliers
  <2>3. /\ self'.reader.patch_size = left /\ self'.reader.patch_offset = 0
    BY <2>2 DEF Reader
  <2>4. left - 0 = N - (Consumed + 1)
    BY <1>3, <1>4
  <2>5. Exact(patch.bytes, self', Consumed')
    BY <1>11, <2>2, <2>3, <2>4 DEF Exact
  <2> QED BY <2>2, <2>5 DEF GoesOn
<1> QED BY <1>12, <1>13

\* No turn changes how much of the patch the applier was given.
LEMMA OffsetStays ==
    ASSUME Complies, Inductive, ProcessOnce
    PROVE  self'.patch_offset = self.patch_offset
<1>1. PICK st : Turn(st)
  BY DEF ProcessOnce, FixedHeader, ToSize, DfpatchSize, DiffSize, ExtraSize, Adjustment,
         UnpackSize, DiffData, ExtraData, Readable, DiffEnd, ExtraEnd, DataEnd, AlreadyDone,
         AlreadyFailed
<1>2. self \in Appliers
  BY <1>1, InTurn
<1>3. CASE FixedHeader \/ ToSize
  BY <1>2, <1>3 DEF FixedHeader, ToSize, Return, Failed, AfterToSize, Appliers
<1>4. CASE DfpatchSize \/ DiffSize \/ ExtraSize \/ Adjustment
  <2>1. PICK s \in UnpackStates : UnpackSize(s)
    BY <1>4 DEF DfpatchSize, DiffSize, ExtraSize, Adjustment, UnpackStates
  <2>2. \A z : LET q == ReadByte(self, z)
               IN  q.patch_offset = self.patch_offset /\ DOMAIN q = DOMAIN self
    BY DEF ReadByte, Appliers
  <2>3. ASSUME NEW q, q.patch_offset = self.patch_offset, DOMAIN q = DOMAIN self,
               self' = Failed(q) \/ self' = q \/ \E n : AfterUnpack(q, n),
               q.state \in UnpackStates
        PROVE  self'.patch_offset = self.patch_offset
    <3>1. \/ self' = Failed(q) \/ self' = q
          \/ \E a, b : self' = [q EXCEPT !.state = a, !.chunk_size = b]
          \/ \E a : self' = [q EXCEPT !.state = a]
          \/ \E a, b : self' = [q EXCEPT !.from_offset = a, !.state = b]
      BY <2>3 DEF AfterUnpack, AfterDfpatchSize, AfterSize, AfterAdjustment, Return, UnpackStates
    <3>2. "patch_offset" \in DOMAIN q
      BY <1>2, <2>3 DEF Appliers
    <3> QED BY <2>3, <3>1, <3>2 DEF Failed
  <2>4. \A z : ReadByte(self, z).state = self.state
    BY <1>2 DEF ReadByte, Appliers
  <2>5. self.state \in UnpackStates
    BY <2>1 DEF UnpackSize, Turn
  <2>6. \/ self' = Failed(self) \/ self' = self
        \/ \E z : \/ self' = Failed(ReadByte(self, z)) \/ self' = ReadByte(self, z)
                  \/ \E n : AfterUnpack(ReadByte(self, z), n)
    BY <2>1 DEF UnpackSize, Return, ReadByte
  <2>7. Failed(self).patch_offset = self.patch_offset
    BY <1>2 DEF Failed, Appliers
  <2> QED BY <2>2, <2>3, <2>4, <2>5, <2>6, <2>7
<1>5. CASE DiffData \/ ExtraData
  BY <1>2, <1>5 DEF DiffData, ExtraData, Write, Written, Taken, Return, Failed, Appliers
<1>6. CASE DiffEnd \/ ExtraEnd \/ AlreadyDone \/ AlreadyFailed
  BY <1>2, <1>6 DEF DiffEnd, ExtraEnd, DataEnd, AlreadyDone, AlreadyFailed, Return, Failed,
                    Appliers
<1> QED BY <1>3, <1>4, <1>5, <1>6 DEF ProcessOnce

\* Every turn goes on, as long as finalize is called at the end of the patch.
LEMMA ProcessOnceGoesOn ==
    ASSUME Complies, Inductive, patch.good, Smooth, failures \in Nat, failures' = 0,
           ProcessOnce, host = "finalize" => self.patch_offset = Len(patch.bytes)
    PROVE  /\ GoesOn
           /\ host = "finalize" => res' = "ALREADY_DONE"
<1>1. CASE AlreadyDone \/ AlreadyFailed
  <2>1. Turn("done") /\ UNCHANGED <<self, chunk>> /\ res' = "ALREADY_DONE"
    BY <1>1 DEF AlreadyDone, AlreadyFailed, Turn, Smooth, Return
  <2>2. self.state = "done"
    BY <2>1, InTurn
  <2> QED BY <2>1, <2>2, NothingTaken DEF Smooth
<1>2. CASE ~(AlreadyDone \/ AlreadyFailed)
  <2>1. PICK st : Turn(st) /\ st \notin {"done", "failed"}
    BY <1>2 DEF ProcessOnce, FixedHeader, ToSize, DfpatchSize, DiffSize, ExtraSize,
                Adjustment, UnpackSize, DiffData, ExtraData, Readable, DiffEnd, ExtraEnd,
                DataEnd
  <2>2. host = "process"
    <3>1. host \in {"process", "finalize"} /\ Attached
      BY <2>1, TurnInCall
    <3>2. Consumed \in 0 .. Len(patch.bytes) - 1 /\ Len(patch.bytes) \in Nat
      BY <2>1, SoundTurn
    <3>3. host = "finalize" => chunk.size = 0 /\ chunk.offset = 0
      BY DEF Complies, Calls, NoChunk
    <3>4. host = "finalize" => Consumed = self.patch_offset
      <4>1. self.patch_offset \in Nat
        BY <3>1, AtWork
      <4> QED BY <3>3, <4>1 DEF Consumed, ChunkLeft
    <3> QED BY <3>1, <3>2, <3>4
  <2>3. CASE DfpatchSize \/ DiffSize \/ ExtraSize \/ Adjustment
    BY <2>2, <2>3, UnpackSizeGoesOn DEF DfpatchSize, DiffSize, ExtraSize, Adjustment,
                                        UnpackStates
  <2>4. CASE DiffEnd \/ ExtraEnd
    BY <2>2, <2>4, DataEndGoesOn DEF DiffEnd, ExtraEnd, DataStates
  <2> QED BY <1>2, <2>2, <2>3, <2>4, DataGoesOn, FixedHeaderGoesOn, ToSizeGoesOn
             DEF ProcessOnce
<1> QED BY <1>1, <1>2

LEMMA ProcessOnceAccepting ==
    ASSUME Complies, Inductive, Accepting, ProcessOnce
    PROVE  Accepting'
<1>1. /\ UNCHANGED <<patch, dumped, host, crashes>>
      /\ failures' \in {failures, failures + 1}
  <2>1. CASE FixedHeader \/ ToSize
    BY <2>1 DEF FixedHeader, ToSize, storage, faults
  <2>2. CASE DfpatchSize \/ DiffSize \/ ExtraSize \/ Adjustment
    <3>1. PICK s \in UnpackStates : UnpackSize(s)
      BY <2>2 DEF DfpatchSize, DiffSize, ExtraSize, Adjustment, UnpackStates
    <3>2. UNCHANGED <<patch, dumped, host, crashes>>
      BY <3>1 DEF UnpackSize, storage
    <3>3. self.state = s
      BY <3>1 DEF UnpackSize, Turn
    <3>4. \A z : ReadByte(self, z).state = s
      <4>1. self \in Appliers
        BY <3>1, InTurn DEF UnpackSize
      <4> QED BY <3>3, <4>1 DEF ReadByte, Appliers
    <3>5. failures' = failures \/ \E z, n : AfterUnpack(ReadByte(self, z), n)
      BY <3>1 DEF UnpackSize, ReadByte
    <3>6. ASSUME NEW q, NEW n, q.state \in UnpackStates, AfterUnpack(q, n)
          PROVE  failures' \in {failures, failures + 1}
      BY <3>6 DEF AfterUnpack, AfterDfpatchSize, AfterSize, AfterAdjustment, UnpackStates
    <3> QED BY <3>2, <3>4, <3>5, <3>6
  <2>3. CASE DiffData \/ ExtraData
    BY <2>3 DEF DiffData, ExtraData, Write, Fails
  <2>4. CASE DiffEnd \/ ExtraEnd \/ AlreadyDone \/ AlreadyFailed
    BY <2>4 DEF DiffEnd, ExtraEnd, DataEnd, AlreadyDone, AlreadyFailed, storage, faults
  <2> QED BY <2>1, <2>2, <2>3, <2>4 DEF ProcessOnce
<1>2. crashes' \in Nat /\ failures' \in Nat /\ (failures' = 0 => failures = 0)
  BY <1>1 DEF Accepting, Underway
<1>3. self'.patch_offset = self.patch_offset /\ HeaderSize' = HeaderSize
  BY <1>1, OffsetStays DEF HeaderSize
<1>4. host \in {"process", "finalize"} /\ Attached
  BY TurnInCall DEF ProcessOnce, FixedHeader, ToSize, DfpatchSize, DiffSize, ExtraSize,
     Adjustment, UnpackSize, DiffData, ExtraData, Readable, DiffEnd, ExtraEnd, DataEnd,
     AlreadyDone, AlreadyFailed
<1>5. ASSUME patch.good, failures' = 0, host = "finalize" => self.patch_offset = Len(patch.bytes)
      PROVE  Smooth' /\ (host = "finalize" => res' = "ALREADY_DONE")
  <2>1. Smooth
    BY <1>2, <1>4, <1>5 DEF Accepting, Underway
  <2>2. GoesOn /\ (host = "finalize" => res' = "ALREADY_DONE")
    BY <1>2, <1>5, <2>1, ProcessOnceGoesOn DEF Accepting, Underway
  <2>3. CASE self'.state # "init"
    BY <1>1, <2>2, <2>3 DEF GoesOn, Smooth
  <2>4. CASE self'.state = "init"
    <3>1. self.state = "init"
      BY <2>2, <2>4 DEF GoesOn
    <3>2. host = "process" /\ InHeader
      BY <1>4, <2>1, <3>1 DEF Smooth
    <3>3. InHeader'
      BY <1>1, <1>3, <2>2, <2>4, <3>2 DEF InHeader, GoesOn
    <3> QED BY <1>1, <2>2, <3>2, <3>3 DEF GoesOn, Smooth
  <2> QED BY <2>2, <2>3, <2>4
<1> QED BY <1>1, <1>2, <1>3, <1>4, <1>5 DEF Accepting, Underway, Exact

\* Where an applier is that goes on.
LEMMA SmoothPlace ==
    ASSUME Complies, Attached, patch.good, Smooth
    PROVE  /\ Len(patch.bytes) \in Nat \ {0} /\ Consumed \in 0 .. Len(patch.bytes)
           /\ self.patch_offset \in 0 .. Len(patch.bytes)
           /\ self.state = "done" <=> Consumed = Len(patch.bytes)
           /\ self.state = "done" => self.patch_offset = Len(patch.bytes)
           /\ host \in {"ready", "dump"} => Consumed = self.patch_offset
<1> DEFINE N == Len(patch.bytes)
           D == Decoding(From, patch.bytes)
<1>1. /\ patch \in Patches /\ patch.bytes \in Seq(Byte)
      /\ self \in Appliers /\ self.patch_offset \in Nat
      /\ self.patch_offset <= N /\ Fits(patch.bytes, self, Consumed, Output)
      /\ Consumed \in Nat /\ Consumed <= self.patch_offset
  BY AtWork
<1>2. N \in Nat /\ Consumed \in 0 .. N /\ self.patch_offset \in 0 .. N
  BY <1>1
<1>3. Agrees(self, D[Consumed]) /\ N # 0 /\ (Consumed = N <=> D[Consumed].state = "done")
  BY <1>1, <1>2, GoodFollows DEF Smooth
<1> HIDE DEF N, D
<1>4. self.state = "done" <=> D[Consumed].state = "done"
  BY <1>1, <1>3 DEF Agrees, Stage, Appliers
<1>5. self.state = "done" => self.patch_offset = N
  BY <1>1, <1>2, <1>3, <1>4
<1>6. host \in {"ready", "dump"} => Consumed = self.patch_offset
  <2>1. CASE self.state = "done"
    BY <1>3, <1>4, <1>5, <2>1
  <2>2. CASE self.state # "done"
    BY <2>2, BetweenCalls DEF Smooth
  <2> QED BY <2>1, <2>2
<1> QED BY <1>2, <1>3, <1>4, <1>5, <1>6 DEF N

\* The calls of the host.
LEMMA ProcessAccepting ==
    ASSUME Complies, Accepting, HeaderWhole, Process
    PROVE  Accepting'
<1> DEFINE p == self.patch_offset
<1>1. PICK size \in 1 .. Len(patch.bytes) - p :
        /\ HeaderWhole /\ patch.good => p + size >= HeaderSize
        /\ self' = [self EXCEPT !.patch_offset = @ + size]
        /\ chunk' = [size |-> size, offset |-> 0]
  BY DEF Process
<1>2. /\ host \in {"ready", "error"} /\ host' = "process" /\ Attached
      /\ UNCHANGED <<storage, faults, from_pos>>
  BY DEF Process, Attached
<1>3. self \in Appliers /\ patch.bytes \in Seq(Byte)
  BY <1>2, AtWork
<1>4. ASSUME patch.good, failures = 0 PROVE Smooth'
  <2>1. Smooth /\ host = "ready"
    BY <1>2, <1>4 DEF Accepting, Underway
  <2>2. /\ Len(patch.bytes) \in Nat \ {0} /\ p \in 0 .. Len(patch.bytes) /\ Consumed = p
    BY <1>2, <1>4, <2>1, SmoothPlace
  <2>3. size \in Nat \ {0} /\ p + size \in Nat
    BY <2>2
  <2>4. /\ self'.state = self.state /\ self'.reader = self.reader
        /\ self'.patch_offset = p + size
    BY <1>1, <1>3 DEF Appliers
  <2>5. chunk'.size = size /\ chunk'.offset = 0
    BY <1>1
  <2>6. Consumed' = p
    BY <2>2, <2>3, <2>4, <2>5 DEF Consumed, ChunkLeft
  <2>7. Exact(patch.bytes, self', Consumed')
    BY <2>1, <2>2, <2>4, <2>6 DEF Smooth, Exact
  <2>8. self'.state = "init" => InHeader'
    <3> SUFFICES ASSUME self'.state = "init" PROVE InHeader'
      OBVIOUS
    <3>1. p = 0
      BY <2>1, <2>4 DEF Smooth, InHeader
    <3>2. HeaderSize' = HeaderSize /\ HeaderSize <= p + size
      BY <1>1, <1>2, <1>4 DEF HeaderSize, storage
    <3>3. \A j \in 2 .. Consumed' : FALSE
      BY <2>6, <3>1
    <3>4. p + size = size
      BY <2>3, <3>1
    <3> QED BY <1>2, <2>4, <2>5, <3>2, <3>3, <3>4 DEF InHeader
  <2> QED BY <1>2, <2>1, <2>4, <2>7, <2>8 DEF Smooth, storage
<1> QED BY <1>2, <1>4 DEF Accepting, Underway, storage, faults

LEMMA ReturnProcessAccepting ==
    ASSUME Complies, Accepting, ReturnProcess
    PROVE  Accepting'
<1>1. /\ host = "process" /\ host' \in {"error", "ready"} /\ Attached
      /\ (IsError(res) /\ res # "ALREADY_DONE") <=> host' = "error"
      /\ IsError(res) \/ ~ChunkAvailable
      /\ UNCHANGED <<storage, faults, self, chunk>>
  BY DEF ReturnProcess, Attached
<1>2. ASSUME patch.good, failures = 0 PROVE Smooth' /\ host' = "ready"
  <2>1. Smooth
    BY <1>1, <1>2 DEF Accepting, Underway
  <2>2. host' = "ready"
    BY <1>1, <2>1 DEF Complies, Calls, Smooth
  <2>3. self.state # "init"
    <3>1. CASE IsError(res)
      BY <1>1, <2>2, <3>1 DEF Complies, Calls
    <3>2. CASE ~ChunkAvailable
      BY <1>1, <1>2, <2>1, <3>2, HeaderInChunk
    <3> QED BY <1>1, <3>1, <3>2
  <2>4. Consumed' = Consumed
    BY <1>1 DEF Consumed, ChunkLeft
  <2> QED BY <1>1, <2>1, <2>2, <2>3, <2>4 DEF Smooth, Exact, storage
<1> QED BY <1>1, <1>2 DEF Accepting, Underway, storage, faults

LEMMA FinalizeAccepting ==
    ASSUME Complies, Accepting, Finalize
    PROVE  Accepting'
<1>1. /\ host \in {"ready", "error"} /\ host' = "finalize" /\ Attached /\ chunk' = NoChunk
      /\ res' = "ok" /\ UNCHANGED <<storage, faults, self>>
  BY DEF Finalize, Attached
<1>2. ASSUME patch.good, failures = 0, self.patch_offset = Len(patch.bytes)
      PROVE  Smooth'
  <2>1. Smooth /\ host = "ready"
    BY <1>1, <1>2 DEF Accepting, Underway
  <2>2. /\ Consumed = self.patch_offset /\ self.state = "done"
        /\ self.patch_offset \in Nat
    BY <1>1, <1>2, <2>1, SmoothPlace
  <2>3. NoChunk.size = 0 /\ NoChunk.offset = 0
    BY DEF NoChunk
  <2>4. Consumed' = Consumed
    BY <1>1, <2>2, <2>3 DEF Consumed, ChunkLeft
  <2> QED BY <1>1, <2>1, <2>2, <2>4 DEF Smooth, Exact, storage
<1> QED BY <1>1, <1>2 DEF Accepting, Underway, storage, faults

LEMMA DumpAccepting ==
    ASSUME Complies, Accepting, OpenState \/ Dump
    PROVE  Accepting'
<1>1. /\ host \in {"ready", "dump"} /\ host' \in {"ready", "dump"} /\ Attached
      /\ dumped' \in {TornDump, self, dumped} /\ UNCHANGED <<patch, self, chunk, res>>
      /\ crashes' = crashes /\ failures' \in {failures, failures + 1}
  BY DEF OpenState, Dump, Image, Attached, faults, Fails
<1>2. Consumed' = Consumed /\ HeaderSize' = HeaderSize
  BY <1>1 DEF Consumed, ChunkLeft, HeaderSize
<1>3. ASSUME patch.good, failures = 0
      PROVE  Smooth' /\ Exact(patch.bytes, self, self.patch_offset)
  <2>1. Smooth
    BY <1>1, <1>3 DEF Accepting, Underway
  <2>2. Consumed = self.patch_offset
    BY <1>1, <1>3, <2>1, SmoothPlace
  <2>3. Smooth'
    BY <1>1, <1>2, <2>1 DEF Smooth, Exact, InHeader
  <2> QED BY <2>1, <2>2, <2>3 DEF Smooth
<1>4. crashes' \in Nat /\ failures' \in Nat /\ (failures' = 0 => failures = 0)
  BY <1>1 DEF Accepting
<1> QED BY <1>1, <1>3, <1>4 DEF Accepting, NoDumps

LEMMA StartAccepting ==
    ASSUME Complies, Inductive, Accepting, Start
    PROVE  Accepting'
<1>1. /\ host = "off" /\ host' = "ready" /\ self' = Restored
      /\ UNCHANGED <<patch, dumped, faults, chunk, res>> /\ dumped.state # "torn"
  BY DEF Start
<1>2. chunk = NoChunk /\ NoChunk.size = 0 /\ NoChunk.offset = 0
  BY <1>1 DEF Complies, Calls, NoChunk, Attached
<1>3. ASSUME patch.good, failures = 0 PROVE Smooth'
  <2>1. CASE dumped.state \in {"none", "init"}
    <3>1. Restored = NewApplier
      BY <2>1 DEF Restored
    <3> QED BY <1>1, <3>1 DEF NewApplier, NoReader, Smooth, Exact, InHeader
  <2>2. CASE dumped.state \notin {"none", "init"}
    <3>1. Restored = [dumped EXCEPT !.init_state = "fixed_header", !.size = FirstSize]
      BY <2>2 DEF Restored
    <3>2. dumped \notin NoDumps /\ dumped.state # "failed"
      BY <1>1, <2>2 DEF NoDumps, NoDump, TornDump, Inductive, Dumps
    <3>3. dumped \in Appliers /\ dumped.patch_offset \in Nat
      BY <3>2, DumpOffset DEF Complies, Appliers
    <3>4. Exact(patch.bytes, dumped, dumped.patch_offset)
      BY <1>3, <3>2 DEF Accepting, Underway
    <3>5. /\ self'.state = dumped.state /\ self'.reader = dumped.reader
          /\ self'.patch_offset = dumped.patch_offset
      BY <1>1, <3>1, <3>3 DEF Appliers
    <3>6. Consumed' = dumped.patch_offset
      BY <1>1, <1>2, <3>3, <3>5 DEF Consumed, ChunkLeft
    <3> QED BY <1>1, <2>2, <3>2, <3>4, <3>5, <3>6 DEF Smooth, Exact
  <2> QED BY <2>1, <2>2
<1> QED BY <1>1, <1>3 DEF Accepting, Underway, faults

\* Each step of the next-state relation.
LEMMA AcceptingNext ==
    ASSUME Complies, Inductive, Accepting, HeaderWhole, [Next]_vars
    PROVE  Accepting'
<1>1. CASE ReturnFinalize \/ RemoveState \/ CloseFiles \/ CleanAndExit \/ DumpFails
           \/ RestoreFails \/ Crash
  <2>1. /\ host' \in {"off", "finalized", "removed", "complete", "lost"} /\ patch' = patch
        /\ crashes' \in {crashes, crashes + 1} /\ failures' \in {failures, failures + 1}
        /\ dumped' \in {dumped, NoDump}
    BY <1>1 DEF ReturnFinalize, RemoveState, CloseFiles, CleanAndExit, DumpFails, RestoreFails,
                Crash, EndWithError, Fails, faults, storage
  <2>2. crashes' \in Nat /\ failures' \in Nat /\ (failures' = 0 => failures = 0)
    BY <2>1 DEF Accepting
  <2> QED BY <2>1, <2>2 DEF Accepting, Underway, NoDumps
<1>2. CASE Idle \/ UNCHANGED vars
  <2>1. UNCHANGED <<storage, faults, host, self, chunk, res>>
    BY <1>2 DEF Idle, vars
  <2> QED BY <2>1 DEF storage, faults, Accepting, Underway, NoDumps, Attached, Smooth, Exact, InHeader, Consumed,
                      ChunkLeft, HeaderSize
<1> QED BY <1>1, <1>2, ProcessOnceAccepting, ProcessAccepting, ReturnProcessAccepting,
           FinalizeAccepting, DumpAccepting, StartAccepting DEF Next, Call, Host

\* A host whose first chunk holds the header of its patch, as it must (the finding at
\* detools.c:1130), and that gives the applier all of a patch that is well formed, whether
\* it is interrupted, dumped and restored on the way or not, is told of success by
\* detools_apply_patch_finalize (detools.c:1509) unless a callback failed.
THEOREM GoodPatchAcceptedAlways ==
    ASSUME HeaderWhole
    PROVE  Spec => GoodPatchAccepted
<1>1. Init => Accepting
  BY DEF Init, Accepting, Underway, NoDumps
<1>2. Complies /\ Inductive /\ Accepting /\ [Next]_vars => Accepting'
  BY AcceptingNext
<1>3. ASSUME Complies, Accepting, [Next]_vars, host = "finalize",
             host' # "finalize", crashes' = crashes, patch.good, failures = 0,
             self.patch_offset = Len(patch.bytes)
      PROVE  host' = "finalized"
  <2>1. Smooth /\ res \in {"ok", "ALREADY_DONE"} /\ Attached /\ crashes \in Nat
    BY <1>3 DEF Accepting, Underway, Attached
  <2>2. ReturnFinalize
    <3>1. ~Crash
      BY <1>3, <2>1 DEF Crash
    <3>2. ~(Idle \/ UNCHANGED vars)
      BY <1>3 DEF Idle, vars
    <3>3. ~ProcessOnce
      BY <1>3 DEF ProcessOnce, FixedHeader, ToSize, DfpatchSize, DiffSize, ExtraSize,
         Adjustment, UnpackSize, DiffData, ExtraData, Readable, DiffEnd, ExtraEnd, DataEnd,
         AlreadyDone, AlreadyFailed
    <3> QED BY <1>3, <3>1, <3>2, <3>3
            DEF Next, Call, Host, Start, RestoreFails, Process, Finalize, OpenState, Dump,
                DumpFails, RemoveState, CloseFiles, CleanAndExit, ReturnProcess
  <2>3. res = "ALREADY_DONE"
    BY <2>1, <2>2 DEF ReturnFinalize
  <2>4. self.state = "done"
    BY <1>3, <2>3 DEF Complies, Calls
  <2>5. Consumed = Len(patch.bytes) /\ Len(patch.bytes) \in Nat
    BY <1>3, <2>1, <2>4, SmoothPlace
  <2>6. WholePatchRead
    <3> SUFFICES ASSUME self.reader.open
                 PROVE  self.reader.patch_offset = self.reader.patch_size
      BY DEF WholePatchRead
    <3>1. self \in Appliers
      BY <1>3, <2>1, AtWork
    <3>2. self.reader.patch_offset \in Nat /\ self.reader.patch_size \in Int
      BY <3>1, OpenReader
    <3> QED BY <2>1, <2>5, <3>2 DEF Smooth, Exact
  <2> QED BY <2>2, <2>3, <2>6 DEF FinalResult, ReturnFinalize
<1>4. Complies /\ Accepting /\ [Next]_vars =>
        [host = "finalize" /\ host' # "finalize" /\ crashes' = crashes /\ patch.good
           /\ failures = 0 /\ self.patch_offset = Len(patch.bytes)
              => host' = "finalized"]_vars
  BY <1>3
<1> QED BY <1>1, <1>2, <1>4, CompliesAlways, InductiveInvariant, PTL
           DEF Spec, GoodPatchAccepted
=============================================================================
