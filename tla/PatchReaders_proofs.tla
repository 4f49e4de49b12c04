------------------------ MODULE PatchReaders_proofs ------------------------
(***************************************************************************)
(* Proofs about the patch readers: whatever is compressed, however its     *)
(* stream is cut into chunks and however much is asked for in a call.      *)
(***************************************************************************)
EXTENDS PatchReaders, Foundations

-----------------------------------------------------------------------------
(***************************************************************************)
(* The format of CRLE.                                                     *)
(***************************************************************************)
\* The compressor and its readers use the format that Foundations has facts about.
LEMMA FormatIs ==
    /\ \A S : C!Least(S) = Cf!Least(S)
    /\ C!PackUsize = Cf!PackUsize
    /\ \A s, k : C!SizeEnd(s, k) = Cf!SizeEnd(s, k)
    /\ \A s, k : C!UsizeAt(s, k) = Cf!UsizeAt(s, k)
    /\ \A kind, s : C!Segment(kind, s) = Cf!Segment(kind, s)
<1>1. C!PackUsize = Cf!PackUsize
  BY DEF C!PackUsize, Cf!PackUsize
<1>2. ASSUME NEW s, NEW k PROVE C!SizeEnd(s, k) = Cf!SizeEnd(s, k)
  BY DEF C!SizeEnd, Cf!SizeEnd, C!Least, Cf!Least
<1>3. ASSUME NEW s, NEW k PROVE C!UsizeAt(s, k) = Cf!UsizeAt(s, k)
  BY DEF C!UsizeAt, Cf!UsizeAt, C!SizeEnd, Cf!SizeEnd, C!Least, Cf!Least
<1>4. ASSUME NEW kind, NEW s PROVE C!Segment(kind, s) = Cf!Segment(kind, s)
  BY <1>1, Zenon DEF C!Segment, Cf!Segment, C!Scattered, Cf!Scattered
<1>5. ASSUME NEW S PROVE C!Least(S) = Cf!Least(S)
  BY DEF C!Least, Cf!Least
<1> QED BY <1>1, <1>2, <1>3, <1>4, <1>5

LEMMA RunsAreEqual ==
    ASSUME NEW s \in Seq(U8), NEW k \in 1 .. Len(s)
    PROVE  /\ C!RunLength(s, k) \in 1 .. Len(s) - k + 1
           /\ \A j \in 0 .. C!RunLength(s, k) - 1 : s[k + j] = s[k]
<1> DEFINE S == {n \in 1 .. Len(s) - k + 1 : k + n = Len(s) + 1 \/ s[k + n] # s[k]}
           r == Cf!Least(S)
<1>1. Len(s) \in Nat
  OBVIOUS
<1>2. S \in SUBSET Nat /\ Len(s) - k + 1 \in S
  BY <1>1
<1> HIDE DEF S
<1>3. r \in S /\ \A n \in S : r <= n
  BY <1>2, LeastIn
<1> HIDE DEF r
<1>4. r \in 1 .. Len(s) - k + 1
  BY <1>3 DEF S
<1>5. ASSUME NEW j \in 0 .. r - 1 PROVE s[k + j] = s[k]
  <2>1. CASE j = 0
    <3>1. k + j = k
      BY <2>1
    <3> QED BY <3>1
  <2>2. CASE j # 0
    <3>1. j \in 1 .. Len(s) - k + 1 /\ j < r
      BY <1>1, <1>4, <2>2
    <3>2. j \notin S
      BY <1>3, <1>4, <3>1
    <3> QED BY <3>1, <3>2 DEF S
  <2> QED BY <2>1, <2>2
<1>6. C!RunLength(s, k) = r
  BY DEF C!RunLength, C!Least, Cf!Least, S, r
<1> QED BY <1>4, <1>5, <1>6

\* What get_segment finds: a segment of the data, and for a run, equal bytes.
LEMMA SegmentFound ==
    ASSUME NEW s \in Seq(U8), s # <<>>, NEW flush \in BOOLEAN
    PROVE  LET g == C!GetSegment(s, flush)
           IN  /\ g.kind \in {0, 1} /\ g.size \in 0 .. Len(s)
               /\ g.kind = 1 => \A j \in 1 .. g.size : s[j] = s[1]
<1> DEFINE run == Cf!Least(C!Runs(s))
           size == C!RunLength(s, 1)
           g == C!GetSegment(s, flush)
<1>1. Len(s) \in Nat /\ Len(s) # 0
  OBVIOUS
<1>2. size \in 1 .. Len(s) /\ \A j \in 1 .. size : s[j] = s[1]
  <2>1. 1 \in 1 .. Len(s) /\ Len(s) - 1 + 1 = Len(s)
    BY <1>1
  <2>2. size \in 1 .. Len(s) - 1 + 1 /\ \A j \in 0 .. size - 1 : s[1 + j] = s[1]
    BY <2>1, RunsAreEqual
  <2> HIDE DEF size
  <2>3. ASSUME NEW j \in 1 .. size PROVE s[j] = s[1]
    <3>1. j - 1 \in 0 .. size - 1 /\ 1 + (j - 1) = j
      BY <2>1, <2>2
    <3> QED BY <2>2, <3>1
  <2> QED BY <2>1, <2>2, <2>3
<1>3. C!Runs(s) # {} => run \in 1 .. Len(s)
  <2>1. C!Runs(s) \in SUBSET (1 .. Len(s)) /\ C!Runs(s) \in SUBSET Nat
    BY <1>1 DEF C!Runs
  <2> QED BY <2>1, LeastIn
<1> HIDE DEF run, size
<1>4. g = IF C!Runs(s) = {} THEN [kind |-> 0, size |-> IF flush THEN Len(s) ELSE 0]
          ELSE IF run > 1 THEN [kind |-> 0, size |-> run - 1]
          ELSE [kind |-> 1, size |-> IF size < Len(s) \/ flush THEN size ELSE 0]
  BY DEF C!GetSegment, C!Scattered, C!Repeated, C!Least, Cf!Least, run, size
<1> HIDE DEF g
<1>5. CASE C!Runs(s) = {}
  <2>1. g.kind = 0 /\ g.size \in {0, Len(s)}
    BY <1>4, <1>5
  <2> QED BY <1>1, <2>1 DEF g
<1>6. CASE C!Runs(s) # {} /\ run > 1
  <2>1. g.kind = 0 /\ g.size = run - 1
    BY <1>4, <1>6
  <2> QED BY <1>1, <1>3, <1>6, <2>1 DEF g
<1>7. CASE C!Runs(s) # {} /\ ~ (run > 1)
  <2>1. g.kind = 1 /\ g.size \in {0, size}
    BY <1>4, <1>7
  <2> QED BY <1>1, <1>2, <2>1 DEF g
<1> QED BY <1>5, <1>6, <1>7

-----------------------------------------------------------------------------
(***************************************************************************)
(* The compressor of CRLE.                                                 *)
(***************************************************************************)
CompressorInv ==
    /\ input \in Inputs /\ input \in Seq(U8) /\ given \in 0 .. Len(input)
    /\ flushing \in {"no", "yes", "done"}
    /\ flushing # "no" => given = Len(input)
    /\ flushing = "done" => data = <<>>
    /\ HeldBack(input, stream, given, data)

LEMMA CompressSegmentHolds ==
    ASSUME NEW s, NEW flush \in BOOLEAN, input \in Seq(U8), NEW top \in 0 .. Len(input),
           HeldBack(input, stream, top, s), C!CompressSegment(s, flush)
    PROVE  HeldBack(input, stream', top, data')
<1> DEFINE g == C!GetSegment(s, flush)
           z == g.size
           p == SubSeq(s, 1, z)
           r == SubSeq(s, z + 1, Len(s))
           u == Cf!Segment(g.kind, p)
           m == top - Len(s)
           n == m + z
<1>1. /\ s \in Seq(U8) /\ stream \in Seq(U8) /\ Len(s) <= top
      /\ \A j \in 1 .. Len(s) : s[j] = input[m + j]
  BY DEF HeldBack
<1>2. PICK at : Cuts(stream, input, at) /\ at[Len(stream)] = m
  BY DEF HeldBack
<1>3. Len(s) \in Nat /\ Len(input) \in Nat /\ top \in Nat /\ top <= Len(input) /\ m \in Nat
  BY <1>1
<1>4. CASE s = <<>> \/ z = 0
  <2>1. data' = s /\ stream' = stream
    BY <1>4, Zenon DEF C!CompressSegment
  <2> QED BY <2>1, Zenon
<1>5. CASE ~ (s = <<>> \/ z = 0)
  <2>1. stream' = stream \o u /\ data' = r
    BY <1>5, FormatIs, Zenon DEF C!CompressSegment
  <2>2. /\ g.kind \in {0, 1} /\ z \in 0 .. Len(s)
        /\ g.kind = 1 => \A j \in 1 .. z : s[j] = s[1]
    BY <1>1, <1>5, SegmentFound
  <2>3. z \in 1 .. Len(s) /\ z \in Int
    BY <1>3, <1>5, <2>2
  <2> DEFINE kind == g.kind
  <2>4. /\ p \in Seq(U8) /\ Len(p) = z /\ \A j \in 1 .. z : p[j] = s[j]
        /\ r \in Seq(U8) /\ Len(r) = Len(s) - z /\ \A j \in 1 .. Len(s) - z : r[j] = s[z + j]
    <3>1. 0 \in 0 .. Len(s) /\ z \in 0 .. Len(s) /\ Len(s) \in z .. Len(s) /\ 0 + 1 = 1 /\ z - 0 = z
      BY <1>3, <2>3
    <3>2. /\ SubSeq(s, 0 + 1, z) \in Seq(U8) /\ Len(SubSeq(s, 0 + 1, z)) = z - 0
          /\ \A j \in 1 .. z - 0 : SubSeq(s, 0 + 1, z)[j] = s[0 + j]
      <4> HIDE DEF z
      <4> QED BY <1>1, <3>1, Part
    <3>3. \A j \in 1 .. z : p[j] = s[j]
      BY <2>3, <3>1, <3>2
    <3>4. /\ r \in Seq(U8) /\ Len(r) = Len(s) - z
          /\ \A j \in 1 .. Len(s) - z : r[j] = s[z + j]
      <4> HIDE DEF z
      <4> QED BY <1>1, <3>1, Part
    <3> QED BY <3>1, <3>2, <3>3, <3>4, Zenon
  <2> HIDE DEF p, r, z, m
  <2>5. n \in Nat /\ m < n /\ n <= Len(input) /\ n - m = z /\ top - Len(r) = n /\ Len(r) <= top
    BY <1>3, <2>3, <2>4 DEF m
  <2>6. \A j \in 1 .. n - m : p[j] = input[m + j]
    <3>1. ASSUME NEW j \in 1 .. z PROVE p[j] = input[m + j]
      <4>1. j \in 1 .. Len(s)
        BY <1>3, <2>3
      <4> QED BY <1>1, <2>4, <4>1 DEF m
    <3> QED BY <2>5, <3>1
  <2>7. kind = 1 => n > m /\ \A j \in 1 .. n - m : p[j] = p[1]
    <3>1. 1 \in 1 .. z
      BY <2>3
    <3> QED BY <2>2, <2>4, <2>5, <3>1
  <2>8. Len(p) = n - m /\ m \in 0 .. Len(input) /\ n \in m .. Len(input) /\ n # m /\ kind \in {0, 1}
    BY <1>3, <2>2, <2>4, <2>5
  <2> HIDE DEF kind, n
  <2> DEFINE w == Cf!Segment(kind, p)
             t == stream \o w
  <2>9. /\ t \in Seq(U8) /\ Len(t) > Len(stream)
        /\ SegmentAt(t, input, Len(stream), Len(t), m, n)
    <3>1. PartOf(input, kind, m, n, p)
      BY <2>4, <2>6, <2>7, <2>8 DEF PartOf
    <3> QED BY <1>1, <3>1, SegmentWritten
  <2>10. w \in Seq(U8)
    <3> DEFINE q == Cf!PackUsize[Len(p)]
               a == IF kind = 0 THEN p ELSE <<p[1]>>
    <3>1. q \in Seq(U8)
      BY <2>4, SizeLength
    <3>2. a \in Seq(U8)
      <4>1. 1 \in 1 .. z /\ z = Len(p)
        BY <2>3, <2>4
      <4>2. p[1] \in U8
        BY <2>4, <4>1
      <4> QED BY <2>4, <4>2
    <3>3. kind \in U8
      BY <2>8 DEF U8
    <3>4. w = <<kind>> \o q \o a
      BY DEF Cf!Segment, Cf!Scattered
    <3> HIDE DEF q, a, w
    <3> QED BY <3>1, <3>2, <3>3, <3>4, ThreeParts
  <2> HIDE DEF w
  <2>11. \E cut : Cuts(t, input, cut) /\ cut[Len(t)] = n
    <3>1. n \in at[Len(stream)] .. Len(input) /\ at[Len(stream)] < n
      BY <1>2, <2>5, <2>8
    <3>2. SegmentAt(t, input, Len(stream), Len(t), at[Len(stream)], n)
      BY <1>2, <2>9
    <3> QED BY <1>1, <1>2, <2>9, <2>10, <3>1, <3>2, CutsGrow
  <2>12. ASSUME NEW j \in 1 .. Len(r) PROVE r[j] = input[top - Len(r) + j]
    <3>1. j \in 1 .. Len(s) - z /\ z + j \in 1 .. Len(s) /\ m + (z + j) = top - Len(r) + j
      BY <1>3, <2>3, <2>4 DEF m
    <3>2. r[j] = s[z + j] /\ s[z + j] = input[m + (z + j)]
      BY <1>1, <2>4, <3>1 DEF m
    <3> QED BY <3>1, <3>2
  <2>13. HeldBack(input, t, top, r)
    BY <2>4, <2>5, <2>9, <2>11, <2>12 DEF HeldBack
  <2>14. stream' = t /\ data' = r
    BY <2>1 DEF t, w, kind, z, r, p
  <2> QED BY <2>13, <2>14
<1> QED BY <1>4, <1>5

LEMMA CompressorStarts ==
    ASSUME C!InitCompressor
    PROVE  CompressorInv
<1>1. input \in Inputs /\ given = 0 /\ data = <<>> /\ stream = <<>> /\ flushing = "no"
  BY DEF C!InitCompressor
<1>2. input \in Seq(U8)
  BY <1>1, CrleAssumption DEF C!CrleAssumption, U8
<1>3. HeldBack(input, stream, given, data)
  BY <1>1, <1>2, HoldsNothing, Zenon
<1>4. given \in 0 .. Len(input)
  BY <1>1, <1>2
<1> QED BY <1>1, <1>2, <1>3, <1>4 DEF CompressorInv

LEMMA CompressorKeeps ==
    ASSUME CompressorInv, C!Compressor \/ (UNCHANGED compressor /\ UNCHANGED stream)
    PROVE  CompressorInv'
<1> DEFINE N == Len(input)
<1>1. /\ input \in Inputs /\ input \in Seq(U8) /\ given \in 0 .. N
      /\ flushing \in {"no", "yes", "done"}
      /\ flushing # "no" => given = N
      /\ flushing = "done" => data = <<>>
      /\ HeldBack(input, stream, given, data)
  BY DEF CompressorInv
<1>2. N \in Nat /\ given \in Nat
  BY <1>1
<1>3. CASE UNCHANGED compressor /\ UNCHANGED stream
  BY <1>3, Zenon DEF CompressorInv, compressor
<1>4. CASE C!Compress
  <2>1. PICK n \in 1 .. MaxPiece \cup {N - given} :
           /\ n > 0 /\ given + n <= N /\ given' = given + n
           /\ C!CompressSegment(data \o SubSeq(input, given + 1, given + n), FALSE)
    BY <1>4 DEF C!Compress
  <2>2. input' = input /\ flushing' = flushing /\ flushing = "no"
    BY <1>4 DEF C!Compress
  <2>3. n \in 0 .. N - given /\ given + n \in 0 .. N
    BY <1>2, <2>1, CrleAssumption DEF C!CrleAssumption
  <2> DEFINE h == data \o SubSeq(input, given + 1, given + n)
             top == given + n
  <2>4. HeldBack(input, stream, top, h)
    BY <1>1, <2>3, HoldsMore
  <2>5. C!CompressSegment(h, FALSE)
    BY <2>1
  <2> HIDE DEF h, top
  <2>6. HeldBack(input, stream', top, data')
    <3>1. top \in 0 .. Len(input) /\ FALSE \in BOOLEAN /\ input \in Seq(U8)
      BY <1>1, <2>3 DEF top
    <3> QED BY <2>4, <2>5, <3>1, CompressSegmentHolds
  <2>7. given' = top /\ top \in 0 .. N
    BY <2>1, <2>3 DEF top
  <2>8. HeldBack(input', stream', given', data')
    BY <2>2, <2>6, <2>7, Zenon
  <2> QED BY <1>1, <2>2, <2>7, <2>8 DEF CompressorInv
<1>5. CASE C!Flush
  <2>1. /\ input' = input /\ given' = given /\ data' = data /\ given = N
        /\ \/ /\ stream = <<>> /\ data = <<>>
              /\ stream' = <<0>> \o Cf!PackUsize[0] /\ flushing' = "done"
           \/ stream' = stream /\ flushing' = "yes"
    BY <1>5, FormatIs DEF C!Flush, C!Scattered
  <2>2. CASE stream' = stream /\ flushing' = "yes"
    <3>1. HeldBack(input', stream', given', data')
      BY <1>1, <2>1, <2>2, Zenon
    <3> QED BY <1>1, <2>1, <2>2, <3>1 DEF CompressorInv
  <2>3. CASE /\ stream = <<>> /\ data = <<>>
             /\ stream' = <<0>> \o Cf!PackUsize[0] /\ flushing' = "done"
    <3>1. PICK at : Cuts(stream, input, at) /\ at[Len(stream)] = given - Len(data)
      BY <1>1 DEF HeldBack
    <3>2. Len(stream) = 0 /\ Len(data) = 0 /\ at[0] = 0
      BY <2>3, <3>1 DEF Cuts
    <3>3. given = 0
      BY <1>2, <3>1, <3>2
    <3>4. input = <<>> /\ N = 0
      <4>1. Len(input) = 0 /\ input \in Seq(U8)
        BY <1>1, <2>1, <3>3
      <4> QED BY <4>1
    <3> DEFINE e == <<>>
               w == Cf!Segment(0, e)
               t == e \o w
    <3>5. e \in Seq(U8) /\ Len(e) = 0 /\ stream = e /\ data = e
      BY <2>3
    <3>6. w = <<0>> \o Cf!PackUsize[0] \o e
      BY <3>5, Zenon DEF Cf!Segment, Cf!Scattered
    <3> DEFINE q == <<0>> \o Cf!PackUsize[0]
    <3>7. q \in Seq(U8)
      <4>1. Cf!PackUsize[0] \in Seq(U8)
        BY SizeLength
      <4>2. <<0>> \in Seq(U8)
        BY DEF U8
      <4> QED BY <4>1, <4>2, TwoParts
    <3> HIDE DEF w, e
    <3>8. w = q
      <4>1. w = q \o e
        BY <3>6
      <4> HIDE DEF q
      <4>2. q \o e = q
        BY <3>7, ConcatEmptySeq DEF e
      <4> QED BY <4>1, <4>2
    <3>9. t = w
      <4>1. w \in Seq(U8)
        BY <3>7, <3>8
      <4> QED BY <4>1, ConcatEmptySeq DEF e
    <3>10. t \in Seq(U8) /\ Len(t) > 0 /\ SegmentAt(t, input, 0, Len(t), 0, 0)
      <4>1. PartOf(input, 0, 0, 0, e)
        <5>1. /\ input \in Seq(U8) /\ 0 \in {0, 1} /\ 0 \in 0 .. Len(input)
              /\ Len(e) = 0 - 0
          BY <1>1, <3>4, <3>5
        <5>2. \A j \in 1 .. 0 - 0 : e[j] = input[0 + j]
          OBVIOUS
        <5>3. 0 = 1 => 0 > 0 /\ \A j \in 1 .. 0 - 0 : e[j] = e[1]
          OBVIOUS
        <5> QED BY <3>4, <3>5, <5>1, <5>2, <5>3 DEF PartOf
      <4>2. t \in Seq(U8) /\ Len(t) > Len(e) /\ SegmentAt(t, input, Len(e), Len(t), 0, 0)
        <5> HIDE DEF t
        <5>1. t = e \o Cf!Segment(0, e)
          BY DEF t, w
        <5> QED BY <3>5, <4>1, <5>1, SegmentWritten, Zenon
      <4> HIDE DEF t
      <4> QED BY <3>5, <4>2
    <3>11. \E cut : Cuts(t, input, cut) /\ cut[Len(t)] = 0
      <4>1. Cuts(e, input, at) /\ at[Len(e)] = 0 /\ Len(e) = 0
        BY <3>1, <3>2, <3>5
      <4>2. 0 \in at[Len(e)] .. Len(input) /\ w \in Seq(U8) /\ e = <<>>
        BY <3>4, <3>7, <3>8, <4>1 DEF e
      <4>3. SegmentAt(t, input, Len(e), Len(t), at[Len(e)], 0) /\ Len(t) > Len(e)
        BY <3>10, <4>1
      <4>4. at[Len(e)] \in 0 .. Len(input) /\ input \in Seq(U8)
        BY <1>1, <3>4, <4>1
      <4> HIDE DEF N
      <4>5. \E cut : Cuts(e \o w, input, cut) /\ cut[Len(e \o w)] = 0
        <5>1. e \in Seq(U8) /\ input \in Seq(U8) /\ w \in Seq(U8)
          BY <3>5, <4>2, <4>4
        <5>2. Cuts(e, input, at) /\ 0 \in at[Len(e)] .. Len(input)
          BY <4>1, <4>2
        <5>3. e = <<>> \/ at[Len(e)] < 0
          BY <4>2
        <5>4. SegmentAt(e \o w, input, Len(e), Len(e \o w), at[Len(e)], 0)
              /\ Len(e \o w) > Len(e)
          BY <4>3
        <5> DEFINE z == 0
        <5>5. z \in at[Len(e)] .. Len(input) /\ (e = <<>> \/ at[Len(e)] < z)
              /\ SegmentAt(e \o w, input, Len(e), Len(e \o w), at[Len(e)], z)
          BY <5>2, <5>3, <5>4
        <5> HIDE DEF z
        <5>6. \E cut : Cuts(e \o w, input, cut) /\ cut[Len(e \o w)] = z
          BY <5>1, <5>2, <5>4, <5>5, CutsGrow
        <5> QED BY <5>6 DEF z
      <4> QED BY <4>5
    <3>12. stream' = t
      BY <2>3, <3>8, <3>9
    <3> HIDE DEF t, q
    <3>13. HeldBack(input, t, 0, e)
      <4>1. Len(e) <= 0 /\ 0 - Len(e) = 0
        BY <3>5
      <4>2. \A j \in 1 .. Len(e) : e[j] = input[0 - Len(e) + j]
        BY <3>5
      <4> QED BY <3>5, <3>10, <3>11, <4>1, <4>2 DEF HeldBack
    <3>14. HeldBack(input', stream', given', data')
      <4>1. input' = input /\ stream' = t /\ given' = 0 /\ data' = e
        BY <2>1, <3>3, <3>5, <3>12
      <4> QED BY <3>13, <4>1, Zenon
    <3>15. data' = <<>>
      BY <2>1, <2>3
    <3> QED BY <1>1, <2>1, <2>3, <3>14, <3>15 DEF CompressorInv
  <2> QED BY <2>1, <2>2, <2>3
<1>6. CASE C!FlushSegment
  <2>1. /\ flushing = "yes" /\ C!CompressSegment(data, TRUE)
        /\ input' = input /\ given' = given /\ flushing' = flushing
    BY <1>6 DEF C!FlushSegment
  <2>2. HeldBack(input, stream', given, data')
    BY <1>1, <2>1, CompressSegmentHolds
  <2>3. HeldBack(input', stream', given', data')
    BY <2>1, <2>2, Zenon
  <2> QED BY <1>1, <2>1, <2>3 DEF CompressorInv
<1>7. CASE C!FlushEnd
  <2>1. /\ flushing = "yes" /\ data = <<>> /\ flushing' = "done"
        /\ input' = input /\ given' = given /\ data' = data /\ stream' = stream
    BY <1>7 DEF C!FlushEnd
  <2>2. HeldBack(input', stream', given', data')
    BY <1>1, <2>1, Zenon
  <2> QED BY <1>1, <2>1, <2>2 DEF CompressorInv
<1> QED BY <1>3, <1>4, <1>5, <1>6, <1>7 DEF C!Compressor

\* The compressor is the same one for both readers.
LEMMA OneCompressor ==
    /\ P!InitCompressor <=> C!InitCompressor
    /\ P!Compressor <=> C!Compressor
<1>1. P!PackUsize = C!PackUsize
  BY DEF C!PackUsize, P!PackUsize
<1>2. ASSUME NEW s, NEW flush PROVE P!GetSegment(s, flush) = C!GetSegment(s, flush)
  BY DEF C!GetSegment, P!GetSegment, C!Runs, P!Runs, C!RunLength, P!RunLength,
         C!Least, P!Least, C!Scattered, P!Scattered, C!Repeated, P!Repeated
<1>3. ASSUME NEW kind, NEW s PROVE P!Segment(kind, s) = C!Segment(kind, s)
  BY <1>1, Zenon DEF C!Segment, P!Segment, C!Scattered, P!Scattered
<1>4. ASSUME NEW s, NEW flush PROVE P!CompressSegment(s, flush) <=> C!CompressSegment(s, flush)
  BY <1>2, <1>3, Zenon DEF C!CompressSegment, P!CompressSegment
<1>5. P!InitCompressor <=> C!InitCompressor
  BY Zenon DEF C!InitCompressor, P!InitCompressor
<1>6. P!Compress <=> C!Compress
  BY <1>4, Zenon DEF C!Compress, P!Compress
<1>7. P!Flush <=> C!Flush
  BY <1>1, Zenon DEF C!Flush, P!Flush, C!Scattered, P!Scattered
<1>8. P!FlushSegment <=> C!FlushSegment
  BY <1>4, Zenon DEF C!FlushSegment, P!FlushSegment
<1>9. P!FlushEnd <=> C!FlushEnd
  BY Zenon DEF C!FlushEnd, P!FlushEnd
<1> QED BY <1>5, <1>6, <1>7, <1>8, <1>9 DEF C!Compressor, P!Compressor

-----------------------------------------------------------------------------
(***************************************************************************)
(* What a stream of segments stands for.                                   *)
(***************************************************************************)
\* The reader at the beginning of a segment.
AtCut(d, at, b) == [at |-> b, out |-> SubSeq(d, 1, at[b])]

\* One segment of the stream.
LEMMA NextSegmentIs ==
    ASSUME NEW s, NEW d, NEW at, Segments(s, d, at), NEW b \in DOMAIN at
    PROVE  \/ b = Len(s) /\ C!NextSegment(s, AtCut(d, at, b)) = AtCut(d, at, b)
           \/ \E e \in DOMAIN at : /\ b \in Nat /\ e \in Nat /\ b + 2 <= e
                                   /\ C!NextSegment(s, AtCut(d, at, b)) = AtCut(d, at, e)
<1> DEFINE p == AtCut(d, at, b)
           m == at[b]
           size == Cf!UsizeAt(s, p.at + 2)
           body == Cf!SizeEnd(s, p.at + 2)
           scattered == [at |-> body + size, out |-> p.out \o SubSeq(s, body + 1, body + size)]
           run == [at |-> body + 1, out |-> p.out \o [j \in 1 .. size |-> s[body + 1]]]
           x == C!NextSegment(s, p)
<1>1. x = CASE p.at = Len(s) -> p
            [] p.at < Len(s) /\ s[p.at + 1] = 0 -> scattered
            [] OTHER -> run
  BY FormatIs, Zenon DEF C!NextSegment, C!Scattered
<1>2. p.at = b /\ p.out = SubSeq(d, 1, m)
  BY DEF AtCut
<1>3. /\ s \in Seq(U8) /\ d \in Seq(U8)
      /\ DOMAIN at \subseteq 0 .. Len(s) /\ at \in [DOMAIN at -> 0 .. Len(d)]
  BY DEF Cuts, Segments
<1>4. b \in 0 .. Len(s) /\ Len(s) \in Nat /\ Len(d) \in Nat
  BY <1>3
<1> HIDE DEF p, x, size, body, scattered, run
<1>5. CASE b = Len(s)
  <2>1. x = p
    <3>1. ~ (p.at < Len(s)) /\ p.at = Len(s)
      BY <1>2, <1>4, <1>5
    <3> QED BY <1>1, <3>1, Zenon
  <2> QED BY <1>5, <2>1 DEF x, p
<1>6. CASE b # Len(s)
  <2>1. b < Len(s)
    BY <1>4, <1>6
  <2>2. PICK e \in DOMAIN at :
              /\ b \in Nat /\ e \in Nat /\ b + 2 <= e /\ e <= Len(s) /\ Len(s) \in Nat
              /\ at[b] \in Nat /\ at[e] \in Nat /\ at[b] <= at[e] /\ at[e] <= Len(d)
              /\ SegmentAt(s, d, b, e, at[b], at[e])
    BY <2>1, SegmentAfter
  <2> DEFINE n == at[e]
  <2>3. m \in Nat /\ n \in Nat /\ m <= n /\ n <= Len(d) /\ SegmentAt(s, d, b, e, m, n)
        /\ m \in 0 .. Len(d) /\ n \in m .. Len(d)
    BY <1>4, <2>2
  <2> HIDE DEF m, n
  <2>4. /\ body \in Nat /\ body >= b + 2 /\ size = n - m
        /\ e <= Len(s) /\ s[b + 1] \in {0, 1}
        /\ s[b + 1] = 0 => e = body + (n - m) /\ \A j \in 1 .. n - m : s[body + j] = d[m + j]
        /\ s[b + 1] = 1 => e = body + 1 /\ n > m /\ \A j \in 1 .. n - m : s[body + 1] = d[m + j]
    <3> DEFINE B == Cf!SizeEnd(s, b + 2)
               z == Cf!UsizeAt(s, b + 2)
    <3>1. SegmentIn(s, d, b, e, m, n, B) /\ Cf!UsizeAt(s, b + 2) = z
      <4>1. /\ s \in Seq(U8) /\ b \in Nat /\ m \in Nat /\ n \in Nat /\ m <= n
            /\ SegmentAt(s, d, b, e, m, n)
        BY <1>3, <2>2, <2>3
      <4>2. IsSegment(s, d, b, e, m, n)
        BY <4>1 DEF IsSegment
      <4> QED BY <4>2, SegmentParts
    <3>2. body = B /\ size = z
      BY <1>2, Zenon DEF body, size
    <3> HIDE DEF B, z
    <3> QED BY <3>1, <3>2 DEF SegmentIn
  <2>5. CASE s[b + 1] = 0
    <3>1. x = scattered
      BY <1>1, <1>2, <1>6, <2>1, <2>5, Zenon
    <3> DEFINE q == SubSeq(s, body + 1, body + size)
    <3>2. body \in 0 .. Len(s) /\ e \in body .. Len(s) /\ e = body + size /\ e - body = n - m
      BY <1>4, <2>2, <2>3, <2>4, <2>5
    <3>3. q \in Seq(U8) /\ Len(q) = n - m /\ \A j \in 1 .. n - m : q[j] = s[body + j]
      <4>1. /\ SubSeq(s, body + 1, e) \in Seq(U8) /\ Len(SubSeq(s, body + 1, e)) = e - body
            /\ \A j \in 1 .. e - body : SubSeq(s, body + 1, e)[j] = s[body + j]
        BY <1>3, <3>2, Part
      <4> QED BY <3>2, <4>1, Zenon
    <3>4. \A j \in 1 .. n - m : q[j] = d[m + j]
      BY <2>4, <2>5, <3>3
    <3> HIDE DEF q
    <3>5. SubSeq(d, 1, m) \o q = SubSeq(d, 1, n)
      BY <1>3, <2>3, <3>3, <3>4, Grown
    <3>6. scattered = AtCut(d, at, e)
      BY <1>2, <3>2, <3>5 DEF scattered, q, AtCut, n
    <3> QED BY <2>2, <3>1, <3>6 DEF x, p
  <2>6. CASE s[b + 1] = 1
    <3>1. x = run
      <4>1. 0 # 1
        OBVIOUS
      <4> QED BY <1>1, <1>2, <1>6, <2>6, <4>1, Zenon
    <3> DEFINE q == [j \in 1 .. size |-> s[body + 1]]
    <3>2. q \in Seq(U8) /\ Len(q) = n - m /\ \A j \in 1 .. n - m : q[j] = s[body + 1]
      <4>1. size \in Nat /\ size = n - m
        BY <2>3, <2>4
      <4>2. s[body + 1] \in U8
        BY <1>3, <1>4, <2>2, <2>4, <2>6
      <4> QED BY <4>1, <4>2
    <3>3. \A j \in 1 .. n - m : q[j] = d[m + j]
      BY <2>4, <2>6, <3>2
    <3> HIDE DEF q
    <3>4. SubSeq(d, 1, m) \o q = SubSeq(d, 1, n)
      BY <1>3, <2>3, <3>2, <3>3, Grown
    <3>5. run = AtCut(d, at, e)
      BY <1>2, <2>4, <2>6, <3>4 DEF run, q, AtCut, n
    <3> QED BY <2>2, <3>1, <3>5 DEF x, p
  <2> QED BY <2>4, <2>5, <2>6
<1> QED BY <1>5, <1>6

LEMMA DecodedIs ==
    ASSUME NEW s, NEW d, NEW at, Segments(s, d, at)
    PROVE  C!Decoded(s) = SubSeq(d, 1, at[Len(s)])
<1> DEFINE D == DOMAIN at
           V == {AtCut(d, at, b) : b \in D}
           most == Len(s) \div 2
           zero == [at |-> 0, out |-> <<>>]
           step == [x \in (1 .. most) \X V |-> C!NextSegment(s, x[2])]
           Rec(f, n) == f = [k \in 0 .. n |-> IF k = 0 THEN [at |-> 0, out |-> <<>>]
                                              ELSE C!NextSegment(s, f[k - 1])]
<1>1. /\ s \in Seq(U8) /\ d \in Seq(U8)
      /\ D \subseteq 0 .. Len(s) /\ at \in [D -> 0 .. Len(d)]
      /\ 0 \in D /\ at[0] = 0 /\ Len(s) \in D
  BY DEF Cuts, Segments
<1>2. Len(s) \in Nat /\ most \in Nat /\ 2 * most + 1 >= Len(s)
  BY <1>1
<1> HIDE DEF D
<1>3. zero = AtCut(d, at, 0)
  <2>1. SubSeq(d, 1, 0) = <<>>
    BY <1>1
  <2> QED BY <1>1, <2>1, Zenon DEF AtCut
<1>4. \A b \in D : \/ b = Len(s) /\ C!NextSegment(s, AtCut(d, at, b)) = AtCut(d, at, b)
                   \/ \E e \in D : /\ b \in Nat /\ e \in Nat /\ b + 2 <= e
                                   /\ C!NextSegment(s, AtCut(d, at, b)) = AtCut(d, at, e)
  BY NextSegmentIs DEF D
<1>5. ASSUME NEW v \in V PROVE C!NextSegment(s, v) \in V
  BY <1>4
<1>6. step \in [(1 .. most) \X V -> V]
  BY <1>5
<1>7. \A k \in 1 .. most, v \in V : step[<<k, v>>] = C!NextSegment(s, v)
  OBVIOUS
<1>8. zero \in V
  BY <1>1, <1>3
<1> HIDE DEF V, step, most, zero
<1>9. PICK g \in [0 .. most -> V] : Recursion(g, zero, step, most)
  BY <1>2, <1>6, <1>8, RecursionUpTo
<1>10. Rec(g, most)
  <2>1. ASSUME NEW k \in 0 .. most
        PROVE  g[k] = IF k = 0 THEN zero ELSE C!NextSegment(s, g[k - 1])
    <3>1. g[k] = IF k = 0 THEN zero ELSE step[<<k, g[k - 1]>>]
      BY <1>9 DEF Recursion
    <3>2. CASE k = 0
      BY <3>1, <3>2
    <3>3. CASE k # 0
      <4>1. k \in 1 .. most /\ k - 1 \in 0 .. most
        BY <1>2, <3>3
      <4>2. g[k - 1] \in V
        BY <1>9, <4>1
      <4> QED BY <1>7, <3>1, <3>3, <4>1, <4>2, Zenon
    <3> QED BY <3>2, <3>3
  <2>2. g = [k \in 0 .. most |-> g[k]]
    BY <1>9
  <2> QED BY <2>1, <2>2, Zenon DEF zero
<1> DEFINE f == CHOOSE h : Rec(h, most)
<1>11. Rec(f, most)
  <2> HIDE DEF Rec
  <2> QED BY <1>10
<1>12. C!Decoded(s) = f[most].out
  BY DEF C!Decoded, f, most
<1> HIDE DEF f
<1>13. \A k \in 0 .. most : f[k] = IF k = 0 THEN zero ELSE C!NextSegment(s, f[k - 1])
  BY <1>11 DEF zero
<1> DEFINE Far(k) == \E b \in D : f[k] = AtCut(d, at, b) /\ (b = Len(s) \/ b >= 2 * k)
           T == {k \in 0 .. most : Far(k)}
<1>14. 0 \in T
  BY <1>1, <1>2, <1>3, <1>13
<1>15. ASSUME NEW k \in 0 .. most - 1, k \in T PROVE k + 1 \in T
  <2>1. PICK b \in D : f[k] = AtCut(d, at, b) /\ (b = Len(s) \/ b >= 2 * k)
    BY <1>15
  <2>2. k + 1 \in 0 .. most /\ k + 1 # 0 /\ (k + 1) - 1 = k /\ k \in Nat
    BY <1>2
  <2>3. f[k + 1] = C!NextSegment(s, AtCut(d, at, b))
    BY <1>13, <2>1, <2>2, Zenon
  <2>4. CASE b = Len(s) /\ C!NextSegment(s, AtCut(d, at, b)) = AtCut(d, at, b)
    BY <2>2, <2>3, <2>4
  <2>5. ASSUME NEW e \in D, b \in Nat, e \in Nat, b + 2 <= e,
               C!NextSegment(s, AtCut(d, at, b)) = AtCut(d, at, e)
        PROVE  k + 1 \in T
    <3>1. e <= Len(s)
      <4>1. e \in 0 .. Len(s)
        BY <1>1
      <4> QED BY <4>1
    <3>2. b # Len(s)
      BY <1>2, <2>5, <3>1
    <3>3. e >= 2 * (k + 1)
      BY <2>1, <2>2, <2>5, <3>2
    <3> QED BY <2>2, <2>3, <2>5, <3>3
  <2> QED BY <1>4, <2>4, <2>5
<1> HIDE DEF T
<1>16. \A k \in 0 .. most : k \in T
  BY <1>2, <1>14, <1>15, InductionUpTo
<1>17. PICK b \in D : f[most] = AtCut(d, at, b) /\ (b = Len(s) \/ b >= 2 * most)
  <2>1. most \in T
    BY <1>2, <1>16
  <2> QED BY <2>1 DEF T
<1>18. b = Len(s)
  <2>1. ASSUME NEW e \in D, b \in Nat, e \in Nat, b + 2 <= e, b # Len(s)
        PROVE  FALSE
    <3>1. e \in 0 .. Len(s)
      BY <1>1
    <3> QED BY <1>2, <1>17, <2>1, <3>1
  <2> QED BY <1>4, <2>1
<1>19. f[most] = AtCut(d, at, Len(s))
  BY <1>17, <1>18
<1>20. AtCut(d, at, Len(s)).out = SubSeq(d, 1, at[Len(s)])
  BY DEF AtCut
<1> QED BY <1>12, <1>19, <1>20, Zenon

\* Nothing is lost or reordered between the segments.
LEMMA LosslessFollows ==
    ASSUME CompressorInv
    PROVE  C!Lossless
<1>1. input \in Seq(U8) /\ given \in 0 .. Len(input) /\ HeldBack(input, stream, given, data)
  BY DEF CompressorInv
<1>2. /\ data \in Seq(U8) /\ stream \in Seq(U8) /\ Len(data) <= given
      /\ \A j \in 1 .. Len(data) : data[j] = input[given - Len(data) + j]
  BY <1>1 DEF HeldBack
<1>3. PICK at : Cuts(stream, input, at) /\ at[Len(stream)] = given - Len(data)
  BY <1>1 DEF HeldBack
<1> DEFINE m == given - Len(data)
<1>4. C!Decoded(stream) = SubSeq(input, 1, m)
  <2>1. Segments(stream, input, at)
    BY <1>1, <1>2, <1>3 DEF Segments
  <2>2. C!Decoded(stream) = SubSeq(input, 1, at[Len(stream)])
    BY <2>1, DecodedIs
  <2> QED BY <1>3, <2>2
<1>5. /\ m \in 0 .. Len(input) /\ given \in m .. Len(input) /\ Len(data) = given - m
      /\ \A j \in 1 .. given - m : data[j] = input[m + j]
  BY <1>1, <1>2
<1> HIDE DEF m
<1>6. SubSeq(input, 1, m) \o data = SubSeq(input, 1, given)
  BY <1>1, <1>2, <1>5, Grown
<1> QED BY <1>4, <1>6 DEF C!Lossless

-----------------------------------------------------------------------------
(***************************************************************************)
(* The reader of c/detools.c.                                              *)
(***************************************************************************)
LEMMA UsizeStarts ==
    ASSUME NEW v \in Nat
    PROVE  UsizeRead(C!NoUsize, v, v)
<1>1. v - v * 2 ^ 0 = 0 /\ v * 2 ^ 0 <= v
  BY SMT
<1>2. [value |-> v - v * 2 ^ 0, offset |-> 0] = C!NoUsize
  BY <1>1 DEF C!NoUsize
<1>3. ~ (0 > 0) /\ 0 \in Offsets
  BY DEF Offsets
<1> QED BY <1>1, <1>2, <1>3, Zenon DEF UsizeRead

LEMMA UsizeGoesOn ==
    ASSUME NEW size, NEW v \in Nat, NEW r \in Nat, UsizeRead(size, v, r), r >= 128,
           size.offset + 7 <= 32
    PROVE  UsizeRead(C!UsizeAfter(size, 128 + (r % 128)), v, r \div 128)
<1>1. PICK k \in Offsets : /\ size = [value |-> v - r * 2 ^ k, offset |-> k]
                           /\ r * 2 ^ k <= v /\ (k > 0 => r > 0)
  BY DEF UsizeRead
<1>2. size.offset = k /\ size.value = v - r * 2 ^ k
  BY <1>1
<1>3. k \in {0, 7, 14, 21}
  BY <1>2 DEF Offsets
<1> DEFINE q == r \div 128
           m == r % 128
           next == [value |-> size.value + ((128 + m) % 128) * 2 ^ size.offset,
                    offset |-> size.offset + 7]
           a == m * 2 ^ k
           b == q * 2 ^ (k + 7)
           c == r * 2 ^ k
<1>4. a \in Nat /\ b \in Nat /\ c = a + b
  <2>1. Shifts(k, r)
    BY <1>3, Shifted
  <2> QED BY <2>1, Zenon DEF Shifts
<1>5. (128 + m) % 128 = m /\ q > 0 /\ q \in Nat
  BY SMT
<1>6. C!UsizeAfter(size, 128 + m) = next
  BY DEF C!UsizeAfter
<1>7. next = [value |-> (v - c) + a, offset |-> k + 7]
  <2> HIDE DEF m
  <2> QED BY <1>2, <1>5
<1> HIDE DEF a, b, c, m, q, next
<1>8. c <= v
  BY <1>1 DEF c
<1>9. (v - c) + a = v - b /\ b <= v
  BY <1>4, <1>8
<1>10. k + 7 \in Offsets
  BY <1>3 DEF Offsets
<1>11. next = [value |-> v - b, offset |-> k + 7]
  BY <1>7, <1>9
<1>12. UsizeRead(next, v, q)
  BY <1>5, <1>9, <1>10, <1>11, Zenon DEF UsizeRead, b
<1> QED BY <1>6, <1>12 DEF m, q

LEMMA UsizeEnds ==
    ASSUME NEW size, NEW v \in Nat, NEW r \in Nat, UsizeRead(size, v, r), r < 128,
           size.offset + 7 <= 32
    PROVE  C!UsizeAfter(size, r).value = v
<1>1. PICK k \in Offsets : size = [value |-> v - r * 2 ^ k, offset |-> k]
  BY DEF UsizeRead
<1>2. size.offset = k /\ size.value = v - r * 2 ^ k
  BY <1>1
<1>3. k \in {0, 7, 14, 21}
  BY <1>2 DEF Offsets
<1>4. r % 128 = r /\ r \div 128 = 0
  BY SMT
<1>5. (r % 128) * 2 ^ k \in Nat /\ r * 2 ^ k = (r % 128) * 2 ^ k
  <2>1. 2 ^ k \in Nat /\ (r % 128) * 2 ^ k \in Nat
    <3>1. Shifts(k, r)
      BY <1>3, Shifted
    <3> QED BY <3>1, Zenon DEF Shifts
  <2> QED BY <1>4, <2>1
<1>6. C!UsizeAfter(size, r).value = size.value + (r % 128) * 2 ^ size.offset
  BY DEF C!UsizeAfter
<1> DEFINE a == (r % 128) * 2 ^ k
           c == r * 2 ^ k
<1>7. a \in Nat /\ c = a /\ C!UsizeAfter(size, r).value = (v - c) + a
  BY <1>2, <1>5, <1>6
<1> HIDE DEF a, c
<1> QED BY <1>7

\* The reader c has read the stream s up to tk and delivered ln bytes, in a segment that
\* stands for the bytes m + 1 .. n of the data.
SizeState(s, b) == IF s[b + 1] = 0 THEN "scattered_size" ELSE "repeated_repetitions"

InSize(s, b, m, n, c, tk, ln) ==
    /\ c.state = SizeState(s, b) /\ ln = m
    /\ \E r \in Nat : /\ UsizeFollows(s, tk, r) /\ UsizeRead(c.size, n - m, r)
                      /\ tk + Len(Cf!PackUsize[r]) = Cf!SizeEnd(s, b + 2)

InSegment(s, b, e, m, n, c, tk, ln) ==
    \/ InSize(s, b, m, n, c, tk, ln)
    \/ InScattered(s, b, e, m, n, c, tk, ln)
    \/ InRun(s, b, e, m, n, c, tk, ln)

CrleAt(s, d, at, c, tk, ln) ==
    \/ c.state = "idle" /\ tk \in DOMAIN at /\ ln = at[tk]
    \/ \E b \in DOMAIN at, e \in DOMAIN at :
          /\ b < Len(s) /\ e \in Nat /\ at[e] <= Len(d) /\ IsSegment(s, d, b, e, at[b], at[e])
          /\ InSegment(s, b, e, at[b], at[e], c, tk, ln)

Readers ==
    [state : {"idle", "scattered_size", "scattered_data", "repeated_repetitions",
              "repeated_data", "repeated_data_read"},
     left : Int, size : [value : Int, offset : Int], value : Int]

\* PackedSizes fit in 28 bits: of longer ones unpack_usize reads no more.
InputsFit == \A i \in Inputs : Len(i) < 2 ^ 28

CrleInv ==
    /\ fed \in 0 .. Len(stream) /\ taken \in 0 .. fed /\ wanted \in Nat
    /\ out \in Seq(U8) /\ Begins(out, input) /\ crle \in Readers
    /\ res \in {"none", "again", "ok", "more", "error"} /\ destroyed \in {"no", "ok"}
    /\ wanted > 0 => res = "again"
    /\ flushing # "done" => /\ fed = 0 /\ wanted = 0 /\ out = <<>> /\ destroyed = "no"
                            /\ crle = C!NewReader /\ res = "none"
    /\ res = "more" => crle.state # "repeated_data_read"
    /\ res = "error" => ~InputsFit
    /\ flushing = "done" /\ res # "error" =>
          \E at : Whole(stream, input, at) /\ CrleAt(stream, input, at, crle, taken, Len(out))

\* The stream is whole when the compressor is done.
LEMMA StreamIsWhole ==
    ASSUME CompressorInv, flushing = "done"
    PROVE  \E at : Whole(stream, input, at)
<1>1. /\ input \in Seq(U8) /\ given = Len(input) /\ data = <<>>
      /\ HeldBack(input, stream, given, data)
  BY DEF CompressorInv
<1>2. PICK at : Cuts(stream, input, at) /\ at[Len(stream)] = given - Len(data)
  BY <1>1 DEF HeldBack
<1>3. stream \in Seq(U8) /\ Len(data) = 0 /\ Len(input) \in Nat
  BY <1>1 DEF HeldBack
<1>4. at[Len(stream)] = Len(input)
  BY <1>1, <1>2, <1>3
<1> QED BY <1>1, <1>2, <1>3, <1>4 DEF Whole, Segments

\* What a step of the reader leaves as it is, and what it has to establish.
StreamKept == stream' = stream /\ input' = input /\ flushing' = flushing /\ flushing = "done"

LEMMA CrleKeeps ==
    ASSUME StreamKept, fed' \in 0 .. Len(stream), taken' \in 0 .. fed', wanted' \in Nat,
           out' \in Seq(U8), Begins(out', input), crle' \in Readers,
           res' \in {"none", "again", "ok", "more", "error"}, destroyed' \in {"no", "ok"},
           wanted' > 0 => res' = "again",
           res' = "more" => crle'.state # "repeated_data_read", res' = "error" => ~InputsFit,
           res' # "error" =>
              \E at : Whole(stream, input, at)
                      /\ CrleAt(stream, input, at, crle', taken', Len(out'))
    PROVE  CrleInv'
<1>1. stream' = stream /\ input' = input /\ flushing' = "done"
  BY DEF StreamKept
<1>2. InputsFit' = InputsFit
  BY DEF InputsFit
<1>3. Begins(out', input') /\ fed' \in 0 .. Len(stream')
  BY <1>1, Zenon
<1>4. res' # "error" => \E at : Whole(stream', input', at)
                               /\ CrleAt(stream', input', at, crle', taken', Len(out'))
  BY <1>1, Zenon
<1>5. ~ (flushing' # "done")
  BY <1>1
<1> QED BY <1>1, <1>2, <1>3, <1>4, <1>5, Zenon DEF CrleInv

\* In a call.
LEMMA InCall ==
    ASSUME CompressorInv, CrleInv, wanted > 0
    PROVE  /\ flushing = "done" /\ res = "again" /\ wanted \in Nat
           /\ stream \in Seq(U8) /\ Len(stream) \in Nat /\ input \in Seq(U8) /\ input \in Inputs
           /\ taken \in 0 .. fed /\ fed \in 0 .. Len(stream) /\ taken \in Nat /\ fed \in Nat
           /\ out \in Seq(U8) /\ Begins(out, input) /\ crle \in Readers /\ destroyed \in {"no", "ok"}
           /\ \E at : Whole(stream, input, at) /\ CrleAt(stream, input, at, crle, taken, Len(out))
<1>1. flushing = "done"
  BY DEF CrleInv
<1>2. stream \in Seq(U8) /\ input \in Seq(U8) /\ input \in Inputs
  BY DEF CompressorInv, HeldBack
<1>3. Len(stream) \in Nat
  BY <1>2
<1>4. /\ fed \in 0 .. Len(stream) /\ taken \in 0 .. fed /\ wanted \in Nat
      /\ out \in Seq(U8) /\ Begins(out, input) /\ crle \in Readers /\ destroyed \in {"no", "ok"}
      /\ res = "again"
  BY Zenon DEF CrleInv
<1>5. res # "error"
  BY <1>4
<1>6. \E at : Whole(stream, input, at) /\ CrleAt(stream, input, at, crle, taken, Len(out))
  BY <1>1, <1>5, Zenon DEF CrleInv
<1>7. taken \in Nat /\ fed \in Nat
  BY <1>3, <1>4
<1> QED BY <1>1, <1>2, <1>3, <1>4, <1>6, <1>7

LEMMA InSegmentOf ==
    ASSUME NEW s, NEW d, NEW at, NEW c, NEW tk, NEW ln,
           CrleAt(s, d, at, c, tk, ln), c.state # "idle"
    PROVE  \E b, e : SegmentOf(s, d, at, b, e) /\ InSegment(s, b, e, at[b], at[e], c, tk, ln)
  BY Zenon DEF CrleAt, SegmentOf

LEMMA AtSegment ==
    ASSUME NEW s, NEW d, NEW at, NEW c, NEW tk, NEW ln, NEW b, NEW e,
           SegmentOf(s, d, at, b, e), InSegment(s, b, e, at[b], at[e], c, tk, ln)
    PROVE  CrleAt(s, d, at, c, tk, ln)
  BY Zenon DEF CrleAt, SegmentOf

\* The first byte of a segment is its kind.
LEMMA BeginsSegment ==
    ASSUME NEW s, NEW d, NEW at, NEW b, NEW e, SegmentOf(s, d, at, b, e),
           NEW c, c.state = SizeState(s, b), c.size = C!NoUsize
    PROVE  s[b + 1] \in {0, 1} /\ CrleAt(s, d, at, c, b + 1, at[b])
<1> DEFINE m == at[b]
           n == at[e]
<1>1. IsSegment(s, d, b, e, m, n)
  BY DEF SegmentOf
<1>2. SegmentIn(s, d, b, e, m, n, Cf!SizeEnd(s, b + 2)) /\ m \in Nat /\ n \in Nat /\ m <= n
  BY SegmentFacts, Zenon
<1> HIDE DEF m, n
<1>3. UsizeFollows(s, b + 1, n - m) /\ n - m \in Nat
  BY <1>1, <1>2 DEF IsSegment, SegmentAt
<1>4. b + 1 + Len(Cf!PackUsize[n - m]) = Cf!SizeEnd(s, b + 2) /\ s[b + 1] \in {0, 1}
  BY <1>2 DEF SegmentIn
<1>5. UsizeRead(c.size, n - m, n - m)
  BY <1>3, UsizeStarts
<1>6. InSize(s, b, m, n, c, b + 1, m)
  BY <1>3, <1>4, <1>5, Zenon DEF InSize
<1>7. CrleAt(s, d, at, c, b + 1, m)
  BY <1>6, AtSegment, Zenon DEF InSegment, m, n
<1> QED BY <1>4, <1>7 DEF m

LEMMA CrleIdle ==
    ASSUME CompressorInv, CrleInv, C!Idle
    PROVE  CrleInv' /\ out' = out
<1>1. /\ wanted > 0 /\ crle.state = "idle" /\ fed - taken > 0 /\ taken' = taken + 1
      /\ \/ /\ stream[taken + 1] = 0
            /\ crle' = [crle EXCEPT !.state = "scattered_size", !.size = C!NoUsize]
            /\ res' = "again" /\ wanted' = wanted
         \/ /\ stream[taken + 1] = 1
            /\ crle' = [crle EXCEPT !.state = "repeated_repetitions", !.size = C!NoUsize]
            /\ res' = "again" /\ wanted' = wanted
         \/ stream[taken + 1] \notin {0, 1}
      /\ fed' = fed /\ out' = out /\ destroyed' = destroyed
      /\ stream' = stream /\ input' = input /\ flushing' = flushing
  BY DEF C!Idle, C!Get, C!Turn, C!ChunkAvailable, C!ChunkLeft, C!NextByte, C!Scattered,
         C!Repeated, C!Again, C!compressor
<1>2. /\ flushing = "done" /\ res = "again" /\ wanted \in Nat
      /\ stream \in Seq(U8) /\ Len(stream) \in Nat /\ input \in Seq(U8) /\ input \in Inputs
      /\ taken \in 0 .. fed /\ fed \in 0 .. Len(stream) /\ taken \in Nat /\ fed \in Nat
      /\ out \in Seq(U8) /\ Begins(out, input) /\ crle \in Readers /\ destroyed \in {"no", "ok"}
  BY <1>1, InCall
<1>3. PICK at : Whole(stream, input, at) /\ CrleAt(stream, input, at, crle, taken, Len(out))
  BY <1>1, InCall
<1>4. taken \in DOMAIN at /\ Len(out) = at[taken]
  <2>1. ASSUME NEW b, NEW e, InSegment(stream, b, e, at[b], at[e], crle, taken, Len(out))
        PROVE  FALSE
    BY <1>1, <2>1 DEF InSegment, InSize, InScattered, InRun, SizeState
  <2> QED BY <1>3, <2>1 DEF CrleAt
<1>5. taken < Len(stream)
  BY <1>1, <1>2
<1>6. PICK e : SegmentOf(stream, input, at, taken, e)
  BY <1>3, <1>4, <1>5, SegmentOfCut DEF Whole
<1>7. ASSUME NEW st \in {"scattered_size", "repeated_repetitions"}, st = SizeState(stream, taken),
             crle' = [crle EXCEPT !.state = st, !.size = C!NoUsize],
             res' = "again", wanted' = wanted
      PROVE  CrleInv'
  <2>1. crle' \in Readers /\ crle'.state = st /\ crle'.size = C!NoUsize
    <3>1. C!NoUsize \in [value : Int, offset : Int]
      BY DEF C!NoUsize
    <3>2. st \in {"idle", "scattered_size", "scattered_data", "repeated_repetitions",
                  "repeated_data", "repeated_data_read"}
      OBVIOUS
    <3> QED BY <1>2, <1>7, <3>1, <3>2 DEF Readers
  <2>2. CrleAt(stream, input, at, crle', taken + 1, at[taken])
    BY <1>6, <1>7, <2>1, BeginsSegment
  <2>3. CrleAt(stream, input, at, crle', taken', Len(out'))
    BY <1>1, <1>4, <2>2
  <2>4. StreamKept
    BY <1>1, <1>2 DEF StreamKept
  <2>5. /\ fed' \in 0 .. Len(stream) /\ taken' \in 0 .. fed' /\ wanted' \in Nat /\ out' \in Seq(U8)
        /\ Begins(out', input) /\ destroyed' \in {"no", "ok"}
    BY <1>1, <1>2, <1>7
  <2>6. /\ res' \in {"none", "again", "ok", "more", "error"} /\ res' # "more" /\ res' # "error"
    BY <1>7
  <2> QED BY <1>3, <1>7, <2>1, <2>3, <2>4, <2>5, <2>6, CrleKeeps, Zenon
<1>8. stream[taken + 1] \in {0, 1}
  <2>1. SegmentIn(stream, input, taken, e, at[taken], at[e], Cf!SizeEnd(stream, taken + 2))
    BY <1>6, SegmentFacts
  <2> QED BY <2>1 DEF SegmentIn
<1>9. CrleInv'
  <2>1. CASE stream[taken + 1] = 0
    <3>1. "scattered_size" = SizeState(stream, taken) /\ 0 # 1
      BY <2>1 DEF SizeState
    <3> QED BY <1>1, <1>7, <1>8, <2>1, <3>1, Zenon
  <2>2. CASE stream[taken + 1] = 1
    <3>1. "repeated_repetitions" = SizeState(stream, taken) /\ 0 # 1
      BY <2>2 DEF SizeState
    <3> QED BY <1>1, <1>7, <1>8, <2>2, <3>1, Zenon
  <2> QED BY <1>8, <2>1, <2>2
<1> QED BY <1>1, <1>9

\* A byte of a size, after which the reader is d.
Unpacks(s, b, m, n, c, tk, ln, d) ==
    LET size == C!UsizeAfter(c.size, s[tk + 1])
    IN  /\ c.size.offset \in Nat
        /\ c.size.offset + 7 > 32 => n >= 2 ^ 28
        /\ c.size.offset + 7 <= 32 /\ s[tk + 1] >= 128 =>
              (d.state = c.state /\ d.size = size => InSize(s, b, m, n, d, tk + 1, ln))
        /\ c.size.offset + 7 <= 32 /\ s[tk + 1] < 128 =>
              size.value = n - m /\ tk + 1 = Cf!SizeEnd(s, b + 2)

LEMMA SizeIsUnpacked ==
    ASSUME NEW s \in Seq(U8), NEW b, NEW m \in Nat, NEW n \in Nat, m <= n, NEW c,
           NEW tk \in Nat, NEW ln, InSize(s, b, m, n, c, tk, ln), NEW d
    PROVE  Unpacks(s, b, m, n, c, tk, ln, d)
<1> DEFINE v == n - m
           end == Cf!SizeEnd(s, b + 2)
           o == c.size.offset
           x == s[tk + 1]
<1>1. PICK r \in Nat : /\ UsizeFollows(s, tk, r) /\ UsizeRead(c.size, n - m, r)
                       /\ tk + Len(Cf!PackUsize[r]) = end
  BY DEF InSize
<1>2. c.state = SizeState(s, b) /\ ln = m /\ v \in Nat
  BY DEF InSize
<1> DEFINE q == r \div 128
           k == Len(Cf!PackUsize[r])
           l == Len(Cf!PackUsize[q])
<1>3. /\ k \in Nat
      /\ \/ r < 128 /\ k = 1 /\ x = r
         \/ /\ r >= 128 /\ x = 128 + (r % 128) /\ q \in Nat /\ k = 1 + l
            /\ UsizeFollows(s, tk + 1, q)
  BY <1>1, UsizeByte
<1>4. UsizeRead(c.size, v, r)
  BY <1>1
<1>5. /\ o \in Nat /\ o + 7 > 32 => v >= 2 ^ 28
      /\ o + 7 <= 32 => o \in {0, 7, 14, 21}
  <2> HIDE DEF v
  <2> QED BY <1>2, <1>4, UsizeLarge
<1>6. o \in Nat
  <2> HIDE DEF v
  <2> QED BY <1>2, <1>4, UsizeLarge
<1>7. o + 7 > 32 => n >= 2 ^ 28
  <2> SUFFICES ASSUME o + 7 > 32 PROVE n >= 2 ^ 28
    OBVIOUS
  <2>1. v >= 2 ^ 28
    BY <1>5, <1>6
  <2> QED BY <2>1, SMT
<1> HIDE DEF v, k, end
<1>8. ASSUME o + 7 <= 32, x >= 128, d.state = c.state, d.size = C!UsizeAfter(c.size, x)
      PROVE  InSize(s, b, m, n, d, tk + 1, ln)
  <2>1. r >= 128 /\ x = 128 + (r % 128) /\ q \in Nat /\ k = 1 + l /\ UsizeFollows(s, tk + 1, q)
    BY <1>3, <1>8
  <2>2. UsizeRead(d.size, v, q)
    BY <1>2, <1>4, <1>8, <2>1, UsizeGoesOn
  <2>3. tk + k = end
    BY <1>1 DEF end, k
  <2>4. l \in Nat
    BY <2>1, SizeLength
  <2>5. tk + 1 + l = end
    <3>1. k = 1 + l /\ tk + k = end
      BY <2>1, <2>3
    <3> HIDE DEF l, q
    <3> QED BY <2>4, <3>1
  <2> QED BY <1>2, <1>8, <2>1, <2>2, <2>5, Zenon DEF InSize, v, end
<1>9. ASSUME o + 7 <= 32, x < 128
      PROVE  C!UsizeAfter(c.size, x).value = v /\ tk + 1 = end
  <2>1. r < 128 /\ k = 1 /\ x = r
    <3>1. r % 128 \in 0 .. 127
      BY SMT
    <3> QED BY <1>3, <1>9, <3>1
  <2>2. C!UsizeAfter(c.size, r).value = v
    BY <1>2, <1>4, <1>9, <2>1, UsizeEnds
  <2>3. tk + k = end
    BY <1>1 DEF end, k
  <2> QED BY <2>1, <2>2, <2>3
<1> QED BY <1>6, <1>7, <1>8, <1>9, Zenon DEF Unpacks, v, end

\* The segment after its size.
AfterSize(s, b) == IF s[b + 1] = 0 THEN "scattered_data" ELSE "repeated_data"

LEMMA BeginsBody ==
    ASSUME NEW s, NEW d, NEW at, NEW b, NEW e, SegmentOf(s, d, at, b, e),
           NEW c, c.state = AfterSize(s, b), c.left = at[e] - at[b]
    PROVE  CrleAt(s, d, at, c, Cf!SizeEnd(s, b + 2), at[b])
<1> DEFINE m == at[b]
           n == at[e]
           body == Cf!SizeEnd(s, b + 2)
<1>1. SegmentIn(s, d, b, e, m, n, body) /\ m \in Nat /\ n \in Nat /\ m <= n /\ e \in Nat
  BY SegmentFacts, Zenon
<1>2. IsSegment(s, d, b, e, m, n)
  BY DEF SegmentOf
<1> HIDE DEF m, n, body
<1>3. body \in Nat /\ s[b + 1] \in {0, 1}
      /\ (s[b + 1] = 0 => e = body + (n - m)) /\ (s[b + 1] = 1 => e = body + 1)
  BY <1>1 DEF SegmentIn
<1>4. CASE s[b + 1] = 0
  <2>1. c.state = "scattered_data"
    BY <1>4 DEF AfterSize
  <2>2. body \in body .. e /\ m = m + (body - body) /\ c.left = n - m /\ (n = m \/ body < e)
    BY <1>1, <1>3, <1>4 DEF m, n
  <2>3. InScattered(s, b, e, m, n, c, body, m)
    BY <1>4, <2>1, <2>2, Zenon DEF InScattered, body
  <2> QED BY <2>3, AtSegment, Zenon DEF InSegment, m, n, body
<1>5. CASE s[b + 1] = 1
  <2>1. c.state = "repeated_data"
    BY <1>5 DEF AfterSize
  <2>2. InRun(s, b, e, m, n, c, body, m)
    BY <1>5, <2>1, Zenon DEF InRun, body, m, n
  <2> QED BY <2>2, AtSegment, Zenon DEF InSegment, m, n, body
<1> QED BY <1>3, <1>4, <1>5

LEMMA CrleUnpackUsize ==
    ASSUME CompressorInv, CrleInv, NEW st, NEW after,
           \/ st = "scattered_size" /\ after = "scattered_data"
           \/ st = "repeated_repetitions" /\ after = "repeated_data",
           C!UnpackUsize(st, after)
    PROVE  CrleInv' /\ out' = out
<1> DEFINE x == stream[taken + 1]
           size == C!UsizeAfter(crle.size, x)
           o == crle.size.offset
<1>1. /\ wanted > 0 /\ crle.state = st /\ fed - taken > 0 /\ taken' = taken + 1
      /\ \/ /\ o + 7 > 32 /\ res' = "error" /\ wanted' = 0 /\ crle' = crle
         \/ /\ o + 7 <= 32 /\ x >= 128 /\ crle' = [crle EXCEPT !.size = size]
            /\ res' = "again" /\ wanted' = wanted
         \/ /\ o + 7 <= 32 /\ x < 128
            /\ crle' = [crle EXCEPT !.size = size, !.left = size.value, !.state = after]
            /\ res' = "again" /\ wanted' = wanted
      /\ fed' = fed /\ out' = out /\ destroyed' = destroyed
      /\ stream' = stream /\ input' = input /\ flushing' = flushing
  BY DEF C!UnpackUsize, C!Get, C!Turn, C!ChunkAvailable, C!ChunkLeft, C!NextByte, C!Again,
         C!Return, C!compressor
<1>2. /\ flushing = "done" /\ res = "again" /\ wanted \in Nat
      /\ stream \in Seq(U8) /\ Len(stream) \in Nat /\ input \in Seq(U8) /\ input \in Inputs
      /\ taken \in 0 .. fed /\ fed \in 0 .. Len(stream) /\ taken \in Nat /\ fed \in Nat
      /\ out \in Seq(U8) /\ Begins(out, input) /\ crle \in Readers /\ destroyed \in {"no", "ok"}
  BY <1>1, InCall
<1>3. PICK at : Whole(stream, input, at) /\ CrleAt(stream, input, at, crle, taken, Len(out))
  BY <1>1, InCall
<1>4. PICK b, e : /\ SegmentOf(stream, input, at, b, e)
                  /\ InSegment(stream, b, e, at[b], at[e], crle, taken, Len(out))
  <2>1. crle.state # "idle"
    BY <1>1
  <2> QED BY <1>3, <2>1, InSegmentOf
<1> DEFINE m == at[b]
           n == at[e]
           end == Cf!SizeEnd(stream, b + 2)
<1>5. m \in Nat /\ n \in Nat /\ m <= n /\ n <= Len(input)
  BY <1>4, SegmentFacts
<1>6. InSize(stream, b, m, n, crle, taken, Len(out)) /\ st = SizeState(stream, b) /\ Len(out) = m
  <2>1. /\ ~ InScattered(stream, b, e, m, n, crle, taken, Len(out))
        /\ ~ InRun(stream, b, e, m, n, crle, taken, Len(out))
    <3>1. crle.state \notin {"scattered_data", "repeated_data", "repeated_data_read"}
      BY <1>1
    <3> QED BY <3>1 DEF InScattered, InRun
  <2>2. InSize(stream, b, m, n, crle, taken, Len(out))
    BY <1>4, <2>1, Zenon DEF InSegment
  <2> QED BY <1>1, <2>2, Zenon DEF InSize
<1>7. after = AfterSize(stream, b)
  BY <1>6 DEF SizeState, AfterSize
<1> HIDE DEF m, n, end, x, o
<1>8. /\ o \in Nat
      /\ o + 7 > 32 => n >= 2 ^ 28
      /\ o + 7 <= 32 /\ x >= 128 =>
            (crle'.state = crle.state /\ crle'.size = size =>
                InSize(stream, b, m, n, crle', taken + 1, Len(out)))
      /\ o + 7 <= 32 /\ x < 128 => size.value = n - m /\ taken + 1 = end
  <2> DEFINE new == crle'
  <2> HIDE DEF new
  <2>1. Unpacks(stream, b, m, n, crle, taken, Len(out), new)
    BY <1>2, <1>5, <1>6, SizeIsUnpacked
  <2> QED BY <2>1, Zenon DEF Unpacks, o, x, end, new
<1>9. size \in [value : Int, offset : Int] /\ size.value \in Int
  <2>1. crle.size \in [value : Int, offset : Int]
    BY <1>2 DEF Readers
  <2>2. x \in U8
    <3>1. taken + 1 \in 1 .. Len(stream)
      BY <1>1, <1>2
    <3> QED BY <1>2, <3>1 DEF x
  <2>3. crle.size.value \in Int /\ x \in Int /\ o \in Int
    BY <2>1, <2>2, Bytes DEF o
  <2>4. 2 ^ o \in Int
    <3>1. o \in Nat
      BY <1>8
    <3> QED BY <3>1
  <2>5. (x % 128) * 2 ^ o \in Int
    <3> DEFINE p == 2 ^ o
               y == x % 128
    <3>1. y \in Int /\ p \in Int
      BY <2>3, <2>4
    <3> HIDE DEF y, p
    <3>2. y * p \in Int
      BY <3>1
    <3> QED BY <3>2 DEF y, p
  <2>6. size = [value |-> crle.size.value + (x % 128) * 2 ^ o, offset |-> o + 7]
    BY DEF C!UsizeAfter, o
  <2> DEFINE y == (x % 128) * 2 ^ o
  <2> HIDE DEF y, size
  <2> QED BY <2>3, <2>5, <2>6 DEF y
<1> HIDE DEF size
<1>10. StreamKept
  BY <1>1, <1>2 DEF StreamKept
<1>11. /\ fed' \in 0 .. Len(stream) /\ taken' \in 0 .. fed' /\ wanted' \in Nat /\ out' \in Seq(U8)
       /\ Begins(out', input) /\ destroyed' \in {"no", "ok"} /\ wanted' \in {0, wanted}
  BY <1>1, <1>2
<1>12. CASE o + 7 > 32 /\ res' = "error" /\ wanted' = 0 /\ crle' = crle
  <2>1. ~InputsFit
    <3>1. n >= 2 ^ 28
      BY <1>8, <1>12
    <3>2. Len(input) >= 2 ^ 28 /\ Len(input) \in Nat
      BY <1>2, <1>5, <3>1, SMT
    <3>3. ~ (Len(input) < 2 ^ 28)
      BY <3>2, SMT
    <3> QED BY <1>2, <3>3, Zenon DEF InputsFit
  <2>2. ~ (wanted' > 0) /\ res' # "more" /\ res' \in {"none", "again", "ok", "more", "error"}
    BY <1>12
  <2>3. crle' \in Readers
    BY <1>2, <1>12
  <2> QED BY <1>1, <1>10, <1>11, <1>12, <2>1, <2>2, <2>3, CrleKeeps, Zenon
<1>13. CASE /\ o + 7 <= 32 /\ x >= 128 /\ crle' = [crle EXCEPT !.size = size]
            /\ res' = "again" /\ wanted' = wanted
  <2>1. crle' \in Readers /\ crle'.state = crle.state /\ crle'.size = size
    BY <1>2, <1>9, <1>13 DEF Readers
  <2>2. InSize(stream, b, m, n, crle', taken + 1, Len(out))
    BY <1>8, <1>13, <2>1, Zenon
  <2>3. CrleAt(stream, input, at, crle', taken', Len(out'))
    <3>1. CrleAt(stream, input, at, crle', taken + 1, Len(out))
      BY <1>4, <2>2, AtSegment, Zenon DEF InSegment, m, n
    <3> QED BY <1>1, <3>1, Zenon
  <2>4. res' # "more" /\ res' # "error" /\ res' \in {"none", "again", "ok", "more", "error"}
    BY <1>13
  <2> QED BY <1>1, <1>3, <1>10, <1>11, <1>13, <2>1, <2>3, <2>4, CrleKeeps, Zenon
<1>14. CASE /\ o + 7 <= 32 /\ x < 128
            /\ crle' = [crle EXCEPT !.size = size, !.left = size.value, !.state = after]
            /\ res' = "again" /\ wanted' = wanted
  <2>1. crle' \in Readers /\ crle'.state = after /\ crle'.left = size.value
    <3>1. after \in {"idle", "scattered_size", "scattered_data", "repeated_repetitions",
                     "repeated_data", "repeated_data_read"}
      BY <1>7 DEF AfterSize
    <3> QED BY <1>2, <1>9, <1>14, <3>1 DEF Readers
  <2>2. crle'.left = n - m /\ taken + 1 = end
    BY <1>8, <1>14, <2>1, Zenon
  <2>3. CrleAt(stream, input, at, crle', end, m)
    BY <1>4, <1>7, <2>1, <2>2, BeginsBody, Zenon DEF m, n, end
  <2>4. CrleAt(stream, input, at, crle', taken', Len(out'))
    BY <1>1, <1>6, <2>2, <2>3, Zenon
  <2>5. res' # "more" /\ res' # "error" /\ res' \in {"none", "again", "ok", "more", "error"}
    BY <1>14
  <2> QED BY <1>1, <1>3, <1>10, <1>11, <1>14, <2>1, <2>4, <2>5, CrleKeeps, Zenon
<1> QED BY <1>1, <1>12, <1>13, <1>14

\* What a call delivers is what comes next, at most as much as is wanted.
Grows == out' = out \/ \E n \in 1 .. wanted : Len(out') = Len(out) + n

\* The reader c is c2 after `size` bytes of a segment.
GoesOn(s, b, e, m, n, c, c2, size, ln, tk) ==
    /\ c \in Readers /\ size \in Nat /\ ln \in Nat /\ c.left = n - ln
    /\ c2 = [c EXCEPT !.left = @ - size, !.state = IF c.left = size THEN "idle" ELSE @]
    /\ size = c.left => tk = e
    /\ size # c.left => InSegment(s, b, e, m, n, c2, tk, ln + size)

LEMMA SegmentDelivered ==
    ASSUME NEW s, NEW d, NEW at, NEW b, NEW e, SegmentOf(s, d, at, b, e),
           NEW c, NEW c2, NEW size, NEW ln, NEW tk,
           GoesOn(s, b, e, at[b], at[e], c, c2, size, ln, tk)
    PROVE  c2 \in Readers /\ CrleAt(s, d, at, c2, tk, ln + size)
<1>0. /\ c \in Readers /\ size \in Nat /\ ln \in Nat /\ c.left = at[e] - ln
      /\ c2 = [c EXCEPT !.left = @ - size, !.state = IF c.left = size THEN "idle" ELSE @]
      /\ size = c.left => tk = e
      /\ size # c.left => InSegment(s, b, e, at[b], at[e], c2, tk, ln + size)
  BY Zenon DEF GoesOn
<1>1. c.left \in Int /\ at[e] \in Nat /\ e \in DOMAIN at
  BY <1>0, SegmentFacts DEF Readers
<1>2. c2 \in Readers
  <2> DEFINE st == IF c.left = size THEN "idle" ELSE c.state
             l == c.left - size
  <2>1. c2 = [c EXCEPT !.left = l, !.state = st]
    BY <1>0
  <2>2. l \in Int /\ st \in {"idle", "scattered_size", "scattered_data", "repeated_repetitions",
                            "repeated_data", "repeated_data_read"}
    BY <1>0, <1>1 DEF Readers
  <2> HIDE DEF l, st
  <2> QED BY <1>0, <2>1, <2>2 DEF Readers
<1>3. CASE size = c.left
  <2>1. c2.state = "idle"
    BY <1>0, <1>3 DEF Readers
  <2>2. tk = e /\ ln + size = at[e]
    BY <1>0, <1>1, <1>3
  <2> QED BY <1>1, <1>2, <2>1, <2>2, Zenon DEF CrleAt
<1>4. CASE size # c.left
  BY <1>0, <1>2, <1>4, AtSegment, Zenon
<1> QED BY <1>3, <1>4

LEMMA LeastOf ==
    ASSUME NEW a \in Int, NEW b \in Int
    PROVE  C!MinOf(a, b) \in {a, b} /\ C!MinOf(a, b) <= a /\ C!MinOf(a, b) <= b
  BY DEF C!MinOf

LEMMA CrleScatteredData ==
    ASSUME CompressorInv, CrleInv, C!ScatteredData
    PROVE  CrleInv' /\ taken' >= taken /\ \E n \in 1 .. wanted : Len(out') = Len(out) + n
<1> DEFINE size == C!ScatteredBytes
           p == SubSeq(stream, taken + 1, taken + size)
           ln == Len(out)
<1>1. /\ wanted > 0 /\ crle.state = "scattered_data" /\ fed - taken > 0
      /\ out' = out \o p /\ taken' = taken + size
      /\ crle' = [crle EXCEPT !.left = @ - size, !.state = IF crle.left = size THEN "idle" ELSE @]
      /\ res' = "ok" /\ wanted' = 0
      /\ fed' = fed /\ destroyed' = destroyed
      /\ stream' = stream /\ input' = input /\ flushing' = flushing
  BY DEF C!ScatteredData, C!Turn, C!ChunkAvailable, C!ChunkLeft, C!Delivered, C!Return, C!compressor
<1>2. /\ flushing = "done" /\ res = "again" /\ wanted \in Nat
      /\ stream \in Seq(U8) /\ Len(stream) \in Nat /\ input \in Seq(U8) /\ input \in Inputs
      /\ taken \in 0 .. fed /\ fed \in 0 .. Len(stream) /\ taken \in Nat /\ fed \in Nat
      /\ out \in Seq(U8) /\ Begins(out, input) /\ crle \in Readers /\ destroyed \in {"no", "ok"}
  BY <1>1, InCall
<1>3. PICK at : Whole(stream, input, at) /\ CrleAt(stream, input, at, crle, taken, Len(out))
  BY <1>1, InCall
<1>4. PICK b, e : /\ SegmentOf(stream, input, at, b, e)
                  /\ InSegment(stream, b, e, at[b], at[e], crle, taken, Len(out))
  <2>1. crle.state # "idle"
    BY <1>1
  <2> QED BY <1>3, <2>1, InSegmentOf
<1> DEFINE m == at[b]
           n == at[e]
           body == Cf!SizeEnd(stream, b + 2)
           k == taken - body
<1>5. /\ m \in Nat /\ n \in Nat /\ m <= n /\ n <= Len(input) /\ Len(input) \in Nat
      /\ SegmentIn(stream, input, b, e, m, n, body) /\ e \in Nat /\ e <= Len(stream)
  BY <1>2, <1>4, SegmentFacts
<1>6. InScattered(stream, b, e, m, n, crle, taken, ln)
  <2>1. crle.state \notin {"scattered_size", "repeated_repetitions", "repeated_data", "repeated_data_read"}
    BY <1>1
  <2>2. ~ InSize(stream, b, m, n, crle, taken, ln) /\ ~ InRun(stream, b, e, m, n, crle, taken, ln)
    BY <2>1 DEF InSize, InRun, SizeState
  <2> QED BY <1>4, <2>2, Zenon DEF InSegment
<1>7. n = m => e = Len(stream)
  <2>1. SegmentAt(stream, input, b, e, m, n)
    BY <1>4 DEF SegmentOf, IsSegment
  <2> HIDE DEF m, n
  <2> QED BY <2>1, Zenon DEF SegmentAt
<1> HIDE DEF m, n, body
<1>8. /\ stream[b + 1] = 0 /\ taken \in body .. e /\ ln = m + (taken - body)
      /\ crle.left = n - ln /\ (n = m \/ taken < e)
  BY <1>6 DEF InScattered, body
<1>9. body \in Nat /\ e = body + (n - m) /\ \A j \in 1 .. n - m : stream[body + j] = input[m + j]
  BY <1>5, <1>8 DEF SegmentIn
<1>10. /\ taken < e /\ k \in Nat /\ crle.left = e - taken /\ crle.left > 0 /\ crle.left \in Int
       /\ ln = m + k /\ ln \in Nat /\ n - ln = crle.left
  <2>1. taken < e
    BY <1>1, <1>2, <1>5, <1>7, <1>8
  <2>2. e = body + (n - m) /\ body \in Nat
    BY <1>9
  <2>3. ln = m + k /\ k \in Nat
    BY <1>2, <1>8, <2>2
  <2> HIDE DEF ln
  <2>4. n - ln = e - taken /\ ln \in Nat
    BY <1>2, <1>5, <2>2, <2>3
  <2> QED BY <1>2, <1>5, <1>8, <2>1, <2>3, <2>4, SMTT(30)
<1>11. /\ size \in Nat /\ size >= 1 /\ size <= wanted /\ size <= crle.left /\ size <= fed - taken
  <2> DEFINE w == C!MinOf(wanted, crle.left)
  <2>1. w \in {wanted, crle.left} /\ w <= wanted /\ w <= crle.left
    BY <1>2, <1>10, LeastOf
  <2> HIDE DEF w
  <2>2. w \in Int /\ fed - taken \in Int
    BY <1>2, <1>10, <2>1
  <2>3. C!MinOf(w, fed - taken) \in {w, fed - taken} /\ C!MinOf(w, fed - taken) <= w
        /\ C!MinOf(w, fed - taken) <= fed - taken
    BY <2>2, LeastOf
  <2>4. size = C!MinOf(w, fed - taken)
    BY DEF C!ScatteredBytes, C!ChunkLeft, w
  <2> HIDE DEF size
  <2> QED BY <1>1, <1>2, <1>10, <2>1, <2>2, <2>3, <2>4
<1> HIDE DEF size
<1>12. p \in Seq(U8) /\ Len(p) = size /\ \A j \in 1 .. size : p[j] = stream[taken + j]
  <2> DEFINE f == taken + size
  <2>1. taken \in 0 .. Len(stream) /\ f \in taken .. Len(stream) /\ f - taken = size
    BY <1>2, <1>11
  <2> HIDE DEF f
  <2>2. /\ SubSeq(stream, taken + 1, f) \in Seq(U8) /\ Len(SubSeq(stream, taken + 1, f)) = f - taken
        /\ \A j \in 1 .. f - taken : SubSeq(stream, taken + 1, f)[j] = stream[taken + j]
    BY <1>2, <2>1, Part
  <2> QED BY <2>1, <2>2, Zenon DEF f
<1> HIDE DEF p
<1>13. ASSUME NEW j \in 1 .. size PROVE p[j] = input[ln + j]
  <2>1. k + j \in 1 .. n - m /\ body + (k + j) = taken + j /\ m + (k + j) = ln + j
    BY <1>2, <1>5, <1>9, <1>10, <1>11
  <2>2. stream[body + (k + j)] = input[m + (k + j)]
    BY <1>9, <2>1
  <2> QED BY <1>12, <2>1, <2>2
<1>14. out' \in Seq(U8) /\ Len(out') = ln + size /\ Begins(out', input)
  <2>1. Len(out) + size <= Len(input)
    BY <1>5, <1>10, <1>11
  <2>2. out \o p \in Seq(U8) /\ Len(out \o p) = Len(out) + size /\ Begins(out \o p, input)
    <3>1. NextOf(input, out, p, size)
      BY <1>2, <1>11, <1>12, <1>13, <2>1 DEF NextOf
    <3> QED BY <3>1, Appends
  <2> QED BY <1>1, <2>2
<1>15. crle' \in Readers /\ CrleAt(stream, input, at, crle', taken', ln + size)
  <2>1. crle.left = at[e] - ln
    BY <1>8 DEF n
  <2>2. size = crle.left => taken' = e
    BY <1>1, <1>2, <1>5, <1>10, <1>11
  <2>3. ASSUME size # crle.left PROVE InSegment(stream, b, e, at[b], at[e], crle', taken', ln + size)
    <3>1. crle'.state = "scattered_data" /\ crle'.left = crle.left - size
      BY <1>1, <1>2, <2>3 DEF Readers
    <3>2. /\ taken' \in body .. e /\ ln + size = m + (taken' - body) /\ taken' < e
          /\ crle'.left = n - (ln + size)
      <4>1. e = body + (n - m) /\ body \in Nat
        BY <1>9
      <4> HIDE DEF ln, k
      <4>2. taken' = taken + size /\ taken' < e
        <5>1. size \in Nat /\ size <= crle.left /\ crle.left = e - taken /\ size # crle.left
          BY <1>10, <1>11, <2>3
        <5>2. taken' = taken + size /\ taken \in Nat /\ e \in Nat
          BY <1>1, <1>2, <1>5, <1>11, Zenon
        <5> QED BY ONLY <5>1, <5>2
      <4>3. taken' \in body .. e /\ crle'.left = n - (ln + size)
        BY <1>2, <1>5, <1>8, <1>10, <1>11, <3>1, <4>1, <4>2
      <4>4. ln + size = m + (taken' - body)
        BY <1>2, <1>5, <1>8, <1>11, <4>1, <4>2
      <4> QED BY <4>2, <4>3, <4>4
    <3>3. InScattered(stream, b, e, m, n, crle', taken', ln + size)
      BY <1>8, <3>1, <3>2, Zenon DEF InScattered, body
    <3> QED BY <3>3, Zenon DEF InSegment, m, n
  <2>4. crle \in Readers /\ size \in Nat /\ ln \in Nat
    BY <1>2, <1>10, <1>11
  <2> DEFINE tk == taken'
             c2 == crle'
  <2> HIDE DEF ln, tk, c2
  <2>5. c2 = [crle EXCEPT !.left = @ - size, !.state = IF crle.left = size THEN "idle" ELSE @]
    BY <1>1 DEF c2
  <2>6. size = crle.left => tk = e
    BY <2>2 DEF tk
  <2>7. size # crle.left => InSegment(stream, b, e, at[b], at[e], c2, tk, ln + size)
    BY <2>3 DEF tk, c2
  <2>8. c2 \in Readers /\ CrleAt(stream, input, at, c2, tk, ln + size)
    <3>1. GoesOn(stream, b, e, at[b], at[e], crle, c2, size, ln, tk)
      BY <2>1, <2>4, <2>5, <2>6, <2>7, Zenon DEF GoesOn
    <3> QED BY <1>4, <3>1, SegmentDelivered
  <2> QED BY <2>8 DEF tk, c2
<1>16. CrleInv'
  <2>1. StreamKept
    BY <1>1, <1>2 DEF StreamKept
  <2>2. /\ fed' \in 0 .. Len(stream) /\ taken' \in 0 .. fed' /\ wanted' \in Nat
        /\ destroyed' \in {"no", "ok"} /\ ~ (wanted' > 0)
    BY <1>1, <1>2, <1>11
  <2>3. /\ res' \in {"none", "again", "ok", "more", "error"} /\ res' # "more" /\ res' # "error"
    BY <1>1
  <2>4. CrleAt(stream, input, at, crle', taken', Len(out'))
    BY <1>14, <1>15
  <2> QED BY <1>3, <1>14, <1>15, <2>1, <2>2, <2>3, <2>4, CrleKeeps, Zenon
<1>17. size \in 1 .. wanted /\ taken' >= taken
  BY <1>1, <1>2, <1>11
<1> QED BY <1>14, <1>16, <1>17

LEMMA CrleRepeatedData ==
    ASSUME CompressorInv, CrleInv, C!RepeatedData
    PROVE  CrleInv' /\ out' = out
<1> DEFINE ln == Len(out)
           c2 == crle'
<1>1. /\ wanted > 0 /\ crle.state = "repeated_data" /\ fed - taken > 0 /\ taken' = taken + 1
      /\ c2 = [crle EXCEPT !.value = stream[taken + 1], !.state = "repeated_data_read"]
      /\ res' = "again" /\ wanted' = wanted
      /\ fed' = fed /\ out' = out /\ destroyed' = destroyed
      /\ stream' = stream /\ input' = input /\ flushing' = flushing
  BY DEF C!RepeatedData, C!Get, C!Turn, C!ChunkAvailable, C!ChunkLeft, C!NextByte, C!Again,
         C!compressor
<1>2. /\ flushing = "done" /\ res = "again" /\ wanted \in Nat
      /\ stream \in Seq(U8) /\ Len(stream) \in Nat /\ input \in Seq(U8) /\ input \in Inputs
      /\ taken \in 0 .. fed /\ fed \in 0 .. Len(stream) /\ taken \in Nat /\ fed \in Nat
      /\ out \in Seq(U8) /\ Begins(out, input) /\ crle \in Readers /\ destroyed \in {"no", "ok"}
  BY <1>1, InCall
<1>3. PICK at : Whole(stream, input, at) /\ CrleAt(stream, input, at, crle, taken, Len(out))
  BY <1>1, InCall
<1>4. PICK b, e : /\ SegmentOf(stream, input, at, b, e)
                  /\ InSegment(stream, b, e, at[b], at[e], crle, taken, Len(out))
  <2>1. crle.state # "idle"
    BY <1>1
  <2> QED BY <1>3, <2>1, InSegmentOf
<1> DEFINE m == at[b]
           n == at[e]
           body == Cf!SizeEnd(stream, b + 2)
<1>5. /\ m \in Nat /\ n \in Nat /\ m <= n /\ n <= Len(input) /\ Len(input) \in Nat
      /\ SegmentIn(stream, input, b, e, m, n, body) /\ e \in Nat /\ e <= Len(stream)
  BY <1>2, <1>4, SegmentFacts
<1>6. InRun(stream, b, e, m, n, crle, taken, ln)
  <2>1. crle.state \notin {"scattered_size", "repeated_repetitions", "scattered_data"}
    BY <1>1
  <2>2. ~ InSize(stream, b, m, n, crle, taken, ln)
        /\ ~ InScattered(stream, b, e, m, n, crle, taken, ln)
    BY <2>1 DEF InSize, InScattered, SizeState
  <2> QED BY <1>4, <2>2, Zenon DEF InSegment
<1> HIDE DEF m, n, body, c2
<1>7. stream[b + 1] = 1 /\ taken = body /\ ln = m /\ crle.left = n - m
  <2>1. crle.state # "repeated_data_read"
    BY <1>1
  <2> QED BY <1>6, <2>1, Zenon DEF InRun, body
<1>8. e = body + 1 /\ n > m
  BY <1>5, <1>7 DEF SegmentIn
<1>9. c2 \in Readers /\ c2.state = "repeated_data_read" /\ c2.left = n - m /\ c2.value = stream[e]
  <2>1. taken + 1 = e
    BY <1>7, <1>8
  <2>2. stream[taken + 1] \in Int
    <3>1. e \in 1 .. Len(stream)
      BY <1>1, <1>2, <1>5, <2>1
    <3>2. stream[e] \in U8
      BY <1>2, <3>1
    <3> QED BY <2>1, <3>2, Bytes
  <2>3. c2 = [crle EXCEPT !.value = stream[e], !.state = "repeated_data_read"]
    BY <1>1, <2>1
  <2> QED BY <1>2, <1>7, <2>1, <2>2, <2>3 DEF Readers
<1>10. InRun(stream, b, e, m, n, c2, e, ln)
  <2>1. ln \in m .. n - 1
    BY <1>5, <1>7, <1>8
  <2> QED BY <1>7, <1>9, <2>1, Zenon DEF InRun
<1>11. CrleAt(stream, input, at, c2, taken', Len(out'))
  <2>1. CrleAt(stream, input, at, c2, e, Len(out))
    BY <1>4, <1>10, AtSegment, Zenon DEF InSegment, m, n
  <2>2. taken' = e
    BY <1>1, <1>7, <1>8
  <2> QED BY <1>1, <2>1, <2>2, Zenon
<1>12. CrleInv'
  <2>1. StreamKept
    BY <1>1, <1>2 DEF StreamKept
  <2>2. /\ fed' \in 0 .. Len(stream) /\ taken' \in 0 .. fed' /\ wanted' \in Nat
        /\ destroyed' \in {"no", "ok"} /\ out' \in Seq(U8) /\ Begins(out', input)
    BY <1>1, <1>2
  <2>3. /\ res' \in {"none", "again", "ok", "more", "error"} /\ res' # "more" /\ res' # "error"
    BY <1>1
  <2>4. crle' \in Readers /\ CrleAt(stream, input, at, crle', taken', Len(out'))
    BY <1>9, <1>11 DEF c2
  <2> QED BY <1>1, <1>3, <2>1, <2>2, <2>3, <2>4, CrleKeeps, Zenon
<1> QED BY <1>1, <1>12

LEMMA CrleRepeatedDataRead ==
    ASSUME CompressorInv, CrleInv, C!RepeatedDataRead
    PROVE  CrleInv' /\ \E n \in 1 .. wanted : Len(out') = Len(out) + n
<1> DEFINE size == C!MinOf(wanted, crle.left)
           p == [k \in 1 .. size |-> crle.value]
           ln == Len(out)
           c2 == crle'
<1>1. /\ wanted > 0 /\ crle.state = "repeated_data_read"
      /\ out' = out \o p /\ taken' = taken
      /\ c2 = [crle EXCEPT !.left = @ - size, !.state = IF crle.left = size THEN "idle" ELSE @]
      /\ res' = "ok" /\ wanted' = 0
      /\ fed' = fed /\ destroyed' = destroyed
      /\ stream' = stream /\ input' = input /\ flushing' = flushing
  BY DEF C!RepeatedDataRead, C!Turn, C!Delivered, C!Return, C!compressor
<1>2. /\ flushing = "done" /\ res = "again" /\ wanted \in Nat
      /\ stream \in Seq(U8) /\ Len(stream) \in Nat /\ input \in Seq(U8) /\ input \in Inputs
      /\ taken \in 0 .. fed /\ fed \in 0 .. Len(stream) /\ taken \in Nat /\ fed \in Nat
      /\ out \in Seq(U8) /\ Begins(out, input) /\ crle \in Readers /\ destroyed \in {"no", "ok"}
  BY <1>1, InCall
<1>3. PICK at : Whole(stream, input, at) /\ CrleAt(stream, input, at, crle, taken, Len(out))
  BY <1>1, InCall
<1>4. PICK b, e : /\ SegmentOf(stream, input, at, b, e)
                  /\ InSegment(stream, b, e, at[b], at[e], crle, taken, Len(out))
  <2>1. crle.state # "idle"
    BY <1>1
  <2> QED BY <1>3, <2>1, InSegmentOf
<1> DEFINE m == at[b]
           n == at[e]
           body == Cf!SizeEnd(stream, b + 2)
<1>5. /\ m \in Nat /\ n \in Nat /\ m <= n /\ n <= Len(input) /\ Len(input) \in Nat
      /\ SegmentIn(stream, input, b, e, m, n, body) /\ e \in Nat /\ e <= Len(stream)
  BY <1>2, <1>4, SegmentFacts
<1>6. InRun(stream, b, e, m, n, crle, taken, ln)
  <2>1. crle.state \notin {"scattered_size", "repeated_repetitions", "scattered_data"}
    BY <1>1
  <2>2. ~ InSize(stream, b, m, n, crle, taken, ln)
        /\ ~ InScattered(stream, b, e, m, n, crle, taken, ln)
    BY <2>1 DEF InSize, InScattered, SizeState
  <2> QED BY <1>4, <2>2, Zenon DEF InSegment
<1> HIDE DEF m, n, body, c2
<1>7. /\ stream[b + 1] = 1 /\ taken = e /\ crle.value = stream[e]
      /\ ln \in m .. n - 1 /\ crle.left = n - ln
  <2>1. crle.state # "repeated_data"
    BY <1>1
  <2> QED BY <1>6, <2>1, Zenon DEF InRun
<1>8. e = body + 1 /\ \A j \in 1 .. n - m : stream[body + 1] = input[m + j]
  BY <1>5, <1>7 DEF SegmentIn
<1>9. crle.left \in Int /\ crle.left > 0 /\ ln \in Nat /\ n - ln = crle.left
  <2> HIDE DEF ln
  <2> QED BY <1>5, <1>7
<1>10. size \in Nat /\ size >= 1 /\ size <= wanted /\ size <= crle.left
  <2>1. size \in {wanted, crle.left} /\ size <= wanted /\ size <= crle.left
    BY <1>2, <1>9, LeastOf
  <2> HIDE DEF size
  <2> QED BY <1>1, <1>2, <1>9, <2>1
<1> HIDE DEF size
<1>11. p \in Seq(U8) /\ Len(p) = size /\ \A j \in 1 .. size : p[j] = stream[e]
  <2>1. stream[e] \in U8
    <3>1. e \in 1 .. Len(stream)
      BY <1>5, <1>8 DEF SegmentIn
    <3> QED BY <1>2, <3>1
  <2>2. crle.value = stream[e]
    BY <1>7
  <2> QED BY <1>10, <2>1, <2>2
<1> HIDE DEF p
<1>12. ASSUME NEW j \in 1 .. size PROVE p[j] = input[ln + j]
  <2> DEFINE i == (ln - m) + j
  <2>1. i \in 1 .. n - m /\ m + i = ln + j
    <3>1. ln \in Int /\ m <= ln /\ j <= n - ln
      BY <1>5, <1>7, <1>9, <1>10
    <3> HIDE DEF ln
    <3> QED BY <1>5, <1>9, <1>10, <3>1
  <2>2. stream[body + 1] = input[m + i]
    BY <1>8, <2>1
  <2> QED BY <1>8, <1>11, <2>1, <2>2
<1>13. out' \in Seq(U8) /\ Len(out') = ln + size /\ Begins(out', input)
  <2>1. Len(out) + size <= Len(input)
    BY <1>5, <1>9, <1>10
  <2>2. out \o p \in Seq(U8) /\ Len(out \o p) = Len(out) + size /\ Begins(out \o p, input)
    <3>1. NextOf(input, out, p, size)
      BY <1>2, <1>10, <1>11, <1>12, <2>1 DEF NextOf
    <3> QED BY <3>1, Appends
  <2> QED BY <1>1, <2>2
<1>14. c2 \in Readers /\ CrleAt(stream, input, at, c2, e, ln + size)
  <2>1. crle.left = at[e] - ln
    BY <1>7 DEF n
  <2>2. ASSUME size # crle.left PROVE InSegment(stream, b, e, at[b], at[e], c2, e, ln + size)
    <3>1. /\ c2.state = "repeated_data_read" /\ c2.left = crle.left - size
          /\ c2.value = crle.value
      BY <1>1, <1>2, <2>2 DEF Readers
    <3>2. ln + size \in m .. n - 1 /\ c2.left = n - (ln + size)
      <4> HIDE DEF ln
      <4> QED BY <1>5, <1>7, <1>9, <1>10, <2>2, <3>1
    <3>3. InRun(stream, b, e, m, n, c2, e, ln + size)
      BY <1>7, <3>1, <3>2, Zenon DEF InRun
    <3> QED BY <3>3, Zenon DEF InSegment, m, n
  <2>3. crle \in Readers /\ size \in Nat /\ ln \in Nat
    BY <1>2, <1>9, <1>10
  <2> HIDE DEF ln
  <2>4. c2 = [crle EXCEPT !.left = @ - size, !.state = IF crle.left = size THEN "idle" ELSE @]
    BY <1>1
  <2>5. GoesOn(stream, b, e, at[b], at[e], crle, c2, size, ln, e)
    BY <2>1, <2>2, <2>3, <2>4, Zenon DEF GoesOn
  <2> QED BY <1>4, <2>5, SegmentDelivered
<1>15. CrleInv'
  <2>1. StreamKept
    BY <1>1, <1>2 DEF StreamKept
  <2>2. /\ fed' \in 0 .. Len(stream) /\ taken' \in 0 .. fed' /\ wanted' \in Nat
        /\ destroyed' \in {"no", "ok"} /\ ~ (wanted' > 0)
    BY <1>1, <1>2
  <2>3. /\ res' \in {"none", "again", "ok", "more", "error"} /\ res' # "more" /\ res' # "error"
    BY <1>1
  <2>4. crle' \in Readers /\ CrleAt(stream, input, at, crle', taken', Len(out'))
    <3>1. taken' = e
      BY <1>1, <1>7
    <3> QED BY <1>13, <1>14, <3>1 DEF c2
  <2> QED BY <1>3, <1>13, <2>1, <2>2, <2>3, <2>4, CrleKeeps, Zenon
<1>16. size \in 1 .. wanted
  BY <1>2, <1>10
<1> QED BY <1>13, <1>15, <1>16

LEMMA CrleNeedMore ==
    ASSUME CompressorInv, CrleInv, C!NeedMore
    PROVE  CrleInv' /\ out' = out
<1>1. /\ wanted > 0 /\ crle.state # "repeated_data_read" /\ res' = "more" /\ wanted' = 0
      /\ fed' = fed /\ taken' = taken /\ crle' = crle /\ out' = out /\ destroyed' = destroyed
      /\ stream' = stream /\ input' = input /\ flushing' = flushing
  BY DEF C!NeedMore, C!Turn, C!Return, C!compressor
<1>2. /\ flushing = "done" /\ res = "again" /\ wanted \in Nat
      /\ taken \in 0 .. fed /\ fed \in 0 .. Len(stream)
      /\ out \in Seq(U8) /\ Begins(out, input) /\ crle \in Readers /\ destroyed \in {"no", "ok"}
  BY <1>1, InCall
<1>3. PICK at : Whole(stream, input, at) /\ CrleAt(stream, input, at, crle, taken, Len(out))
  BY <1>1, InCall
<1>4. StreamKept
  BY <1>1, <1>2 DEF StreamKept
<1>5. /\ fed' \in 0 .. Len(stream) /\ taken' \in 0 .. fed' /\ wanted' \in Nat
      /\ destroyed' \in {"no", "ok"} /\ out' \in Seq(U8) /\ Begins(out', input)
      /\ crle' \in Readers /\ ~ (wanted' > 0)
      /\ res' \in {"none", "again", "ok", "more", "error"} /\ res' # "error"
  BY <1>1, <1>2
<1>6. CrleAt(stream, input, at, crle', taken', Len(out'))
  BY <1>1, <1>3, Zenon
<1>7. CrleInv'
  BY <1>1, <1>3, <1>4, <1>5, <1>6, CrleKeeps, Zenon
<1> QED BY <1>1, <1>7

LEMMA CrleOutside ==
    ASSUME CompressorInv, CrleInv, C!Feed \/ C!Call \/ C!Destroy
    PROVE  CrleInv' /\ out' = out
<1>1. /\ flushing = "done" /\ wanted = 0 /\ taken' = taken /\ crle' = crle /\ out' = out
      /\ stream' = stream /\ input' = input /\ flushing' = flushing
      /\ \/ /\ ~ (fed - taken > 0) /\ \E n \in 1 .. MaxChunk : fed + n <= Len(stream) /\ fed' = fed + n
            /\ wanted' = wanted /\ res' = res /\ destroyed' = destroyed
         \/ /\ res # "error" /\ wanted' \in 1 .. MaxWanted /\ res' = "again"
            /\ fed' = fed /\ destroyed' = destroyed
         \/ destroyed' = "ok" /\ fed' = fed /\ wanted' = wanted /\ res' = res
  BY DEF C!Feed, C!Call, C!Destroy, C!compressor, C!ChunkAvailable, C!ChunkLeft
<1>2. stream \in Seq(U8) /\ Len(stream) \in Nat
  BY DEF CompressorInv, HeldBack
<1>3. /\ fed \in 0 .. Len(stream) /\ taken \in 0 .. fed /\ wanted \in Nat
      /\ out \in Seq(U8) /\ Begins(out, input) /\ crle \in Readers /\ destroyed \in {"no", "ok"}
      /\ res \in {"none", "again", "ok", "more", "error"}
      /\ res = "more" => crle.state # "repeated_data_read"
      /\ res = "error" => ~InputsFit
  BY Zenon DEF CrleInv
<1>4. res # "error" =>
         \E at : Whole(stream, input, at) /\ CrleAt(stream, input, at, crle, taken, Len(out))
  BY <1>1, Zenon DEF CrleInv
<1>5. MaxChunk \in Nat /\ MaxWanted \in Nat
  BY CrleAssumption DEF C!ReaderAssumption
<1>6. /\ fed' \in 0 .. Len(stream) /\ taken' \in 0 .. fed' /\ wanted' \in Nat
      /\ destroyed' \in {"no", "ok"}
      /\ res' \in {"none", "again", "ok", "more", "error"}
      /\ wanted' > 0 => res' = "again"
      /\ res' = res \/ (res' = "again" /\ res # "error")
  BY <1>1, <1>2, <1>3, <1>5
<1>7. StreamKept
  BY <1>1 DEF StreamKept
<1>8. /\ res' = "more" => crle'.state # "repeated_data_read"
      /\ res' = "error" => ~InputsFit
  <2>1. "again" # "more" /\ "again" # "error"
    OBVIOUS
  <2> QED BY <1>1, <1>3, <1>6, <2>1, Zenon
<1>9. res' # "error" =>
         \E at : Whole(stream, input, at) /\ CrleAt(stream, input, at, crle', taken', Len(out'))
  BY <1>1, <1>4, <1>6, Zenon
<1>10. out' \in Seq(U8) /\ Begins(out', input) /\ crle' \in Readers
  BY <1>1, <1>3
<1>11. CrleInv'
  BY <1>6, <1>7, <1>8, <1>9, <1>10, CrleKeeps, Zenon
<1> QED BY <1>1, <1>11

LEMMA NothingRead ==
    ASSUME NEW s, NEW d, NEW at, Whole(s, d, at), d \in Seq(U8)
    PROVE  CrleAt(s, d, at, C!NewReader, 0, Len(<<>>))
<1>1. 0 \in DOMAIN at /\ at[0] = 0
  BY DEF Whole, Segments, Cuts
<1>2. C!NewReader.state = "idle" /\ Len(<<>>) = 0
  BY DEF C!NewReader
<1> QED BY <1>1, <1>2, Zenon DEF CrleAt

\* While the compressor works, nothing is read.
CrleNew == fed = 0 /\ taken = 0 /\ wanted = 0 /\ out = <<>> /\ crle = C!NewReader
           /\ res = "none" /\ destroyed = "no"

LEMMA CrleStartsReading ==
    ASSUME CompressorInv, CrleNew
    PROVE  CrleInv
<1>1. stream \in Seq(U8) /\ input \in Seq(U8)
  BY DEF CompressorInv, HeldBack
<1>2. /\ fed = 0 /\ taken = 0 /\ wanted = 0 /\ out = <<>> /\ crle = C!NewReader
      /\ res = "none" /\ destroyed = "no"
  BY DEF CrleNew
<1>3. C!NewReader \in Readers
  <2>1. C!NoUsize \in [value : Int, offset : Int]
    BY DEF C!NoUsize
  <2> QED BY <2>1 DEF C!NewReader, Readers
<1>4. out \in Seq(U8) /\ Begins(out, input)
  <2> DEFINE o == <<>>
  <2>1. o \in Seq(U8) /\ Len(o) = 0 /\ Len(input) \in Nat
    BY <1>1
  <2> HIDE DEF o
  <2>3. Len(o) <= Len(input) /\ \A i \in 1 .. Len(o) : o[i] = input[i]
    BY <2>1
  <2>2. Begins(o, input)
    BY ONLY <1>1, <2>1, <2>3, BeginsPointwise
  <2> QED BY <1>2, <2>1, <2>2 DEF o
<1>5. fed \in 0 .. Len(stream) /\ taken \in 0 .. fed /\ wanted \in Nat
  BY <1>1, <1>2
<1>6. ASSUME flushing = "done"
      PROVE  \E at : Whole(stream, input, at) /\ CrleAt(stream, input, at, crle, taken, Len(out))
  <2>1. PICK at : Whole(stream, input, at)
    BY <1>6, StreamIsWhole
  <2>2. CrleAt(stream, input, at, C!NewReader, 0, Len(<<>>))
    BY <1>1, <2>1, NothingRead
  <2> QED BY <1>2, <2>1, <2>2, Zenon
<1>7. /\ res \in {"none", "again", "ok", "more", "error"} /\ res # "more" /\ res # "error"
      /\ ~ (wanted > 0) /\ destroyed \in {"no", "ok"}
  BY <1>2
<1> QED BY <1>2, <1>3, <1>4, <1>5, <1>6, <1>7, Zenon DEF CrleInv

LEMMA CrleCompresses ==
    ASSUME CompressorInv, CrleInv, C!Compressor, UNCHANGED <<fed, taken, crle, wanted, out, res, destroyed>>
    PROVE  CompressorInv' /\ CrleInv'
<1>1. CompressorInv'
  BY CompressorKeeps
<1>2. flushing # "done"
  BY DEF C!Compressor, C!Compress, C!Flush, C!FlushSegment, C!FlushEnd
<1>3. /\ fed = 0 /\ wanted = 0 /\ out = <<>> /\ crle = C!NewReader /\ res = "none"
      /\ destroyed = "no" /\ taken \in 0 .. fed
  BY <1>2, Zenon DEF CrleInv
<1>4. CrleNew'
  <2>1. taken = 0
    BY <1>3
  <2> QED BY <1>3, <2>1 DEF CrleNew
<1>5. (CompressorInv /\ CrleNew => CrleInv)'
  BY CrleStartsReading, PTL
<1> QED BY <1>1, <1>4, <1>5

-----------------------------------------------------------------------------
(***************************************************************************)
(* What a step of a reader is to a caller.                                 *)
(***************************************************************************)
\* A step of PatchReader on the data d: l bytes of the chunk are left, w are wanted, o
\* has been delivered and r returned, and l2, w2, o2 and r2 after the step.
Moves(d, l, w, o, r, l2, w2, o2, r2) ==
    \/ w = 0 /\ l = 0 /\ l2 \in Nat \ {0} /\ w2 = w /\ o2 = o /\ r2 = r
    \/ w = 0 /\ r # "error" /\ w2 \in Nat \ {0} /\ r2 = "again" /\ l2 = l /\ o2 = o
    \/ w > 0 /\ l2 \in 0 .. l /\ w2 = w /\ o2 = o /\ r2 = r
    \/ /\ w > 0 /\ w2 = 0 /\ r2 = "ok" /\ l2 \in 0 .. l
       /\ \E n \in 1 .. w : Len(o) + n <= Len(d) /\ o2 = SubSeq(d, 1, Len(o) + n)
    \/ w > 0 /\ w2 = 0 /\ r2 = "more" /\ l2 = 0 /\ o2 = o
    \/ w > 0 /\ w2 = 0 /\ r2 = "error" /\ l2 \in 0 .. l /\ o2 = o
    \/ w2 = w /\ l2 = l /\ o2 = o /\ r2 = r

LEMMA MovesOn ==
    ASSUME NEW d, NEW l \in Nat, NEW w \in Nat, NEW o, NEW l2 \in Nat, NEW w2, NEW r2,
           w > 0, l2 <= l,
           \/ w2 = w /\ r2 = "again"
           \/ w2 = 0 /\ r2 = "error"
           \/ w2 = 0 /\ r2 = "more" /\ l2 = 0
    PROVE  Moves(d, l, w, o, "again", l2, w2, o, r2)
<1>1. l2 \in 0 .. l
  OBVIOUS
<1> QED BY <1>1 DEF Moves

LEMMA MovesDelivering ==
    ASSUME NEW d, NEW l \in Nat, NEW w \in Nat, NEW o, NEW l2 \in Nat, NEW o2,
           w > 0, l2 <= l, Begins(o2, d), NEW n \in 1 .. w, Len(o2) = Len(o) + n
    PROVE  Moves(d, l, w, o, "again", l2, 0, o2, "ok")
<1>1. l2 \in 0 .. l
  OBVIOUS
<1>2. Len(o) + n <= Len(d) /\ o2 = SubSeq(d, 1, Len(o) + n)
  BY DEF Begins
<1> QED BY <1>1, <1>2 DEF Moves

CrleMoves ==
    Moves(input, fed - taken, wanted, out, res, fed' - taken', wanted', out', res')

\* What happens in a call.
LEMMA CrleDecompresses ==
    ASSUME CompressorInv, CrleInv, C!Decompress
    PROVE  CrleInv' /\ CrleMoves /\ input' = input
<1> DEFINE l == fed - taken
           l2 == fed' - taken'
<1>0. wanted > 0
  BY DEF C!Decompress, C!NeedMore, C!Idle, C!ScatteredSize, C!RepeatedRepetitions,
         C!UnpackUsize, C!ScatteredData, C!RepeatedData, C!RepeatedDataRead, C!Get, C!Turn
<1>1. /\ res = "again" /\ wanted \in Nat /\ taken \in 0 .. fed /\ fed \in Nat /\ taken \in Nat
  BY <1>0, InCall
<1>2. l \in Nat
  BY <1>1
<1>3. ASSUME CrleInv', fed' = fed, taken' = taken + 1 \/ taken' = taken, out' = out,
             \/ wanted' = wanted /\ res' = "again"
             \/ wanted' = 0 /\ res' = "error"
             \/ wanted' = 0 /\ res' = "more" /\ l2 = 0
      PROVE  CrleMoves
  <2>1. l2 \in Nat /\ l2 <= l
    <3>1. taken' \in 0 .. fed' /\ fed' = fed /\ (taken' = taken + 1 \/ taken' = taken)
      BY <1>3 DEF CrleInv
    <3> DEFINE tk == taken'
               f == fed'
    <3>2. tk \in 0 .. f /\ f = fed /\ (tk = taken + 1 \/ tk = taken)
      BY <3>1
    <3> HIDE DEF tk, f
    <3>3. f - tk \in Nat /\ f - tk <= fed - taken
      BY <1>1, <3>2
    <3> QED BY <3>3 DEF tk, f
  <2> HIDE DEF l, l2
  <2> DEFINE w2 == wanted'
             r2 == res'
  <2>2. \/ w2 = wanted /\ r2 = "again"
        \/ w2 = 0 /\ r2 = "error"
        \/ w2 = 0 /\ r2 = "more" /\ l2 = 0
    BY <1>3
  <2> HIDE DEF w2, r2
  <2>3. Moves(input, l, wanted, out, "again", l2, w2, out, r2)
    BY <1>0, <1>1, <1>2, <2>1, <2>2, MovesOn
  <2> QED BY <1>1, <1>3, <2>3, Zenon DEF CrleMoves, l, l2, w2, r2
<1>4. ASSUME CrleInv', fed' = fed, taken' >= taken, input' = input,
             wanted' = 0, res' = "ok", NEW n \in 1 .. wanted, Len(out') = Len(out) + n
      PROVE  CrleMoves
  <2> DEFINE o2 == out'
  <2>1. l2 \in Nat /\ l2 <= l
    <3>1. taken' \in 0 .. fed' /\ fed' = fed /\ taken' >= taken
      BY <1>4 DEF CrleInv
    <3> DEFINE tk == taken'
               f == fed'
    <3>2. tk \in 0 .. f /\ f = fed /\ tk >= taken
      BY <3>1
    <3> HIDE DEF tk, f
    <3>3. f - tk \in Nat /\ f - tk <= fed - taken
      BY <1>1, <3>2
    <3> QED BY <3>3 DEF tk, f
  <2>2. Begins(o2, input)
    BY <1>4 DEF CrleInv
  <2>3. Len(o2) = Len(out) + n
    BY <1>4
  <2> HIDE DEF l, l2, o2
  <2>4. Moves(input, l, wanted, out, "again", l2, 0, o2, "ok")
    BY <1>0, <1>1, <1>2, <2>1, <2>2, <2>3, MovesDelivering
  <2> QED BY <1>1, <1>4, <2>4, Zenon DEF CrleMoves, l, l2, o2
<1>5. CASE C!NeedMore
  <2>1. CrleInv' /\ out' = out
    BY <1>5, CrleNeedMore
  <2>2. /\ fed' = fed /\ taken' = taken /\ wanted' = 0 /\ res' = "more" /\ input' = input
        /\ ~ (fed - taken > 0)
    BY <1>5 DEF C!NeedMore, C!Return, C!compressor, C!ChunkAvailable, C!ChunkLeft
  <2>3. l2 = 0
    BY <1>1, <1>2, <2>2
  <2> QED BY <1>3, <2>1, <2>2, <2>3
<1>6. CASE C!Idle
  <2>1. CrleInv' /\ out' = out
    BY <1>6, CrleIdle
  <2>2. /\ fed' = fed /\ taken' = taken + 1 /\ input' = input
        /\ \/ wanted' = wanted /\ res' = "again"
           \/ wanted' = 0 /\ res' = "error"
    BY <1>6 DEF C!Idle, C!Get, C!Return, C!Again, C!compressor
  <2> QED BY <1>3, <2>1, <2>2
<1>7. ASSUME NEW st, NEW after, C!UnpackUsize(st, after),
             \/ st = "scattered_size" /\ after = "scattered_data"
             \/ st = "repeated_repetitions" /\ after = "repeated_data"
      PROVE  CrleInv' /\ CrleMoves /\ input' = input
  <2>1. CrleInv' /\ out' = out
    BY <1>7, CrleUnpackUsize
  <2>2. /\ fed' = fed /\ taken' = taken + 1 /\ input' = input
        /\ \/ wanted' = wanted /\ res' = "again"
           \/ wanted' = 0 /\ res' = "error"
    BY <1>7 DEF C!UnpackUsize, C!Get, C!Return, C!Again, C!compressor
  <2> QED BY <1>3, <2>1, <2>2
<1>8. CASE C!ScatteredData
  <2>1. CrleInv' /\ taken' >= taken /\ \E n \in 1 .. wanted : Len(out') = Len(out) + n
    BY <1>8, CrleScatteredData
  <2>2. fed' = fed /\ input' = input /\ wanted' = 0 /\ res' = "ok"
    BY <1>8 DEF C!ScatteredData, C!Return, C!compressor
  <2> QED BY <1>4, <2>1, <2>2
<1>9. CASE C!RepeatedData
  <2>1. CrleInv' /\ out' = out
    BY <1>9, CrleRepeatedData
  <2>2. /\ fed' = fed /\ taken' = taken + 1 /\ input' = input
        /\ wanted' = wanted /\ res' = "again"
    BY <1>9 DEF C!RepeatedData, C!Get, C!Return, C!Again, C!compressor
  <2> QED BY <1>3, <2>1, <2>2
<1>10. CASE C!RepeatedDataRead
  <2>1. CrleInv' /\ \E n \in 1 .. wanted : Len(out') = Len(out) + n
    BY <1>10, CrleRepeatedDataRead
  <2>2. fed' = fed /\ input' = input /\ wanted' = 0 /\ res' = "ok" /\ taken' >= taken
    BY <1>1, <1>10 DEF C!RepeatedDataRead, C!Return, C!compressor
  <2> QED BY <1>4, <2>1, <2>2
<1> QED
  BY <1>5, <1>6, <1>7, <1>8, <1>9, <1>10 DEF C!Decompress, C!ScatteredSize, C!RepeatedRepetitions

\* Every step of the reader and its compressor.
LEMMA CrleSteps ==
    ASSUME CompressorInv, CrleInv, C!Next
    PROVE  CompressorInv' /\ CrleInv' /\ CrleMoves /\ input' = input
<1>1. CASE C!Compressor /\ UNCHANGED C!reader
  <2>1. UNCHANGED <<fed, taken, crle, wanted, out, res, destroyed>>
    BY <1>1 DEF C!reader
  <2>2. CompressorInv' /\ CrleInv'
    BY <1>1, <2>1, CrleCompresses
  <2>3. input' = input
    BY <1>1 DEF C!Compressor, C!Compress, C!Flush, C!FlushSegment, C!FlushEnd
  <2>4. CrleMoves
    BY <2>1, Zenon DEF CrleMoves, Moves
  <2> QED BY <2>2, <2>3, <2>4
<1>2. ASSUME C!Feed \/ C!Call \/ C!Decompress \/ C!Destroy
      PROVE  CompressorInv' /\ input' = input
  <2>1. UNCHANGED C!compressor
    BY <1>2 DEF C!Feed, C!Call, C!Destroy, C!Decompress, C!NeedMore, C!Idle, C!ScatteredSize,
                C!RepeatedRepetitions, C!UnpackUsize, C!ScatteredData, C!RepeatedData,
                C!RepeatedDataRead
  <2>2. UNCHANGED compressor /\ UNCHANGED stream /\ input' = input
    BY <2>1 DEF C!compressor, compressor
  <2> QED BY <2>2, CompressorKeeps
<1>3. CASE C!Decompress
  BY <1>2, <1>3, CrleDecompresses
<1>4. ASSUME C!Feed \/ C!Call \/ C!Destroy PROVE CrleMoves
  <2>1. fed \in 0 .. Len(stream) /\ taken \in 0 .. fed /\ wanted \in Nat
    BY DEF CrleInv
  <2>2. stream \in Seq(U8) /\ Len(stream) \in Nat
    BY DEF CompressorInv, HeldBack
  <2>3. MaxChunk \in Nat /\ MaxWanted \in Nat
    BY CrleAssumption DEF C!ReaderAssumption
  <2>4. ASSUME C!Feed PROVE CrleMoves
    <3>1. PICK n \in 1 .. MaxChunk : fed' = fed + n
      BY <2>4 DEF C!Feed
    <3>2. /\ wanted = 0 /\ ~ (fed - taken > 0) /\ taken' = taken /\ wanted' = wanted /\ out' = out
          /\ res' = res
      BY <2>4 DEF C!Feed, C!ChunkAvailable, C!ChunkLeft
    <3>3. fed - taken = 0 /\ fed' - taken' \in Nat \ {0}
      BY <2>1, <2>2, <2>3, <3>1, <3>2
    <3> QED BY <3>2, <3>3, Zenon DEF CrleMoves, Moves
  <2>5. ASSUME C!Call PROVE CrleMoves
    <3>1. /\ wanted = 0 /\ res # "error" /\ wanted' \in 1 .. MaxWanted /\ res' = "again"
          /\ fed' = fed /\ taken' = taken /\ out' = out
      BY <2>5 DEF C!Call
    <3>2. wanted' \in Nat \ {0}
      BY <2>3, <3>1
    <3> QED BY <3>1, <3>2, Zenon DEF CrleMoves, Moves
  <2>6. ASSUME C!Destroy PROVE CrleMoves
    <3>1. fed' = fed /\ taken' = taken /\ wanted' = wanted /\ out' = out /\ res' = res
      BY <2>6 DEF C!Destroy
    <3> QED BY <3>1, Zenon DEF CrleMoves, Moves
  <2> QED BY <1>4, <2>4, <2>5, <2>6
<1>5. CASE C!Feed \/ C!Call \/ C!Destroy
  BY <1>2, <1>4, <1>5, CrleOutside
<1> QED BY <1>1, <1>3, <1>5 DEF C!Next

\* A reader that asks for more at the end of the stream has delivered all the data.
LEMMA CrleNothingWithheld ==
    ASSUME CompressorInv, CrleInv, res = "more", taken = Len(stream)
    PROVE  out = input
<1>1. stream \in Seq(U8) /\ Len(stream) \in Nat /\ input \in Seq(U8)
  BY DEF CompressorInv, HeldBack
<1>2. out \in Seq(U8) /\ Begins(out, input) /\ crle.state # "repeated_data_read"
  BY DEF CrleInv
<1>3. flushing = "done"
  BY DEF CrleInv
<1>4. PICK at : Whole(stream, input, at) /\ CrleAt(stream, input, at, crle, taken, Len(out))
  BY <1>3 DEF CrleInv
<1>5. at[Len(stream)] = Len(input)
  BY <1>4 DEF Whole
<1>6. Len(out) = Len(input)
  <2>1. CASE crle.state = "idle"
    <3>1. \A b, e : ~ InSegment(stream, b, e, at[b], at[e], crle, taken, Len(out))
      BY <2>1 DEF InSegment, InSize, InScattered, InRun, SizeState
    <3> QED BY <1>4, <1>5, <3>1, Zenon DEF CrleAt
  <2>2. CASE crle.state # "idle"
    <3>1. PICK b, e : /\ SegmentOf(stream, input, at, b, e)
                      /\ InSegment(stream, b, e, at[b], at[e], crle, taken, Len(out))
      BY <1>4, <2>2, InSegmentOf
    <3> DEFINE m == at[b]
               n == at[e]
               body == Cf!SizeEnd(stream, b + 2)
    <3>2. /\ SegmentIn(stream, input, b, e, m, n, body) /\ e \in Nat /\ e <= Len(stream)
          /\ m \in Nat /\ n \in Nat /\ m <= n
      BY <3>1, SegmentFacts
    <3>3. SegmentAt(stream, input, b, e, m, n)
      BY <3>1 DEF SegmentOf, IsSegment
    <3> HIDE DEF m, n, body
    <3>4. /\ body \in Nat /\ body = b + 1 + Len(Cf!PackUsize[n - m])
          /\ stream[b + 1] = 0 => e = body + (n - m)
          /\ stream[b + 1] = 1 => e = body + 1
      BY <3>2 DEF SegmentIn
    <3>5. ~ InSize(stream, b, m, n, crle, taken, Len(out))
      <4> SUFFICES ASSUME InSize(stream, b, m, n, crle, taken, Len(out)) PROVE FALSE
        OBVIOUS
      <4>1. PICK r \in Nat : UsizeFollows(stream, taken, r)
        BY DEF InSize
      <4>2. taken + Len(Cf!PackUsize[r]) <= Len(stream)
        BY <4>1 DEF UsizeFollows
      <4>3. Len(Cf!PackUsize[r]) \in Nat /\ Len(Cf!PackUsize[r]) >= 1
        BY SizeLength
      <4> QED BY <1>1, <4>2, <4>3
    <3>6. ASSUME InRun(stream, b, e, m, n, crle, taken, Len(out)) PROVE FALSE
      <4>1. stream[b + 1] = 1 /\ taken = body
        BY <1>2, <3>6 DEF InRun, body
      <4> QED BY <1>1, <3>2, <3>4, <4>1
    <3>7. InScattered(stream, b, e, m, n, crle, taken, Len(out))
      BY <3>1, <3>5, <3>6, Zenon DEF InSegment, m, n
    <3>8. (taken \in body .. e /\ n = m) \/ taken < e
      BY <3>7 DEF InScattered, body
    <3>9. n = m /\ Len(out) = m + (taken - body) /\ taken \in body .. e /\ stream[b + 1] = 0
      BY <1>1, <3>2, <3>7, <3>8 DEF InScattered, body
    <3>10. input = <<>> /\ e = Len(stream)
      BY <3>3, <3>9, Zenon DEF SegmentAt
    <3>11. Len(out) <= Len(input) /\ Len(out) \in Nat /\ Len(input) = 0
      BY <1>2, <3>10 DEF Begins
    <3> QED BY <3>11
  <2> QED BY <2>1, <2>2
<1> QED BY <1>1, <1>2, <1>6, BeginsWhole

-----------------------------------------------------------------------------
(***************************************************************************)
(* PatchReader of detools/apply.py.                                        *)
(***************************************************************************)
LEMMA OneFormat ==
    /\ \A s, k : P!SizeEnd(s, k) = Cf!SizeEnd(s, k)
    /\ \A s, k : P!UsizeAt(s, k) = Cf!UsizeAt(s, k)
<1>1. ASSUME NEW s, NEW k PROVE P!SizeEnd(s, k) = Cf!SizeEnd(s, k)
  BY DEF P!SizeEnd, Cf!SizeEnd, P!Least, Cf!Least
<1>2. ASSUME NEW s, NEW k PROVE P!UsizeAt(s, k) = Cf!UsizeAt(s, k)
  BY DEF P!UsizeAt, Cf!UsizeAt, P!SizeEnd, Cf!SizeEnd, P!Least, Cf!Least
<1> QED BY <1>1, <1>2

\* The decompressor is p bytes into the stream and ln into the data: at the end of a
\* segment, or ns bytes before the end of a scattered one.
PyAt(s, d, at, p, ln, ns) ==
    \/ ns = 0 /\ p \in DOMAIN at /\ ln = at[p]
    \/ /\ ns > 0
       /\ \E b, e : /\ SegmentOf(s, d, at, b, e) /\ s[b + 1] = 0
                    /\ p >= Cf!SizeEnd(s, b + 2) /\ p + ns = e /\ ln + ns = at[e]

\* What has been read and not been decompressed is i, what has been decompressed and
\* not been returned is b and q.
PyHolds(s, d, at, tk, i, o, b, q, ns) ==
    /\ s \in Seq(U8) /\ d \in Seq(U8) /\ Whole(s, d, at)
    /\ i \in Seq(U8) /\ o \in Seq(U8) /\ b \in Seq(U8) /\ q \in Seq(U8) /\ ns \in Nat
    /\ tk \in 0 .. Len(s) /\ Len(i) <= tk /\ Lies(i, s, tk - Len(i))
    /\ Lies(o, d, 0) /\ Lies(b, d, Len(o)) /\ Lies(q, d, Len(o) + Len(b))
    /\ PyAt(s, d, at, tk - Len(i), Len(o) + Len(b) + Len(q), ns)

\* u bytes of what has been read are decompressed to x.
LEMMA PyExtends ==
    ASSUME NEW s, NEW d, NEW at, NEW tk, NEW i, NEW o, NEW b, NEW q, NEW ns,
           PyHolds(s, d, at, tk, i, o, b, q, ns), NEW x \in Seq(U8), NEW u \in 0 .. Len(i),
           NEW n2 \in Nat, Lies(x, d, Len(o) + Len(b) + Len(q)),
           PyAt(s, d, at, tk - Len(i) + u, Len(o) + Len(b) + Len(q) + Len(x), n2)
    PROVE  PyHolds(s, d, at, tk, P!Drop(i, u), o, b, q \o x, n2)
<1>1. /\ s \in Seq(U8) /\ d \in Seq(U8) /\ Whole(s, d, at)
      /\ i \in Seq(U8) /\ o \in Seq(U8) /\ b \in Seq(U8) /\ q \in Seq(U8) /\ ns \in Nat
      /\ tk \in 0 .. Len(s) /\ Len(i) <= tk /\ Lies(i, s, tk - Len(i))
      /\ Lies(o, d, 0) /\ Lies(b, d, Len(o)) /\ Lies(q, d, Len(o) + Len(b))
  BY DEF PyHolds
<1>2. /\ Len(i) \in Nat /\ Len(s) \in Nat /\ Len(o) \in Nat /\ Len(b) \in Nat /\ Len(q) \in Nat
      /\ Len(x) \in Nat /\ tk - Len(i) \in Nat /\ Len(o) + Len(b) \in Nat /\ u \in Nat
      /\ tk \in Nat /\ u <= Len(i)
  <2>1. Len(i) \in Nat /\ Len(s) \in Nat /\ Len(o) \in Nat /\ Len(b) \in Nat /\ Len(q) \in Nat
        /\ Len(x) \in Nat
    BY <1>1, LengthIsNat, Zenon
  <2>2. tk \in 0 .. Len(s) /\ Len(i) <= tk
    BY <1>1
  <2> QED BY <2>1, <2>2
<1>3. q \o x \in Seq(U8) /\ Len(q \o x) = Len(q) + Len(x) /\ Lies(q \o x, d, Len(o) + Len(b))
  BY <1>1, <1>2, LiesJoined
<1> DEFINE i2 == P!Drop(i, u)
           p == tk - Len(i)
<1>4. i2 \in Seq(U8) /\ Len(i2) = Len(i) - u /\ Lies(i2, s, p + u)
  <2> DEFINE l == Len(i)
  <2>1. u \in 0 .. Len(i) /\ l \in u .. Len(i) /\ p \in Nat
    BY <1>2
  <2>2. i \in Seq(U8) /\ s \in Seq(U8) /\ Lies(i, s, p)
    BY <1>1
  <2> HIDE DEF l, p
  <2>3. SubSeq(i, u + 1, l) \in Seq(U8) /\ Len(SubSeq(i, u + 1, l)) = l - u
        /\ Lies(SubSeq(i, u + 1, l), s, p + u)
    BY ONLY <2>1, <2>2, LiesPart
  <2> QED BY <2>3 DEF P!Drop, l
<1> HIDE DEF i2
<1>5. Len(i2) <= tk /\ tk - Len(i2) = p + u
  BY <1>2, <1>4
<1>6. Lies(i2, s, tk - Len(i2))
  BY <1>4, <1>5
<1> DEFINE r == q \o x
<1>7. PyAt(s, d, at, tk - Len(i2), Len(o) + Len(b) + Len(r), n2)
  <2>1. Len(o) + Len(b) + Len(r) = Len(o) + Len(b) + Len(q) + Len(x)
    BY <1>2, <1>3
  <2> HIDE DEF r
  <2>2. tk - Len(i2) = tk - Len(i) + u
    BY <1>5
  <2> QED BY <2>1, <2>2, Zenon
<1> HIDE DEF r, p
<1> QED BY <1>1, <1>3, <1>4, <1>5, <1>6, <1>7, Zenon DEF PyHolds, i2, r

PyFacts(s, d, at, tk, i, o, b, q, ns) ==
    /\ s \in Seq(U8) /\ d \in Seq(U8) /\ Whole(s, d, at)
    /\ i \in Seq(U8) /\ o \in Seq(U8) /\ b \in Seq(U8) /\ q \in Seq(U8) /\ ns \in Nat
    /\ Lies(i, s, tk - Len(i)) /\ Lies(o, d, 0) /\ Lies(b, d, Len(o)) /\ Lies(q, d, Len(o) + Len(b))
    /\ tk \in Nat /\ tk <= Len(s) /\ Len(s) \in Nat /\ Len(d) \in Nat
    /\ Len(i) \in Nat /\ tk - Len(i) \in Nat
    /\ Len(o) \in Nat /\ Len(b) \in Nat /\ Len(q) \in Nat /\ Len(o) + Len(b) + Len(q) \in Nat
    /\ Len(o) + Len(b) + Len(q) <= Len(d)
    /\ PyAt(s, d, at, tk - Len(i), Len(o) + Len(b) + Len(q), ns)

LEMMA PyKnows ==
    ASSUME NEW s, NEW d, NEW at, NEW tk, NEW i, NEW o, NEW b, NEW q, NEW ns,
           PyHolds(s, d, at, tk, i, o, b, q, ns)
    PROVE  PyFacts(s, d, at, tk, i, o, b, q, ns)
<1>1. /\ s \in Seq(U8) /\ d \in Seq(U8) /\ Whole(s, d, at)
      /\ i \in Seq(U8) /\ o \in Seq(U8) /\ b \in Seq(U8) /\ q \in Seq(U8) /\ ns \in Nat
      /\ tk \in 0 .. Len(s) /\ Len(i) <= tk /\ Lies(i, s, tk - Len(i))
      /\ Lies(o, d, 0) /\ Lies(b, d, Len(o)) /\ Lies(q, d, Len(o) + Len(b))
      /\ PyAt(s, d, at, tk - Len(i), Len(o) + Len(b) + Len(q), ns)
  BY DEF PyHolds
<1>2. /\ Len(i) \in Nat /\ Len(s) \in Nat /\ Len(o) \in Nat /\ Len(b) \in Nat /\ Len(q) \in Nat
      /\ Len(d) \in Nat
  BY <1>1, LengthIsNat, Zenon
<1>3. Len(o) + Len(b) + Len(q) <= Len(d)
  BY <1>1 DEF Lies
<1>4. tk \in 0 .. Len(s) /\ Len(i) <= tk
  BY <1>1
<1>5. /\ tk \in Nat /\ tk <= Len(s) /\ tk - Len(i) \in Nat /\ Len(o) + Len(b) + Len(q) \in Nat
  BY <1>2, <1>4
<1> QED BY <1>1, <1>2, <1>3, <1>5, Zenon DEF PyFacts

\* More of a scattered segment.
LEMMA PyMoreScattered ==
    ASSUME NEW s, NEW d, NEW at, NEW tk, NEW i, NEW o, NEW b, NEW q, NEW ns,
           PyHolds(s, d, at, tk, i, o, b, q, ns), ns > 0, NEW len \in Nat,
           len <= Len(i), len <= ns
    PROVE  PyHolds(s, d, at, tk, P!Drop(i, len), o, b, q \o SubSeq(i, 1, len), ns - len)
<1> DEFINE p == tk - Len(i)
           ln == Len(o) + Len(b) + Len(q)
           x == SubSeq(i, 0 + 1, len)
<1>1. PyFacts(s, d, at, tk, i, o, b, q, ns)
  BY PyKnows
<1>2. /\ s \in Seq(U8) /\ d \in Seq(U8) /\ i \in Seq(U8) /\ Len(i) \in Nat /\ ns \in Nat
      /\ p \in Nat /\ ln \in Nat /\ Len(d) \in Nat /\ Len(s) \in Nat
      /\ Lies(i, s, p) /\ PyAt(s, d, at, p, ln, ns)
  BY <1>1 DEF PyFacts
<1> HIDE DEF p, ln
<1>3. PICK a, e : /\ SegmentOf(s, d, at, a, e) /\ s[a + 1] = 0
                  /\ p >= Cf!SizeEnd(s, a + 2) /\ p + ns = e /\ ln + ns = at[e]
  BY <1>2 DEF PyAt
<1> DEFINE m == at[a]
           n == at[e]
           body == Cf!SizeEnd(s, a + 2)
<1>4. /\ SegmentIn(s, d, a, e, m, n, body) /\ e \in DOMAIN at /\ e \in Nat
      /\ m \in Nat /\ n \in Nat /\ m <= n /\ n <= Len(d)
  BY <1>3, SegmentFacts
<1>5. p >= body /\ p + ns = e /\ ln + ns = n
  BY <1>3
<1> HIDE DEF m, n, body
<1>6. body \in Nat /\ e = body + (n - m) /\ \A j \in 1 .. n - m : s[body + j] = d[m + j]
  BY <1>3, <1>4 DEF SegmentIn
<1>7. x \in Seq(U8) /\ Len(x) = len /\ \A j \in 1 .. len : x[j] = i[0 + j]
  <2> DEFINE z == 0
  <2>1. z \in 0 .. Len(i) /\ len \in z .. Len(i) /\ len - z = len
    BY <1>2
  <2>2. i \in Seq(U8)
    BY <1>2
  <2> HIDE DEF z
  <2>3. /\ SubSeq(i, z + 1, len) \in Seq(U8) /\ Len(SubSeq(i, z + 1, len)) = len - z
        /\ \A j \in 1 .. len - z : SubSeq(i, z + 1, len)[j] = i[z + j]
    BY ONLY <2>1, <2>2, Part
  <2> QED BY <2>1, <2>3 DEF z
<1> HIDE DEF x
<1>8. ASSUME NEW j \in 1 .. len PROVE x[j] = d[ln + j]
  <2>0. /\ j \in Nat /\ j >= 1 /\ j <= len /\ body \in Nat /\ e = body + (n - m) /\ e \in Nat
        /\ p \in Nat /\ ln \in Nat /\ m \in Nat /\ n \in Nat /\ Len(i) \in Nat /\ ns \in Nat
    BY <1>2, <1>4, <1>6
  <2>1. /\ 0 + j = j /\ j \in 1 .. Len(i) /\ (p - body) + j \in 1 .. n - m
        /\ body + ((p - body) + j) = p + j /\ m + ((p - body) + j) = ln + j
    BY <1>5, <2>0
  <2>2. i[j] = s[p + j]
    BY <1>2, <2>1 DEF Lies
  <2>3. s[body + ((p - body) + j)] = d[m + ((p - body) + j)]
    BY <1>6, <2>1
  <2> QED BY <1>7, <2>1, <2>2, <2>3
<1>9. Lies(x, d, ln)
  <2>1. ln + len <= Len(d)
    BY <1>2, <1>4, <1>5
  <2> QED BY <1>7, <1>8, <2>1 DEF Lies
<1>10. PyAt(s, d, at, p + len, ln + Len(x), ns - len)
  <2>1. CASE ns = len
    <3>1. ns - len = 0 /\ p + len \in DOMAIN at /\ ln + len = at[p + len]
      BY <1>4, <1>5, <2>1 DEF n
    <3> QED BY <1>7, <3>1 DEF PyAt
  <2>2. CASE ns # len
    <3>0. body \in Nat /\ p \in Nat /\ ln \in Nat /\ ns \in Nat
      BY <1>2, <1>6
    <3>1. /\ ns - len > 0 /\ p + len >= body /\ (p + len) + (ns - len) = e
          /\ (ln + len) + (ns - len) = n
      BY <1>5, <2>2, <3>0
    <3> QED BY <1>3, <1>7, <3>1 DEF PyAt, n, body
  <2> QED BY <2>1, <2>2
<1>11. ns - len \in Nat /\ len \in 0 .. Len(i)
  BY <1>2
<1> DEFINE n2 == ns - len
<1>12. PyHolds(s, d, at, tk, P!Drop(i, len), o, b, q \o x, n2)
  <2>1. n2 \in Nat /\ len \in 0 .. Len(i) /\ x \in Seq(U8)
    BY <1>7, <1>11
  <2> HIDE DEF n2
  <2>2. PyAt(s, d, at, tk - Len(i) + len, Len(o) + Len(b) + Len(q) + Len(x), n2)
    BY <1>10, Zenon DEF p, ln, n2
  <2>3. Lies(x, d, Len(o) + Len(b) + Len(q))
    BY <1>9 DEF ln
  <2>4. PyHolds(s, d, at, tk, i, o, b, q, ns)
    OBVIOUS
  <2> QED BY ONLY <2>1, <2>2, <2>3, <2>4, PyExtends
<1> QED BY <1>12 DEF x

\* The next segment begins where what has not been decompressed begins.
LEMMA PySegment ==
    ASSUME NEW s, NEW d, NEW at, NEW tk, NEW i, NEW o, NEW b, NEW q, NEW ns,
           PyHolds(s, d, at, tk, i, o, b, q, ns), ns = 0, tk - Len(i) < Len(s)
    PROVE  \E e : /\ SegmentOf(s, d, at, tk - Len(i), e)
                  /\ at[tk - Len(i)] = Len(o) + Len(b) + Len(q)
<1> DEFINE p == tk - Len(i)
           ln == Len(o) + Len(b) + Len(q)
<1>1. Whole(s, d, at) /\ PyAt(s, d, at, p, ln, ns)
  BY DEF PyHolds
<1> HIDE DEF p, ln
<1>2. p \in DOMAIN at /\ ln = at[p]
  BY <1>1 DEF PyAt
<1>3. p < Len(s)
  BY DEF p
<1>4. \E e : SegmentOf(s, d, at, p, e)
  BY <1>1, <1>2, <1>3, SegmentOfCut DEF Whole
<1> QED BY <1>2, <1>4 DEF p, ln

\* A size in what has been read is the one of the segment.
LEMMA PySize ==
    ASSUME NEW s, NEW d, NEW at, NEW p, NEW e, SegmentOf(s, d, at, p, e), s \in Seq(U8),
           NEW i \in Seq(U8), Lies(i, s, p)
    PROVE  /\ i # <<>> => i[1] = s[p + 1] /\ i[1] \in {0, 1}
           /\ (\E k \in 2 .. Len(i) : i[k] < 128) =>
                 /\ P!UsizeAt(i, 2) = at[e] - at[p]
                 /\ P!SizeEnd(i, 2) = Cf!SizeEnd(s, p + 2) - p
                 /\ P!SizeEnd(i, 2) <= Len(i)
           /\ p + Len(i) = Len(s) =>
                 /\ \E k \in 2 .. Len(i) : i[k] < 128
                 /\ i[1] = 1 => Len(i) > P!SizeEnd(i, 2)
<1> DEFINE m == at[p]
           n == at[e]
           v == n - m
           body == Cf!SizeEnd(s, p + 2)
           z == Cf!PackUsize[v]
<1>1. /\ SegmentIn(s, d, p, e, m, n, body) /\ p \in Nat /\ e \in Nat
      /\ e <= Len(s) /\ Len(s) \in Nat /\ p < Len(s)
      /\ m \in Nat /\ n \in Nat /\ m <= n
  BY SegmentFacts
<1>2. SegmentAt(s, d, p, e, m, n)
  BY DEF SegmentOf, IsSegment
<1> HIDE DEF m, n
<1>3. v \in Nat
  BY <1>1
<1>4. /\ UsizeFollows(s, p + 1, v) /\ body = p + 1 + Len(z) /\ s[p + 1] \in {0, 1}
      /\ s[p + 1] = 0 => e = body + v
      /\ s[p + 1] = 1 => e = body + 1
  BY <1>1, <1>2 DEF SegmentAt, SegmentIn
<1>5. /\ z \in Seq(U8) /\ Len(z) \in Nat /\ Len(z) >= 1 /\ z[Len(z)] < 128
      /\ \A j \in 1 .. Len(z) - 1 : z[j] >= 128
  <2>1. z \in PackedSizes
    BY <1>3, PackUsizeDefined
  <2> QED BY <2>1, LengthIsNat DEF PackedSizes
<1>6. (p + 1) + Len(z) <= Len(s) /\ \A j \in 1 .. Len(z) : s[p + 1 + j] = z[j]
  BY <1>4 DEF UsizeFollows
<1>7. Len(i) \in Nat /\ p + Len(i) <= Len(s) /\ \A j \in 1 .. Len(i) : i[j] = s[p + j]
  BY DEF Lies
<1> HIDE DEF v, z, body
<1>8. ASSUME 1 + Len(z) <= Len(i)
      PROVE  /\ P!UsizeAt(i, 2) = v /\ P!SizeEnd(i, 2) = body - p /\ P!SizeEnd(i, 2) <= Len(i)
  <2>1. UsizeFollows(i, 1, v)
    <3>1. ASSUME NEW j \in 1 .. Len(z) PROVE i[1 + j] = z[j]
      <4>1. 1 + j \in 1 .. Len(i) /\ p + (1 + j) = p + 1 + j
        BY <1>1, <1>5, <1>7, <1>8
      <4> QED BY <1>6, <1>7, <4>1
    <3> QED BY <1>8, <3>1 DEF UsizeFollows, z
  <2> DEFINE k == 1
  <2>2. k \in Nat /\ UsizeFollows(i, k, v) /\ k + 1 = 2
    BY <2>1
  <2> HIDE DEF k
  <2>3. Cf!SizeEnd(i, k + 1) = k + Len(Cf!PackUsize[v]) /\ Cf!UsizeAt(i, k + 1) = v
    BY <1>3, <2>2, SizeIsRead
  <2>4. Cf!SizeEnd(i, 2) = 1 + Len(z) /\ Cf!UsizeAt(i, 2) = v
    BY <2>2, <2>3, Zenon DEF k, z
  <2>5. P!SizeEnd(i, 2) = 1 + Len(z) /\ P!UsizeAt(i, 2) = v
    BY <2>4, OneFormat, Zenon
  <2>6. body - p = 1 + Len(z)
    BY <1>1, <1>4, <1>5
  <2> QED BY <1>8, <2>5, <2>6
<1>9. ASSUME NEW k \in 2 .. Len(i), i[k] < 128 PROVE 1 + Len(z) <= Len(i)
  <2> SUFFICES ASSUME Len(i) < 1 + Len(z) PROVE FALSE
    BY <1>5, <1>7
  <2>1. k - 1 \in 1 .. Len(z) - 1 /\ k \in 1 .. Len(i) /\ p + 1 + (k - 1) = p + k
        /\ k - 1 \in 1 .. Len(z)
    <3>1. Len(z) \in Nat /\ Len(i) \in Nat /\ p \in Nat
      BY <1>1, <1>5, <1>7
    <3> QED BY <3>1
  <2>2. i[k] = s[p + k] /\ s[p + 1 + (k - 1)] = z[k - 1] /\ z[k - 1] >= 128
    BY <1>5, <1>6, <1>7, <2>1
  <2>3. i[k] >= 128 /\ i[k] \in U8
    BY <2>1, <2>2
  <2>4. i[k] \in Nat
    BY <2>3, Bytes
  <2> QED BY <1>9, <2>3, <2>4
<1>10. ASSUME i # <<>> PROVE i[1] = s[p + 1] /\ i[1] \in {0, 1}
  <2>1. 1 \in 1 .. Len(i)
    BY <1>7, <1>10
  <2> QED BY <1>4, <1>7, <2>1
<1>11. ASSUME p + Len(i) = Len(s)
       PROVE  /\ \E k \in 2 .. Len(i) : i[k] < 128
              /\ i[1] = 1 => Len(i) > P!SizeEnd(i, 2)
  <2>1. 1 + Len(z) <= Len(i)
    BY <1>1, <1>5, <1>6, <1>7, <1>11
  <2>2. \E k \in 2 .. Len(i) : i[k] < 128
    <3>1. 1 + Len(z) \in 2 .. Len(i) /\ 1 + Len(z) \in 1 .. Len(i) /\ Len(z) \in 1 .. Len(z)
          /\ p + (1 + Len(z)) = p + 1 + Len(z)
      <4>1. Len(z) \in Nat /\ Len(z) >= 1 /\ Len(i) \in Nat /\ p \in Nat
        BY <1>1, <1>5, <1>7
      <4> QED BY <2>1, <4>1
    <3>2. i[1 + Len(z)] = s[p + (1 + Len(z))] /\ s[p + 1 + Len(z)] = z[Len(z)]
      BY <1>6, <1>7, <3>1
    <3>3. i[1 + Len(z)] < 128
      BY <1>5, <3>1, <3>2
    <3> QED BY <3>1, <3>3
  <2>3. ASSUME i[1] = 1 PROVE Len(i) > P!SizeEnd(i, 2)
    <3>1. P!SizeEnd(i, 2) = body - p
      BY <1>8, <2>1
    <3>2. s[p + 1] = 1
      <4>1. i # <<>>
        BY <1>5, <2>1
      <4> QED BY <1>10, <2>3, <4>1
    <3>3. body + 1 <= Len(s)
      BY <1>1, <1>4, <3>2
    <3> DEFINE w == P!SizeEnd(i, 2)
    <3>4. w = body - p /\ body \in Nat
      BY <1>1, <1>4, <1>5, <3>1
    <3> HIDE DEF w
    <3>5. Len(i) > w
      BY <1>1, <1>7, <1>11, <3>3, <3>4
    <3> QED BY <3>5 DEF w
  <2> QED BY <2>2, <2>3
<1> QED BY <1>8, <1>9, <1>10, <1>11 DEF m, n, v, body

\* All of the next segment, if it is scattered, or its first part.
LEMMA PyScattered ==
    ASSUME NEW s, NEW d, NEW at, NEW tk, NEW i, NEW o, NEW b, NEW q, NEW ns,
           PyHolds(s, d, at, tk, i, o, b, q, ns), ns = 0, i # <<>>, i[1] = 0,
           \E k \in 2 .. Len(i) : i[k] < 128, NEW rem, NEW len,
           rem = P!SizeEnd(i, 2) + P!UsizeAt(i, 2) - Len(i),
           len = IF rem > 0 THEN P!UsizeAt(i, 2) - rem ELSE P!UsizeAt(i, 2)
    PROVE  PyHolds(s, d, at, tk, P!Drop(i, P!SizeEnd(i, 2) + len), o, b,
                   q \o SubSeq(i, P!SizeEnd(i, 2) + 1, P!SizeEnd(i, 2) + len),
                   IF rem > 0 THEN rem ELSE ns)
<1> DEFINE p == tk - Len(i)
           ln == Len(o) + Len(b) + Len(q)
           a == P!SizeEnd(i, 2)
           v == P!UsizeAt(i, 2)
           u == a + len
           x == SubSeq(i, a + 1, u)
           n2 == IF rem > 0 THEN rem ELSE ns
<1>1. PyFacts(s, d, at, tk, i, o, b, q, ns)
  BY PyKnows
<1>2. /\ s \in Seq(U8) /\ d \in Seq(U8) /\ i \in Seq(U8) /\ Len(i) \in Nat
      /\ p \in Nat /\ ln \in Nat /\ Len(d) \in Nat /\ Len(s) \in Nat /\ tk \in Nat /\ tk <= Len(s)
      /\ Lies(i, s, p)
  BY <1>1 DEF PyFacts
<1>3. p < Len(s) /\ p + Len(i) <= Len(s)
  <2>1. Len(i) # 0
    BY <1>2
  <2> QED BY <1>2, <2>1
<1>4. PICK e : SegmentOf(s, d, at, p, e) /\ at[p] = ln
  <2>1. tk - Len(i) < Len(s)
    BY <1>3
  <2> QED BY <2>1, PySegment
<1> HIDE DEF p, ln
<1> DEFINE n == at[e]
           body == Cf!SizeEnd(s, p + 2)
<1>5. /\ SegmentIn(s, d, p, e, ln, n, body) /\ e \in DOMAIN at /\ e \in Nat
      /\ n \in Nat /\ ln <= n /\ n <= Len(d)
  <2>1. /\ SegmentIn(s, d, p, e, at[p], n, body) /\ e \in DOMAIN at /\ e \in Nat
        /\ n \in Nat /\ at[p] <= n /\ n <= Len(d)
    BY <1>4, SegmentFacts
  <2> QED BY <1>4, <2>1
<1>6. i[1] = s[p + 1] /\ v = n - at[p] /\ a = body - p /\ a <= Len(i)
  BY <1>2, <1>4, PySize, SMTT(30)
<1> HIDE DEF n, body, a, v
<1>7. v = n - ln /\ a = body - p /\ a <= Len(i) /\ s[p + 1] = 0 /\ rem = a + v - Len(i)
  BY <1>4, <1>6 DEF a, v
<1>8. body \in Nat /\ body >= p + 2 /\ e = body + (n - ln)
      /\ \A j \in 1 .. n - ln : s[body + j] = d[ln + j]
  BY <1>5, <1>7 DEF SegmentIn
<1>9. /\ body \in Nat /\ body >= p + 2 /\ e = body + (n - ln)
      /\ p \in Nat /\ ln \in Nat /\ n \in Nat /\ e \in Nat /\ Len(i) \in Nat /\ Len(d) \in Nat
      /\ ln <= n /\ n <= Len(d)
      /\ v = n - ln /\ a = body - p /\ a <= Len(i) /\ rem = a + v - Len(i)
  BY <1>2, <1>5, <1>7, <1>8
<1>10. a \in Nat /\ v \in Nat /\ rem \in Int
  BY ONLY <1>9
<1>11. /\ len \in Nat /\ len <= v /\ u \in Nat /\ u <= Len(i) /\ n2 \in Nat
       /\ \/ rem > 0 /\ n2 = rem /\ len = Len(i) - a /\ len = v - rem
          \/ n2 = 0 /\ len = v
  <2>0. u = a + len
    OBVIOUS
  <2>1. CASE rem > 0
    <3>1. len = v - rem /\ n2 = rem
      BY <2>1 DEF v
    <3> HIDE DEF u, n2
    <3> DEFINE Ln == Len(i)
    <3>2. /\ a \in Nat /\ v \in Nat /\ rem \in Int /\ Ln \in Nat /\ rem = a + v - Ln /\ a <= Ln
      BY ONLY <1>9, <1>10
    <3> HIDE DEF Ln
    <3>3. len = Ln - a /\ len \in Nat
      BY ONLY <3>1, <3>2
    <3>4. len <= v /\ u = Ln /\ n2 \in Nat
      BY ONLY <2>0, <2>1, <3>1, <3>2, <3>3
    <3>5. u \in Nat /\ u <= Ln
      BY ONLY <3>2, <3>4
    <3> QED BY <2>1, <3>1, <3>3, <3>4, <3>5, Zenon DEF Ln
  <2>2. CASE ~ (rem > 0)
    <3>1. len = v /\ n2 = 0
      BY <2>2 DEF v
    <3> HIDE DEF u, n2
    <3> QED BY ONLY <1>9, <1>10, <2>0, <2>2, <3>1
  <2> QED BY <2>1, <2>2
<1>12. u = a + len
  OBVIOUS
<1> HIDE DEF u, n2
<1>13. x \in Seq(U8) /\ Len(x) = len /\ \A j \in 1 .. len : x[j] = i[a + j]
  <2>1. a \in 0 .. Len(i) /\ u \in a .. Len(i) /\ u - a = len
    BY ONLY <1>9, <1>10, <1>11, <1>12
  <2>2. /\ SubSeq(i, a + 1, u) \in Seq(U8) /\ Len(SubSeq(i, a + 1, u)) = u - a
        /\ \A j \in 1 .. u - a : SubSeq(i, a + 1, u)[j] = i[a + j]
    <3>1. i \in Seq(U8)
      BY <1>2
    <3> QED BY ONLY <2>1, <3>1, Part
  <2> QED BY <2>1, <2>2
<1> HIDE DEF x
<1>14. ASSUME NEW j \in 1 .. len PROVE x[j] = d[ln + j]
  <2>1. a + j \in 1 .. Len(i) /\ j \in 1 .. n - ln /\ p + (a + j) = body + j
    BY ONLY <1>9, <1>10, <1>11, <1>12
  <2>2. i[a + j] = s[p + (a + j)]
    BY <2>1, <1>2 DEF Lies
  <2>3. s[body + j] = d[ln + j]
    BY <1>8, <2>1
  <2> QED BY <1>13, <2>1, <2>2, <2>3
<1>15. Lies(x, d, ln)
  <2>1. ln + len <= Len(d)
    BY ONLY <1>9, <1>10, <1>11
  <2> QED BY <1>13, <1>14, <2>1 DEF Lies
<1>16. PyAt(s, d, at, p + u, ln + Len(x), n2)
  <2>1. CASE rem > 0 /\ n2 = rem /\ len = Len(i) - a /\ len = v - rem
    <3>1. n2 > 0 /\ p + u >= body /\ (p + u) + n2 = e /\ (ln + len) + n2 = n
      BY ONLY <1>9, <1>10, <1>11, <1>12, <2>1
    <3> QED BY <1>4, <1>7, <1>13, <3>1, Zenon DEF PyAt, n, body
  <2>2. CASE n2 = 0 /\ len = v
    <3>1. p + u = e /\ ln + len = n
      BY ONLY <1>9, <1>10, <1>11, <1>12, <2>2
    <3> QED BY <1>5, <1>13, <2>2, <3>1, Zenon DEF PyAt, n
  <2> QED BY <1>11, <2>1, <2>2
<1>17. PyHolds(s, d, at, tk, P!Drop(i, u), o, b, q \o x, n2)
  <2>1. n2 \in Nat /\ u \in 0 .. Len(i) /\ x \in Seq(U8)
    BY <1>2, <1>11, <1>13
  <2>2. PyAt(s, d, at, tk - Len(i) + u, Len(o) + Len(b) + Len(q) + Len(x), n2)
    BY <1>16, Zenon DEF p, ln
  <2>3. Lies(x, d, Len(o) + Len(b) + Len(q))
    BY <1>15 DEF ln
  <2>4. PyHolds(s, d, at, tk, i, o, b, q, ns)
    OBVIOUS
  <2> QED BY ONLY <2>1, <2>2, <2>3, <2>4, PyExtends
<1> QED BY <1>17 DEF x, u, a, n2

\* All of the next segment, if it is repeated.
LEMMA PyRepeated ==
    ASSUME NEW s, NEW d, NEW at, NEW tk, NEW i, NEW o, NEW b, NEW q, NEW ns,
           PyHolds(s, d, at, tk, i, o, b, q, ns), ns = 0, i # <<>>, i[1] = 1,
           \E k \in 2 .. Len(i) : i[k] < 128, Len(i) > P!SizeEnd(i, 2)
    PROVE  PyHolds(s, d, at, tk, P!Drop(i, P!SizeEnd(i, 2) + 1), o, b,
                   q \o [k \in 1 .. P!UsizeAt(i, 2) |-> i[P!SizeEnd(i, 2) + 1]], ns)
<1> DEFINE p == tk - Len(i)
           ln == Len(o) + Len(b) + Len(q)
           a == P!SizeEnd(i, 2)
           v == P!UsizeAt(i, 2)
           u == a + 1
           y == i[a + 1]
           x == [k \in 1 .. v |-> y]
<1>1. PyFacts(s, d, at, tk, i, o, b, q, ns)
  BY PyKnows
<1>2. /\ s \in Seq(U8) /\ d \in Seq(U8) /\ i \in Seq(U8) /\ Len(i) \in Nat
      /\ p \in Nat /\ ln \in Nat /\ Len(d) \in Nat /\ Len(s) \in Nat /\ tk \in Nat /\ tk <= Len(s)
      /\ Lies(i, s, p)
  BY <1>1 DEF PyFacts
<1>3. p < Len(s) /\ p + Len(i) <= Len(s)
  <2>1. Len(i) # 0
    BY <1>2
  <2> QED BY <1>2, <2>1
<1>4. PICK e : SegmentOf(s, d, at, p, e) /\ at[p] = ln
  <2>1. tk - Len(i) < Len(s)
    BY <1>3
  <2> QED BY <2>1, PySegment
<1> HIDE DEF p, ln
<1> DEFINE n == at[e]
           body == Cf!SizeEnd(s, p + 2)
<1>5. /\ SegmentIn(s, d, p, e, ln, n, body) /\ e \in DOMAIN at /\ e \in Nat
      /\ n \in Nat /\ ln <= n /\ n <= Len(d)
  <2>1. /\ SegmentIn(s, d, p, e, at[p], n, body) /\ e \in DOMAIN at /\ e \in Nat
        /\ n \in Nat /\ at[p] <= n /\ n <= Len(d)
    BY <1>4, SegmentFacts
  <2> QED BY <1>4, <2>1
<1>6. i[1] = s[p + 1] /\ v = n - at[p] /\ a = body - p /\ a < Len(i)
  BY <1>2, <1>4, PySize, SMTT(30)
<1> HIDE DEF n, body, a, v
<1>7. v = n - ln /\ a = body - p /\ a < Len(i) /\ s[p + 1] = 1
  BY <1>4, <1>6
<1>8. body \in Nat /\ body >= p + 2 /\ e = body + 1 /\ \A j \in 1 .. n - ln : s[body + 1] = d[ln + j]
  BY <1>5, <1>7 DEF SegmentIn
<1>9. /\ body \in Nat /\ body >= p + 2 /\ e = body + 1
      /\ p \in Nat /\ ln \in Nat /\ n \in Nat /\ e \in Nat /\ Len(i) \in Nat /\ ln <= n
      /\ v = n - ln /\ a = body - p /\ a < Len(i) /\ u = a + 1
  BY <1>2, <1>5, <1>7, <1>8
<1> HIDE DEF u
<1>10. a \in Nat /\ v \in Nat /\ u \in 0 .. Len(i) /\ p + u = e /\ ln + v = n /\ a + 1 \in 1 .. Len(i)
       /\ p + (a + 1) = body + 1
  BY <1>9
<1>11. y = s[body + 1] /\ y \in U8
  <2>1. i[a + 1] = s[p + (a + 1)]
    BY <1>2, <1>10 DEF Lies
  <2>2. i[a + 1] \in U8
    <3>1. i \in Seq(U8) /\ a + 1 \in 1 .. Len(i)
      BY <1>2, <1>10
    <3> QED BY ONLY <3>1
  <2> QED BY <1>10, <2>1, <2>2
<1> HIDE DEF y, u
<1>12. x \in Seq(U8) /\ Len(x) = v /\ \A j \in 1 .. v : x[j] = y
  BY <1>10, <1>11
<1> HIDE DEF x
<1>13. Lies(x, d, ln)
  <2>1. ln + v <= Len(d)
    BY <1>5, <1>10
  <2>2. ASSUME NEW j \in 1 .. v PROVE x[j] = d[ln + j]
    <3>1. j \in 1 .. n - ln
      BY <1>7
    <3> QED BY <1>8, <1>11, <1>12, <3>1
  <2> QED BY <1>12, <2>1, <2>2 DEF Lies
<1>14. PyAt(s, d, at, p + u, ln + Len(x), ns)
  BY <1>5, <1>10, <1>12, Zenon DEF PyAt, n
<1>15. PyHolds(s, d, at, tk, P!Drop(i, u), o, b, q \o x, ns)
  <2>1. ns \in Nat /\ u \in 0 .. Len(i) /\ x \in Seq(U8)
    BY <1>10, <1>12
  <2>2. PyAt(s, d, at, tk - Len(i) + u, Len(o) + Len(b) + Len(q) + Len(x), ns)
    BY <1>14, Zenon DEF p, ln
  <2>3. Lies(x, d, Len(o) + Len(b) + Len(q))
    BY <1>13 DEF ln
  <2>4. PyHolds(s, d, at, tk, i, o, b, q, ns)
    OBVIOUS
  <2> QED BY ONLY <2>1, <2>2, <2>3, <2>4, PyExtends
<1> QED BY <1>15 DEF x, y, u, v, a

\* At the end of the stream all has been decompressed.
LEMMA PyEnds ==
    ASSUME NEW s, NEW d, NEW at, NEW tk, NEW i, NEW o, NEW b, NEW q, NEW ns,
           PyHolds(s, d, at, tk, i, o, b, q, ns), i = <<>>, tk = Len(s)
    PROVE  Len(o) + Len(b) + Len(q) = Len(d)
<1> DEFINE ln == Len(o) + Len(b) + Len(q)
<1>1. PyFacts(s, d, at, tk, i, o, b, q, ns)
  BY PyKnows
<1>2. /\ tk - Len(i) = Len(s) /\ Len(s) \in Nat /\ ns \in Nat /\ Whole(s, d, at)
      /\ PyAt(s, d, at, tk - Len(i), ln, ns)
  <2>1. Len(i) = 0
    OBVIOUS
  <2> QED BY <1>1, <2>1 DEF PyFacts
<1> HIDE DEF ln
<1>3. at[Len(s)] = Len(d)
  BY <1>2 DEF Whole
<1>4. ASSUME ns > 0 PROVE FALSE
  <2>1. PICK a, e : SegmentOf(s, d, at, a, e) /\ Len(s) + ns = e
    BY <1>2, <1>4 DEF PyAt
  <2>2. e \in Nat /\ e <= Len(s)
    BY <2>1, SegmentFacts
  <2> QED BY <1>2, <1>4, <2>1, <2>2
<1>5. ln = at[Len(s)]
  BY <1>2, <1>4 DEF PyAt
<1> QED BY <1>3, <1>5 DEF ln

\* And not before, unless there is nothing.
LEMMA PyGoesOn ==
    ASSUME NEW s, NEW d, NEW at, NEW tk, NEW i, NEW o, NEW b, NEW q, NEW ns,
           PyHolds(s, d, at, tk, i, o, b, q, ns), d # <<>>,
           Len(o) + Len(b) + Len(q) = Len(d)
    PROVE  i = <<>> /\ tk = Len(s)
<1> DEFINE ln == Len(o) + Len(b) + Len(q)
           p == tk - Len(i)
<1>1. PyFacts(s, d, at, tk, i, o, b, q, ns)
  BY PyKnows
<1>2. /\ i \in Seq(U8) /\ tk \in Nat /\ tk <= Len(s) /\ Len(i) \in Nat /\ p \in Nat
      /\ Len(s) \in Nat /\ ns \in Nat
      /\ Len(d) \in Nat /\ PyAt(s, d, at, p, ln, ns)
  BY <1>1 DEF PyFacts
<1>3. ln = Len(d)
  OBVIOUS
<1> HIDE DEF ln
<1>4. ASSUME ns > 0 PROVE FALSE
  <2> HIDE DEF p
  <2>1. PICK a, e : SegmentOf(s, d, at, a, e) /\ ln + ns = at[e]
    BY <1>2, <1>4 DEF PyAt
  <2>2. at[e] <= Len(d)
    BY <2>1, SegmentFacts
  <2> QED BY <1>2, <1>3, <1>4, <2>1, <2>2
<1>5. ns = 0
  BY <1>2, <1>4
<1>6. ASSUME p < Len(s) PROVE FALSE
  <2>1. PICK e : SegmentOf(s, d, at, p, e) /\ at[p] = ln
    <3>1. tk - Len(i) < Len(s)
      BY <1>6
    <3> QED BY <1>5, <3>1, PySegment DEF ln
  <2>2. /\ at[p] \in Nat /\ at[e] \in Nat /\ at[p] <= at[e] /\ at[e] <= Len(d)
    BY <2>1, SegmentFacts
  <2>3. SegmentAt(s, d, p, e, at[p], at[e])
    BY <2>1 DEF SegmentOf, IsSegment
  <2>4. at[e] = at[p]
    BY <1>2, <1>3, <2>1, <2>2
  <2>5. d = <<>>
    BY <2>3, <2>4, Zenon DEF SegmentAt
  <2> QED BY <2>5
<1>7. Len(i) = 0 /\ tk = Len(s)
  BY <1>2, <1>6
<1> QED BY <1>2, <1>7

\* z more bytes are read.
LEMMA PyTakes ==
    ASSUME NEW s, NEW d, NEW at, NEW tk, NEW i, NEW o, NEW b, NEW q, NEW ns,
           PyHolds(s, d, at, tk, i, o, b, q, ns), NEW z \in Nat, tk + z <= Len(s)
    PROVE  PyHolds(s, d, at, tk + z, i \o SubSeq(s, tk + 1, tk + z), o, b, q, ns)
<1> DEFINE t2 == tk + z
           x == SubSeq(s, tk + 1, t2)
           i2 == i \o x
           p == tk - Len(i)
           ln == Len(o) + Len(b) + Len(q)
<1>1. PyFacts(s, d, at, tk, i, o, b, q, ns)
  BY PyKnows
<1>2. /\ s \in Seq(U8) /\ d \in Seq(U8) /\ Whole(s, d, at)
      /\ i \in Seq(U8) /\ o \in Seq(U8) /\ b \in Seq(U8) /\ q \in Seq(U8) /\ ns \in Nat
      /\ Lies(i, s, p) /\ Lies(o, d, 0) /\ Lies(b, d, Len(o)) /\ Lies(q, d, Len(o) + Len(b))
      /\ tk \in Nat /\ Len(s) \in Nat /\ Len(i) \in Nat /\ p \in Nat
      /\ PyAt(s, d, at, p, ln, ns)
  BY <1>1 DEF PyFacts
<1> HIDE DEF ln
<1>3. tk \in 0 .. Len(s) /\ t2 \in tk .. Len(s) /\ t2 - tk = z /\ t2 \in 0 .. Len(s) /\ p + Len(i) = tk
  BY <1>2
<1> HIDE DEF t2
<1>4. x \in Seq(U8) /\ Len(x) = t2 - tk /\ Lies(x, s, tk)
  BY <1>2, <1>3, LiesIn
<1> HIDE DEF x, p
<1>5. i2 \in Seq(U8) /\ Len(i2) = Len(i) + Len(x) /\ Lies(i2, s, p)
  <2>1. /\ i \in Seq(U8) /\ x \in Seq(U8) /\ s \in Seq(U8) /\ p \in Nat
        /\ Lies(i, s, p) /\ Lies(x, s, p + Len(i))
    BY <1>2, <1>3, <1>4
  <2> QED BY ONLY <2>1, LiesJoined
<1> HIDE DEF i2
<1>6. Len(i2) <= t2 /\ t2 - Len(i2) = p
  BY <1>2, <1>3, <1>4, <1>5 DEF p
<1>7. Lies(i2, s, t2 - Len(i2)) /\ PyAt(s, d, at, t2 - Len(i2), Len(o) + Len(b) + Len(q), ns)
  BY <1>2, <1>5, <1>6, Zenon DEF ln
<1> QED BY <1>2, <1>3, <1>5, <1>6, <1>7, Zenon DEF PyHolds, i2, x, t2

\* z bytes are delivered.
LEMMA PyDelivers ==
    ASSUME NEW s, NEW d, NEW at, NEW tk, NEW i, NEW o, NEW b, NEW q, NEW ns,
           PyHolds(s, d, at, tk, i, o, b, q, ns), NEW z \in Nat, z <= Len(q)
    PROVE  /\ PyHolds(s, d, at, tk, i, o, b \o SubSeq(q, 1, z), P!Drop(q, z), ns)
           /\ Len(b \o SubSeq(q, 1, z)) = Len(b) + z
<1> DEFINE c == 0
           l == Len(q)
           x == SubSeq(q, c + 1, z)
           b2 == b \o x
           q2 == SubSeq(q, z + 1, l)
           ln == Len(o) + Len(b) + Len(q)
           k == Len(o) + Len(b)
<1>1. PyFacts(s, d, at, tk, i, o, b, q, ns)
  BY PyKnows
<1>2. /\ s \in Seq(U8) /\ d \in Seq(U8) /\ Whole(s, d, at)
      /\ i \in Seq(U8) /\ o \in Seq(U8) /\ b \in Seq(U8) /\ q \in Seq(U8) /\ ns \in Nat
      /\ Lies(i, s, tk - Len(i)) /\ Lies(o, d, 0) /\ Lies(b, d, Len(o)) /\ Lies(q, d, k)
      /\ tk \in Nat /\ tk <= Len(s) /\ Len(s) \in Nat /\ Len(i) \in Nat /\ tk - Len(i) \in Nat
      /\ Len(o) \in Nat /\ Len(b) \in Nat /\ l \in Nat
      /\ PyAt(s, d, at, tk - Len(i), ln, ns)
  BY <1>1 DEF PyFacts
<1>3. /\ c \in 0 .. l /\ z \in c .. l /\ z - c = z /\ z \in 0 .. l /\ l \in z .. l /\ k \in Nat
      /\ tk \in 0 .. Len(s) /\ Len(i) <= tk /\ k + c = k
  BY <1>2
<1>4. /\ x \in Seq(U8) /\ Len(x) = z - c /\ Lies(x, d, k + c)
  <2>1. c \in 0 .. Len(q) /\ z \in c .. Len(q) /\ k \in Nat /\ q \in Seq(U8) /\ d \in Seq(U8)
        /\ Lies(q, d, k)
    BY <1>2, <1>3
  <2> HIDE DEF c, k
  <2> QED BY ONLY <2>1, LiesPart DEF x
<1>5. q2 \in Seq(U8) /\ Len(q2) = l - z /\ Lies(q2, d, k + z)
  <2>1. z \in 0 .. Len(q) /\ l \in z .. Len(q) /\ k \in Nat /\ q \in Seq(U8) /\ d \in Seq(U8)
        /\ Lies(q, d, k)
    BY <1>2, <1>3
  <2> HIDE DEF l, k
  <2> QED BY ONLY <2>1, LiesPart DEF q2
<1> HIDE DEF x, q2
<1>6. b2 \in Seq(U8) /\ Len(b2) = Len(b) + Len(x) /\ Lies(b2, d, Len(o))
  <2>1. /\ b \in Seq(U8) /\ x \in Seq(U8) /\ d \in Seq(U8) /\ Len(o) \in Nat
        /\ Lies(b, d, Len(o)) /\ Lies(x, d, Len(o) + Len(b))
    BY <1>2, <1>3, <1>4
  <2> QED BY ONLY <2>1, LiesJoined DEF b2
<1> HIDE DEF b2, c
<1>7. Len(o) + Len(b2) = k + z /\ Len(o) + Len(b2) + Len(q2) = ln /\ Len(b2) = Len(b) + z
  BY <1>2, <1>3, <1>4, <1>5, <1>6
<1> HIDE DEF l, k, ln
<1>8. PyHolds(s, d, at, tk, i, o, b2, q2, ns)
  BY <1>2, <1>3, <1>5, <1>6, <1>7, Zenon DEF PyHolds
<1>9. SubSeq(q, 1, z) = x
  BY DEF x, c
<1> QED BY <1>7, <1>8, <1>9, Zenon DEF P!Drop, b2, q2, l

\* What a call has collected is returned.
LEMMA PyReturns ==
    ASSUME NEW s, NEW d, NEW at, NEW tk, NEW i, NEW o, NEW b, NEW q, NEW ns,
           PyHolds(s, d, at, tk, i, o, b, q, ns)
    PROVE  /\ PyHolds(s, d, at, tk, i, o \o b, <<>>, q, ns)
           /\ Len(o \o b) = Len(o) + Len(b)
<1> DEFINE o2 == o \o b
           e == <<>>
           z == 0
<1>1. PyFacts(s, d, at, tk, i, o, b, q, ns)
  BY PyKnows
<1>2. /\ s \in Seq(U8) /\ d \in Seq(U8) /\ Whole(s, d, at)
      /\ i \in Seq(U8) /\ o \in Seq(U8) /\ b \in Seq(U8) /\ q \in Seq(U8) /\ ns \in Nat
      /\ Lies(i, s, tk - Len(i)) /\ Lies(o, d, z) /\ Lies(b, d, Len(o)) /\ Lies(q, d, Len(o) + Len(b))
      /\ tk \in Nat /\ tk <= Len(s) /\ Len(s) \in Nat /\ Len(i) \in Nat /\ tk - Len(i) \in Nat
      /\ Len(o) \in Nat /\ Len(b) \in Nat /\ Len(q) \in Nat /\ Len(d) \in Nat
      /\ Len(o) + Len(b) + Len(q) <= Len(d)
      /\ PyAt(s, d, at, tk - Len(i), Len(o) + Len(b) + Len(q), ns)
  BY <1>1 DEF PyFacts
<1>3. z + Len(o) = Len(o) /\ z \in Nat /\ tk \in 0 .. Len(s) /\ Len(i) <= tk
  BY <1>2
<1> HIDE DEF z
<1>4. o2 \in Seq(U8) /\ Len(o2) = Len(o) + Len(b) /\ Lies(o2, d, z)
  <2>1. /\ o \in Seq(U8) /\ b \in Seq(U8) /\ d \in Seq(U8) /\ z \in Nat
        /\ Lies(o, d, z) /\ Lies(b, d, z + Len(o))
    BY <1>2, <1>3
  <2> QED BY ONLY <2>1, LiesJoined DEF o2
<1> HIDE DEF o2
<1>5. e \in Seq(U8) /\ Len(e) = 0 /\ Lies(e, d, Len(o2))
  <2> DEFINE y == Len(o2)
  <2>1. y \in 0 .. Len(d) /\ d \in Seq(U8)
    BY <1>2, <1>4
  <2> HIDE DEF y
  <2>2. Lies(<<>>, d, y) /\ <<>> \in Seq(U8) /\ Len(<<>>) = 0
    BY ONLY <2>1, LiesNothing
  <2> QED BY <2>2 DEF y
<1> HIDE DEF e
<1>6. Len(o2) + Len(e) = Len(o) + Len(b)
  BY <1>2, <1>4, <1>5
<1>7. PyHolds(s, d, at, tk, i, o2, e, q, ns)
  BY <1>2, <1>3, <1>4, <1>5, <1>6, Zenon DEF PyHolds, z
<1> QED BY <1>4, <1>7, Zenon DEF o2, e

PyInv ==
    /\ pc \in {"new", "idle", "loop", "segments", "error"} /\ wanted \in Nat
    /\ flushing # "done" => pc = "new"
    /\ pc = "new" => /\ taken = 0 /\ number_of_indata_bytes_left = 0 /\ indata = <<>> /\ outdata = <<>>
                     /\ number_of_scattered_bytes_left = 0 /\ wanted = 0 /\ buf = <<>> /\ out = <<>>
    /\ pc # "new" => /\ number_of_indata_bytes_left = Len(stream) - taken
                     /\ \E at : PyHolds(stream, input, at, taken, indata, out, buf, outdata,
                                        number_of_scattered_bytes_left)
    /\ pc \in {"idle", "error"} => wanted = 0
    /\ pc = "idle" => buf = <<>>
    /\ pc \in {"loop", "segments"} => wanted > 0 /\ Len(buf) <= wanted
    /\ pc \in {"idle", "loop"} => P!Incomplete
    /\ pc = "error" => out \o buf = input /\ P!Eof

\* What a caller sees.
PyReturned(p, w, o) ==
    IF p = "error" THEN "error" ELSE IF w > 0 THEN "again" ELSE IF o # <<>> THEN "ok" ELSE "none"

PyMoves ==
    Moves(input, 0, wanted, out, PyReturned(pc, wanted, out),
          0, wanted', out', PyReturned(pc', wanted', out'))

LEMMA PyKeeps ==
    ASSUME StreamKept, NEW at,
           PyHolds(stream, input, at, taken', indata', out', buf', outdata',
                   number_of_scattered_bytes_left'),
           number_of_indata_bytes_left' = Len(stream) - taken',
           pc' \in {"idle", "loop", "segments", "error"}, wanted' \in Nat,
           pc' \in {"idle", "error"} => wanted' = 0, pc' = "idle" => buf' = <<>>,
           pc' \in {"loop", "segments"} => wanted' > 0 /\ Len(buf') <= wanted',
           pc' \in {"idle", "loop"} => P!Incomplete',
           pc' = "error" => out' \o buf' = input /\ P!Eof'
    PROVE  PyInv'
<1>1. stream' = stream /\ input' = input /\ flushing' = "done"
  BY DEF StreamKept
<1>2. PyHolds(stream', input', at, taken', indata', out', buf', outdata',
              number_of_scattered_bytes_left')
  BY <1>1, Zenon
<1>3. number_of_indata_bytes_left' = Len(stream') - taken'
  BY <1>1
<1>4. pc' # "new" /\ pc' \in {"new", "idle", "loop", "segments", "error"}
  OBVIOUS
<1>5. pc' = "error" => out' \o buf' = input' /\ P!Eof'
  BY <1>1, Zenon
<1> QED BY <1>1, <1>2, <1>3, <1>4, <1>5, Zenon DEF PyInv

\* What is known when the decompressor has the stream.
LEMMA PyWorks ==
    ASSUME CompressorInv, PyInv, pc # "new"
    PROVE  /\ flushing = "done" /\ stream \in Seq(U8) /\ Len(stream) \in Nat /\ input \in Seq(U8)
           /\ wanted \in Nat /\ number_of_indata_bytes_left = Len(stream) - taken
           /\ taken \in Nat /\ taken <= Len(stream) /\ indata \in Seq(U8) /\ out \in Seq(U8)
           /\ buf \in Seq(U8) /\ outdata \in Seq(U8) /\ number_of_scattered_bytes_left \in Nat
           /\ \E at : PyHolds(stream, input, at, taken, indata, out, buf, outdata,
                              number_of_scattered_bytes_left)
<1>1. /\ flushing = "done" /\ wanted \in Nat /\ number_of_indata_bytes_left = Len(stream) - taken
  BY DEF PyInv
<1>2. PICK at : PyHolds(stream, input, at, taken, indata, out, buf, outdata,
                        number_of_scattered_bytes_left)
  BY DEF PyInv
<1>3. PyFacts(stream, input, at, taken, indata, out, buf, outdata, number_of_scattered_bytes_left)
  BY <1>2, PyKnows
<1> QED BY <1>1, <1>2, <1>3, Zenon DEF PyFacts

LEMMA PyNew ==
    ASSUME CompressorInv, PyInv, UNCHANGED C!compressor, P!New
    PROVE  PyInv' /\ PyMoves
<1>1. /\ pc = "new" /\ flushing = "done" /\ number_of_indata_bytes_left' = Len(stream) /\ pc' = "idle"
      /\ taken' = taken /\ indata' = indata /\ outdata' = outdata
      /\ number_of_scattered_bytes_left' = number_of_scattered_bytes_left
      /\ wanted' = wanted /\ buf' = buf /\ out' = out
      /\ stream' = stream /\ input' = input /\ flushing' = flushing
  BY DEF P!New, C!compressor
<1>2. /\ taken = 0 /\ indata = <<>> /\ outdata = <<>> /\ number_of_scattered_bytes_left = 0
      /\ wanted = 0 /\ buf = <<>> /\ out = <<>>
  BY <1>1 DEF PyInv
<1>3. PICK at : Whole(stream, input, at)
  BY <1>1, StreamIsWhole
<1>4. stream \in Seq(U8) /\ input \in Seq(U8) /\ Len(stream) \in Nat /\ Len(input) \in Nat
      /\ 0 \in DOMAIN at /\ at[0] = 0
  BY <1>3, LengthIsNat DEF Whole, Segments, Cuts
<1> DEFINE e == <<>>
<1>5. e \in Seq(U8) /\ Len(e) = 0 /\ Lies(e, stream, 0) /\ Lies(e, input, 0)
  <2> DEFINE z == 0
  <2>1. z \in 0 .. Len(stream) /\ z \in 0 .. Len(input)
    BY <1>4
  <2> HIDE DEF z
  <2>2. Lies(<<>>, stream, z) /\ Lies(<<>>, input, z) /\ <<>> \in Seq(U8) /\ Len(<<>>) = 0
    BY <1>4, <2>1, LiesNothing
  <2> QED BY <2>2 DEF z
<1> HIDE DEF e
<1>6. PyHolds(stream, input, at, 0, e, e, e, e, 0)
  <2>1. 0 \in 0 .. Len(stream) /\ Len(e) <= 0 /\ 0 - Len(e) = 0 /\ Len(e) + Len(e) = 0
        /\ Len(e) + Len(e) + Len(e) = 0 /\ 0 \in Nat
    BY <1>4, <1>5
  <2>2. PyAt(stream, input, at, 0, 0, 0)
    BY <1>4, Zenon DEF PyAt
  <2>3. /\ Lies(e, stream, 0 - Len(e)) /\ Lies(e, input, Len(e)) /\ Lies(e, input, Len(e) + Len(e))
        /\ PyAt(stream, input, at, 0 - Len(e), Len(e) + Len(e) + Len(e), 0)
    BY <1>5, <2>1, <2>2, Zenon
  <2> QED BY <1>3, <1>4, <1>5, <2>1, <2>3, Zenon DEF PyHolds
<1>7. PyInv'
  <2>1. StreamKept
    BY <1>1 DEF StreamKept
  <2>2. PyHolds(stream, input, at, taken', indata', out', buf', outdata',
                number_of_scattered_bytes_left')
    BY <1>1, <1>2, <1>6, Zenon DEF e
  <2>3. number_of_indata_bytes_left' = Len(stream) - taken'
    BY <1>1, <1>2, <1>4
  <2>4. /\ pc' \in {"idle", "loop", "segments", "error"} /\ wanted' \in Nat /\ wanted' = 0
        /\ buf' = <<>> /\ pc' \notin {"loop", "segments"} /\ pc' # "error"
    BY <1>1, <1>2
  <2>5. P!Incomplete'
    BY <1>1, <1>2 DEF P!Incomplete
  <2> QED BY <2>1, <2>2, <2>3, <2>4, <2>5, PyKeeps, Zenon
<1>8. PyMoves
  <2>1. PyReturned(pc, wanted, out) = PyReturned(pc', wanted', out')
    BY <1>1 DEF PyReturned
  <2> QED BY <1>1, <2>1, Zenon DEF PyMoves, Moves
<1> QED BY <1>7, <1>8

LEMMA PyCall ==
    ASSUME CompressorInv, PyInv, UNCHANGED C!compressor, P!Call
    PROVE  PyInv' /\ PyMoves
<1>1. /\ pc = "idle" /\ wanted' \in 1 .. MaxWanted /\ buf' = <<>> /\ pc' = "loop"
      /\ taken' = taken /\ indata' = indata /\ outdata' = outdata
      /\ number_of_scattered_bytes_left' = number_of_scattered_bytes_left
      /\ number_of_indata_bytes_left' = number_of_indata_bytes_left /\ out' = out
      /\ stream' = stream /\ input' = input /\ flushing' = flushing
  BY DEF P!Call, C!compressor
<1>2. wanted = 0 /\ buf = <<>> /\ P!Incomplete
  BY <1>1 DEF PyInv
<1>3. PICK at : PyHolds(stream, input, at, taken, indata, out, buf, outdata,
                        number_of_scattered_bytes_left)
  BY <1>1, PyWorks
<1>4. flushing = "done" /\ number_of_indata_bytes_left = Len(stream) - taken
  BY <1>1, PyWorks
<1>5. MaxWanted \in Nat
  BY DecompressorAssumption DEF P!DecompressorAssumption
<1>6. wanted' \in Nat \ {0} /\ Len(buf') = 0 /\ wanted' > 0 /\ Len(buf') <= wanted'
  BY <1>1, <1>5
<1>7. PyInv'
  <2>1. StreamKept
    BY <1>1, <1>4 DEF StreamKept
  <2>2. PyHolds(stream, input, at, taken', indata', out', buf', outdata',
                number_of_scattered_bytes_left')
    BY <1>1, <1>2, <1>3, Zenon
  <2>3. number_of_indata_bytes_left' = Len(stream) - taken'
    BY <1>1, <1>4, Zenon
  <2>4. /\ pc' \in {"idle", "loop", "segments", "error"} /\ wanted' \in Nat /\ wanted' > 0
        /\ Len(buf') <= wanted' /\ pc' \notin {"idle", "error"} /\ pc' # "error" /\ pc' # "idle"
    BY <1>1, <1>6
  <2>5. P!Incomplete'
    <3>1. P!Incomplete' <=> P!Incomplete
      BY <1>1 DEF P!Incomplete, P!HasSize, P!Body, P!SizeEnd, P!Least, P!Scattered, P!Repeated
    <3> QED BY <1>2, <3>1
  <2> QED BY <2>1, <2>2, <2>3, <2>4, <2>5, PyKeeps, Zenon
<1>8. PyMoves
  <2>1. PyReturned(pc, wanted, out) # "error" /\ PyReturned(pc', wanted', out') = "again"
    BY <1>1, <1>6 DEF PyReturned
  <2> QED BY <1>1, <1>2, <1>6, <2>1, Zenon DEF PyMoves, Moves
<1> QED BY <1>7, <1>8

\* There is always a whole segment left to decompress while bytes are missing.
LEMMA PyNotStuck ==
    ASSUME NEW s, NEW d, NEW at, NEW tk, NEW i, NEW o, NEW b, NEW q, NEW ns,
           PyHolds(s, d, at, tk, i, o, b, q, ns), ns = 0, tk = Len(s), i # <<>>
    PROVE  /\ \E k \in 2 .. Len(i) : i[k] < 128
           /\ i[1] = 1 => Len(i) > P!SizeEnd(i, 2)
<1>1. PyFacts(s, d, at, tk, i, o, b, q, ns)
  BY PyKnows
<1> DEFINE p == tk - Len(i)
<1>2. /\ s \in Seq(U8) /\ i \in Seq(U8) /\ Len(i) \in Nat /\ p \in Nat /\ Len(s) \in Nat
      /\ tk \in Nat /\ Lies(i, s, p)
  BY <1>1 DEF PyFacts
<1>3. p + Len(i) = Len(s) /\ tk - Len(i) < Len(s)
  <2>1. Len(i) # 0
    BY <1>2
  <2> QED BY <1>2, <2>1
<1>4. PICK e : SegmentOf(s, d, at, p, e)
  BY <1>3, PySegment
<1> HIDE DEF p
<1>5. /\ SegmentOf(s, d, at, p, e) /\ s \in Seq(U8) /\ i \in Seq(U8) /\ Lies(i, s, p)
  BY <1>2, <1>4
<1>6. p + Len(i) = Len(s) =>
         /\ \E k \in 2 .. Len(i) : i[k] < 128
         /\ i[1] = 1 => Len(i) > P!SizeEnd(i, 2)
  BY ONLY <1>5, PySize
<1> QED BY <1>3, <1>6, Zenon

LEMMA PyEarlyEnd ==
    ASSUME CompressorInv, PyInv, UNCHANGED C!compressor, P!EarlyEnd
    PROVE  PyInv' /\ PyMoves
<1>1. /\ pc = "loop" /\ (P!Eof \/ (P!NeedsInput /\ taken = Len(stream)))
      /\ pc' = "error" /\ wanted' = 0
      /\ taken' = taken /\ indata' = indata /\ outdata' = outdata /\ buf' = buf
      /\ number_of_scattered_bytes_left' = number_of_scattered_bytes_left
      /\ number_of_indata_bytes_left' = number_of_indata_bytes_left /\ out' = out
      /\ stream' = stream /\ input' = input /\ flushing' = flushing
  BY DEF P!EarlyEnd, C!compressor
<1>2. wanted > 0 /\ P!Incomplete
  BY <1>1 DEF PyInv
<1>3. PICK at : PyHolds(stream, input, at, taken, indata, out, buf, outdata,
                        number_of_scattered_bytes_left)
  BY <1>1, PyWorks
<1>4. /\ flushing = "done" /\ number_of_indata_bytes_left = Len(stream) - taken
      /\ input \in Seq(U8) /\ out \in Seq(U8) /\ buf \in Seq(U8) /\ outdata \in Seq(U8)
      /\ indata \in Seq(U8) /\ Len(stream) \in Nat /\ taken \in Nat
  BY <1>1, PyWorks
<1>5. P!Eof
  <2> SUFFICES ASSUME P!NeedsInput, taken = Len(stream), ~ P!Eof PROVE FALSE
    BY <1>1
  <2>1. number_of_indata_bytes_left = 0 /\ outdata = <<>> /\ indata # <<>>
    BY <1>4 DEF P!NeedsInput, P!Eof
  <2>2. /\ number_of_scattered_bytes_left = 0 /\ indata[1] \in {0, 1}
        /\ ~ P!HasSize \/ (indata[1] = 1 /\ Len(indata) = P!Body)
    BY <1>2, <2>1 DEF P!Incomplete, P!Scattered, P!Repeated
  <2>3. /\ \E k \in 2 .. Len(indata) : indata[k] < 128
        /\ indata[1] = 1 => Len(indata) > P!SizeEnd(indata, 2)
    BY <1>3, <2>1, <2>2, PyNotStuck
  <2>4. P!HasSize
    BY <2>3 DEF P!HasSize
  <2>5. Len(indata) > P!Body /\ Len(indata) = P!Body
    BY <2>2, <2>3, <2>4 DEF P!Body
  <2>6. Len(indata) \in Nat
    BY <1>4
  <2> QED BY <2>5, <2>6
<1>6. out \o buf = input
  <2>1. /\ outdata = <<>> /\ indata = <<>> /\ number_of_indata_bytes_left = 0
    BY <1>5 DEF P!Eof
  <2>2. taken = Len(stream) /\ Len(outdata) = 0
    BY <1>4, <2>1
  <2>3. Len(out) + Len(buf) + Len(outdata) = Len(input)
    BY <1>3, <2>1, <2>2, PyEnds
  <2>4. /\ PyHolds(stream, input, at, taken, indata, out \o buf, <<>>, outdata,
                   number_of_scattered_bytes_left)
        /\ Len(out \o buf) = Len(out) + Len(buf)
    BY <1>3, PyReturns
  <2> DEFINE o2 == out \o buf
  <2>5. o2 \in Seq(U8) /\ Lies(o2, input, 0)
    BY <2>4 DEF PyHolds
  <2>6. Len(o2) = Len(input)
    <3>1. Len(out) \in Nat /\ Len(buf) \in Nat
      BY <1>4
    <3> QED BY <2>2, <2>3, <2>4, <3>1
  <2> HIDE DEF o2
  <2>7. Begins(o2, input)
    BY <1>4, <2>5, LiesFirst
  <2>8. o2 = input
    BY <1>4, <2>5, <2>6, <2>7, BeginsWhole
  <2> QED BY <2>8 DEF o2
<1>7. PyInv'
  <2>1. StreamKept
    BY <1>1, <1>4 DEF StreamKept
  <2>2. PyHolds(stream, input, at, taken', indata', out', buf', outdata',
                number_of_scattered_bytes_left')
    BY <1>1, <1>3, Zenon
  <2>3. number_of_indata_bytes_left' = Len(stream) - taken'
    BY <1>1, <1>4, Zenon
  <2>4. /\ pc' \in {"idle", "loop", "segments", "error"} /\ wanted' \in Nat /\ wanted' = 0
        /\ pc' \notin {"loop", "segments"} /\ pc' # "idle" /\ pc' \notin {"idle", "loop"}
    BY <1>1
  <2>5. out' \o buf' = input /\ P!Eof'
    BY <1>1, <1>5, <1>6 DEF P!Eof
  <2> QED BY <2>1, <2>2, <2>3, <2>4, <2>5, PyKeeps, Zenon
<1>8. PyMoves
  <2>1. PyReturned(pc', wanted', out') = "error" /\ 0 \in 0 .. 0
    BY <1>1 DEF PyReturned
  <2> QED BY <1>1, <1>2, <2>1, Zenon DEF PyMoves, Moves
<1> QED BY <1>7, <1>8

\* A step inside a call.
LEMMA PyStays ==
    ASSUME CompressorInv, PyInv, UNCHANGED C!compressor, pc \in {"loop", "segments"},
           pc' \in {"loop", "segments"}, wanted' = wanted, out' = out, NEW at,
           PyHolds(stream, input, at, taken', indata', out', buf', outdata',
                   number_of_scattered_bytes_left'),
           number_of_indata_bytes_left' = Len(stream) - taken', Len(buf') <= wanted,
           pc' = "loop" => P!Incomplete'
    PROVE  PyInv' /\ PyMoves
<1>1. stream' = stream /\ input' = input /\ flushing' = flushing
  BY DEF C!compressor
<1>2. pc # "new"
  OBVIOUS
<1>3. flushing = "done" /\ wanted \in Nat /\ wanted > 0
  BY <1>2, PyWorks DEF PyInv
<1>4. StreamKept
  BY <1>1, <1>3 DEF StreamKept
<1>5. /\ pc' \in {"idle", "loop", "segments", "error"} /\ wanted' \in Nat /\ wanted' > 0
      /\ pc' \notin {"idle", "error"} /\ pc' # "idle" /\ pc' # "error" /\ Len(buf') <= wanted'
      /\ pc' \in {"idle", "loop"} => pc' = "loop"
  BY <1>3
<1>6. PyInv'
  BY <1>4, <1>5, PyKeeps, Zenon
<1>7. PyReturned(pc, wanted, out) = PyReturned(pc', wanted', out')
  BY <1>3 DEF PyReturned
<1>8. PyMoves
  BY <1>7, Zenon DEF PyMoves, Moves
<1> QED BY <1>6, <1>8

LEMMA PyTakeInput ==
    ASSUME CompressorInv, PyInv, UNCHANGED C!compressor, P!TakeInput
    PROVE  PyInv' /\ PyMoves
<1> DEFINE size == IF P!NeedsInput THEN P!MinOf(MaxRead, Len(stream) - taken) ELSE 0
           left == Len(stream) - taken
<1>1. /\ pc = "loop" /\ pc' = "segments" /\ wanted' = wanted /\ out' = out
      /\ indata' = indata \o SubSeq(stream, taken + 1, taken + size)
      /\ number_of_indata_bytes_left' = number_of_indata_bytes_left - size
      /\ taken' = taken + size
      /\ outdata' = outdata /\ buf' = buf
      /\ number_of_scattered_bytes_left' = number_of_scattered_bytes_left
  BY DEF P!TakeInput
<1>2. PICK at : PyHolds(stream, input, at, taken, indata, out, buf, outdata,
                        number_of_scattered_bytes_left)
  BY <1>1, PyWorks
<1>3. /\ number_of_indata_bytes_left = left /\ Len(stream) \in Nat /\ taken \in Nat /\ taken <= Len(stream)
      /\ Len(buf) <= wanted
  BY <1>1, PyWorks DEF PyInv
<1>4. size \in Nat /\ size <= left
  <2>1. MaxRead \in Nat
    BY DecompressorAssumption DEF P!DecompressorAssumption
  <2>2. left \in Nat
    BY <1>3
  <2> HIDE DEF left
  <2>3. size = IF P!NeedsInput THEN (IF MaxRead <= left THEN MaxRead ELSE left) ELSE 0
    BY DEF left, P!MinOf
  <2> HIDE DEF size
  <2> QED BY <2>1, <2>2, <2>3
<1> HIDE DEF size
<1>5. taken + size <= Len(stream) /\ number_of_indata_bytes_left - size = Len(stream) - (taken + size)
  BY <1>3, <1>4
<1>6. PyHolds(stream, input, at, taken + size, indata \o SubSeq(stream, taken + 1, taken + size),
              out, buf, outdata, number_of_scattered_bytes_left)
  BY <1>2, <1>4, <1>5, PyTakes
<1>7. PyHolds(stream, input, at, taken', indata', out', buf', outdata',
              number_of_scattered_bytes_left')
  BY <1>1, <1>6, Zenon
<1>8. /\ number_of_indata_bytes_left' = Len(stream) - taken' /\ Len(buf') <= wanted
      /\ pc \in {"loop", "segments"} /\ pc' \in {"loop", "segments"} /\ pc' # "loop"
  BY <1>1, <1>3, <1>5
<1> QED BY <1>1, <1>7, <1>8, PyStays, Zenon

\* What the actions that decompress a segment have in common.
LEMMA PySegments ==
    ASSUME CompressorInv, PyInv, UNCHANGED C!compressor, pc = "segments", NEW at,
           PyHolds(stream, input, at, taken, indata', out, buf, outdata',
                   number_of_scattered_bytes_left'),
           UNCHANGED <<taken, number_of_indata_bytes_left, wanted, buf, out, pc>>
    PROVE  PyInv' /\ PyMoves
<1>1. /\ taken' = taken /\ number_of_indata_bytes_left' = number_of_indata_bytes_left
      /\ wanted' = wanted /\ buf' = buf /\ out' = out /\ pc' = "segments"
  OBVIOUS
<1>2. number_of_indata_bytes_left = Len(stream) - taken /\ Len(buf) <= wanted
  BY PyWorks DEF PyInv
<1>3. PyHolds(stream, input, at, taken', indata', out', buf', outdata',
              number_of_scattered_bytes_left')
  BY <1>1, Zenon
<1>4. /\ number_of_indata_bytes_left' = Len(stream) - taken' /\ Len(buf') <= wanted
      /\ pc \in {"loop", "segments"} /\ pc' \in {"loop", "segments"} /\ pc' # "loop"
  BY <1>1, <1>2
<1> QED BY <1>1, <1>3, <1>4, PyStays, Zenon

LEMMA PyDecompresses ==
    ASSUME CompressorInv, PyInv, UNCHANGED C!compressor,
           P!MoreScattered \/ P!ScatteredSegment \/ P!RepeatedSegment
    PROVE  PyInv' /\ PyMoves
<1>1. /\ pc = "segments" /\ indata # <<>>
      /\ UNCHANGED <<taken, number_of_indata_bytes_left, wanted, buf, out, pc>>
  BY DEF P!MoreScattered, P!ScatteredSegment, P!RepeatedSegment
<1>2. PICK at : PyHolds(stream, input, at, taken, indata, out, buf, outdata,
                        number_of_scattered_bytes_left)
  BY <1>1, PyWorks
<1>3. indata \in Seq(U8) /\ Len(indata) \in Nat /\ number_of_scattered_bytes_left \in Nat
  BY <1>1, PyWorks, LengthIsNat
<1>4. CASE P!MoreScattered
  <2> DEFINE length == P!MinOf(Len(indata), number_of_scattered_bytes_left)
  <2>1. /\ number_of_scattered_bytes_left > 0
        /\ outdata' = outdata \o SubSeq(indata, 1, length)
        /\ indata' = P!Drop(indata, length)
        /\ number_of_scattered_bytes_left' = number_of_scattered_bytes_left - length
    BY <1>4 DEF P!MoreScattered
  <2>2. length \in Nat /\ length <= Len(indata) /\ length <= number_of_scattered_bytes_left
    BY <1>3 DEF P!MinOf
  <2> HIDE DEF length
  <2>3. PyHolds(stream, input, at, taken, P!Drop(indata, length), out, buf,
                outdata \o SubSeq(indata, 1, length), number_of_scattered_bytes_left - length)
    BY <1>2, <2>1, <2>2, PyMoreScattered
  <2>4. PyHolds(stream, input, at, taken, indata', out, buf, outdata',
                number_of_scattered_bytes_left')
    BY <2>1, <2>3, Zenon
  <2> QED BY <1>1, <2>4, PySegments
<1>5. CASE P!ScatteredSegment
  <2> DEFINE rem == P!Body + P!Size - Len(indata)
             len == IF rem > 0 THEN P!Size - rem ELSE P!Size
  <2>1. /\ number_of_scattered_bytes_left = 0 /\ indata[1] = 0
        /\ \E k \in 2 .. Len(indata) : indata[k] < 128
        /\ number_of_scattered_bytes_left' = IF rem > 0 THEN rem ELSE number_of_scattered_bytes_left
        /\ outdata' = outdata \o SubSeq(indata, P!Body + 1, P!Body + len)
        /\ indata' = P!Drop(indata, P!Body + len)
    BY <1>5 DEF P!ScatteredSegment, P!HasSize, P!Scattered, P!Rest
  <2>2. /\ rem = P!SizeEnd(indata, 2) + P!UsizeAt(indata, 2) - Len(indata)
        /\ len = IF rem > 0 THEN P!UsizeAt(indata, 2) - rem ELSE P!UsizeAt(indata, 2)
    BY DEF P!Body, P!Size
  <2> HIDE DEF rem, len
  <2>3. PyHolds(stream, input, at, taken, P!Drop(indata, P!SizeEnd(indata, 2) + len), out, buf,
                outdata \o SubSeq(indata, P!SizeEnd(indata, 2) + 1, P!SizeEnd(indata, 2) + len),
                IF rem > 0 THEN rem ELSE number_of_scattered_bytes_left)
    BY <1>1, <1>2, <2>1, <2>2, PyScattered
  <2>4. PyHolds(stream, input, at, taken, indata', out, buf, outdata',
                number_of_scattered_bytes_left')
    BY <2>1, <2>3, Zenon DEF P!Body
  <2> QED BY <1>1, <2>4, PySegments
<1>6. CASE P!RepeatedSegment
  <2>1. /\ number_of_scattered_bytes_left = 0 /\ indata[1] = 1
        /\ \E k \in 2 .. Len(indata) : indata[k] < 128
        /\ Len(indata) > P!SizeEnd(indata, 2)
        /\ outdata' = outdata \o [k \in 1 .. P!UsizeAt(indata, 2) |-> indata[P!SizeEnd(indata, 2) + 1]]
        /\ indata' = P!Drop(indata, P!SizeEnd(indata, 2) + 1)
        /\ number_of_scattered_bytes_left' = number_of_scattered_bytes_left
    BY <1>6 DEF P!RepeatedSegment, P!HasSize, P!Repeated, P!Body, P!Size
  <2>2. PyHolds(stream, input, at, taken, P!Drop(indata, P!SizeEnd(indata, 2) + 1), out, buf,
                outdata \o [k \in 1 .. P!UsizeAt(indata, 2) |-> indata[P!SizeEnd(indata, 2) + 1]],
                number_of_scattered_bytes_left)
    BY <1>1, <1>2, <2>1, PyRepeated
  <2>3. PyHolds(stream, input, at, taken, indata', out, buf, outdata',
                number_of_scattered_bytes_left')
    BY <2>1, <2>2, Zenon
  <2> QED BY <1>1, <2>3, PySegments
<1> QED BY <1>4, <1>5, <1>6

LEMMA PyBadKind ==
    ASSUME CompressorInv, PyInv, P!BadKind
    PROVE  FALSE
<1>1. /\ pc = "segments" /\ indata # <<>> /\ number_of_scattered_bytes_left = 0
      /\ indata[1] \notin {0, 1}
  BY DEF P!BadKind, P!Scattered, P!Repeated
<1>2. PICK at : PyHolds(stream, input, at, taken, indata, out, buf, outdata,
                        number_of_scattered_bytes_left)
  BY <1>1, PyWorks
<1>3. PyFacts(stream, input, at, taken, indata, out, buf, outdata, number_of_scattered_bytes_left)
  BY <1>2, PyKnows
<1> DEFINE p == taken - Len(indata)
<1>4. /\ stream \in Seq(U8) /\ indata \in Seq(U8) /\ Len(indata) \in Nat /\ p \in Nat
      /\ Len(stream) \in Nat /\ taken \in Nat /\ taken <= Len(stream) /\ Lies(indata, stream, p)
  BY <1>3 DEF PyFacts
<1>5. taken - Len(indata) < Len(stream)
  <2>1. Len(indata) # 0
    BY <1>1, <1>4
  <2> QED BY <1>4, <2>1
<1>6. PICK e : SegmentOf(stream, input, at, p, e)
  BY <1>1, <1>2, <1>5, PySegment
<1> HIDE DEF p
<1>7. indata # <<>> => indata[1] = stream[p + 1] /\ indata[1] \in {0, 1}
  BY <1>4, <1>6, PySize
<1> QED BY <1>1, <1>7

LEMMA PyDeliver ==
    ASSUME CompressorInv, PyInv, UNCHANGED C!compressor, P!Deliver
    PROVE  PyInv' /\ PyMoves
<1> DEFINE size == P!MinOf(P!Missing, Len(outdata))
<1>1. /\ pc = "segments" /\ P!Incomplete /\ pc' = "loop" /\ wanted' = wanted /\ out' = out
      /\ buf' = buf \o SubSeq(outdata, 1, size) /\ outdata' = P!Drop(outdata, size)
      /\ taken' = taken /\ indata' = indata
      /\ number_of_indata_bytes_left' = number_of_indata_bytes_left
      /\ number_of_scattered_bytes_left' = number_of_scattered_bytes_left
  BY DEF P!Deliver
<1>2. PICK at : PyHolds(stream, input, at, taken, indata, out, buf, outdata,
                        number_of_scattered_bytes_left)
  BY <1>1, PyWorks
<1>3. /\ number_of_indata_bytes_left = Len(stream) - taken /\ wanted \in Nat /\ buf \in Seq(U8)
      /\ outdata \in Seq(U8) /\ Len(buf) \in Nat /\ Len(outdata) \in Nat /\ Len(buf) <= wanted
  BY <1>1, PyWorks, LengthIsNat DEF PyInv
<1>4. size \in Nat /\ size <= Len(outdata) /\ Len(buf) + size <= wanted
  <2> DEFINE m == wanted - Len(buf)
  <2>1. m \in Nat
    BY <1>3
  <2>2. size = IF m <= Len(outdata) THEN m ELSE Len(outdata)
    BY DEF P!MinOf, P!Missing
  <2> HIDE DEF size
  <2> QED BY <1>3, <2>1, <2>2
<1> HIDE DEF size
<1>5. /\ PyHolds(stream, input, at, taken, indata, out, buf \o SubSeq(outdata, 1, size),
                 P!Drop(outdata, size), number_of_scattered_bytes_left)
      /\ Len(buf \o SubSeq(outdata, 1, size)) = Len(buf) + size
  BY <1>2, <1>4, PyDelivers
<1>6. PyHolds(stream, input, at, taken', indata', out', buf', outdata',
              number_of_scattered_bytes_left')
  BY <1>1, <1>5, Zenon
<1>7. /\ number_of_indata_bytes_left' = Len(stream) - taken'
      /\ pc \in {"loop", "segments"} /\ pc' \in {"loop", "segments"}
  BY <1>1, <1>3, Zenon
<1>8. Len(buf') <= wanted
  BY <1>1, <1>4, <1>5
<1>9. P!Incomplete'
  <2>1. P!Incomplete' <=> P!Incomplete
    BY <1>1 DEF P!Incomplete, P!HasSize, P!Body, P!SizeEnd, P!Least, P!Scattered, P!Repeated
  <2> QED BY <1>1, <2>1
<1> QED BY <1>1, <1>6, <1>7, <1>8, <1>9, PyStays, Zenon

LEMMA PyReturn ==
    ASSUME CompressorInv, PyInv, UNCHANGED C!compressor, P!Return
    PROVE  PyInv' /\ PyMoves
<1>1. /\ pc = "loop" /\ P!Missing = 0 /\ pc' = "idle" /\ wanted' = 0 /\ out' = out \o buf
      /\ buf' = <<>> /\ taken' = taken /\ indata' = indata /\ outdata' = outdata
      /\ number_of_indata_bytes_left' = number_of_indata_bytes_left
      /\ number_of_scattered_bytes_left' = number_of_scattered_bytes_left
      /\ stream' = stream /\ input' = input /\ flushing' = flushing
  BY DEF P!Return, C!compressor
<1>2. PICK at : PyHolds(stream, input, at, taken, indata, out, buf, outdata,
                        number_of_scattered_bytes_left)
  BY <1>1, PyWorks
<1>3. /\ number_of_indata_bytes_left = Len(stream) - taken /\ wanted \in Nat /\ buf \in Seq(U8)
      /\ out \in Seq(U8) /\ Len(buf) \in Nat /\ Len(out) \in Nat /\ flushing = "done"
      /\ input \in Seq(U8)
  BY <1>1, PyWorks, LengthIsNat
<1>4. wanted > 0 /\ P!Incomplete
  BY <1>1 DEF PyInv
<1>5. Len(buf) = wanted
  BY <1>1, <1>3 DEF P!Missing
<1>6. /\ PyHolds(stream, input, at, taken, indata, out \o buf, <<>>, outdata,
                 number_of_scattered_bytes_left)
      /\ Len(out \o buf) = Len(out) + Len(buf)
  BY <1>2, PyReturns
<1>7. PyHolds(stream, input, at, taken', indata', out', buf', outdata',
              number_of_scattered_bytes_left')
  BY <1>1, <1>6, Zenon
<1>8. PyInv'
  <2>1. StreamKept
    BY <1>1, <1>3 DEF StreamKept
  <2>3. number_of_indata_bytes_left' = Len(stream) - taken'
    BY <1>1, <1>3, Zenon
  <2>4. /\ pc' \in {"idle", "loop", "segments", "error"} /\ wanted' \in Nat /\ wanted' = 0
        /\ pc' \notin {"loop", "segments"} /\ buf' = <<>> /\ pc' # "error"
    BY <1>1
  <2>5. P!Incomplete'
    <3>1. P!Incomplete' <=> P!Incomplete
      BY <1>1 DEF P!Incomplete, P!HasSize, P!Body, P!SizeEnd, P!Least, P!Scattered, P!Repeated
    <3> QED BY <1>4, <3>1
  <2> QED BY <1>7, <2>1, <2>3, <2>4, <2>5, PyKeeps, Zenon
<1> DEFINE o2 == out'
<1>9. o2 \in Seq(U8) /\ Len(o2) = Len(out) + wanted /\ Lies(o2, input, 0)
  <2>1. PyHolds(stream, input, at, taken', indata', o2, buf', outdata',
                number_of_scattered_bytes_left')
    BY <1>7
  <2>2. o2 \in Seq(U8) /\ Lies(o2, input, 0)
    <3> HIDE DEF o2
    <3> QED BY <2>1 DEF PyHolds
  <2> QED BY <1>1, <1>5, <1>6, <2>2
<1>10. PyReturned(pc, wanted, out) = "again" /\ PyReturned(pc', wanted', out') = "ok"
  <2>1. o2 # <<>>
    <3>1. Len(o2) # 0
      BY <1>3, <1>4, <1>9
    <3> HIDE DEF o2
    <3> QED BY <3>1
  <2> QED BY <1>1, <1>4, <2>1 DEF PyReturned
<1> HIDE DEF o2
<1>11. Moves(input, 0, wanted, out, "again", 0, 0, o2, "ok")
  <2> DEFINE l == 0
  <2>1. l \in Nat /\ l <= l /\ wanted \in 1 .. wanted
    BY <1>3, <1>4
  <2> HIDE DEF l
  <2>2. Begins(o2, input)
    BY <1>3, <1>9, LiesFirst
  <2>3. Moves(input, l, wanted, out, "again", l, 0, o2, "ok")
    BY <1>3, <1>4, <1>9, <2>1, <2>2, MovesDelivering
  <2> QED BY <2>3 DEF l
<1>12. PyMoves
  BY <1>1, <1>10, <1>11, Zenon DEF PyMoves, o2
<1> QED BY <1>8, <1>12

\* Every step of the reader and of the compressor.
LEMMA PySteps ==
    ASSUME CompressorInv, PyInv, P!Next
    PROVE  CompressorInv' /\ PyInv' /\ PyMoves /\ input' = input
<1>1. CASE P!Compressor /\ UNCHANGED P!decompressor
  <2>1. C!Compressor
    BY <1>1, OneCompressor
  <2>2. CompressorInv'
    BY <2>1, CompressorKeeps
  <2>3. flushing # "done" /\ input' = input
    BY <2>1 DEF C!Compressor, C!Compress, C!Flush, C!FlushSegment, C!FlushEnd
  <2>4. /\ pc' = pc /\ wanted' = wanted /\ out' = out /\ taken' = taken /\ indata' = indata
        /\ outdata' = outdata /\ buf' = buf
        /\ number_of_indata_bytes_left' = number_of_indata_bytes_left
        /\ number_of_scattered_bytes_left' = number_of_scattered_bytes_left
    BY <1>1 DEF P!decompressor
  <2>5. /\ pc = "new" /\ taken = 0 /\ number_of_indata_bytes_left = 0 /\ indata = <<>>
        /\ outdata = <<>> /\ number_of_scattered_bytes_left = 0 /\ wanted = 0 /\ buf = <<>>
        /\ out = <<>>
    BY <2>3 DEF PyInv
  <2>6. PyInv'
    <3>1. /\ pc' = "new" /\ taken' = 0 /\ number_of_indata_bytes_left' = 0 /\ indata' = <<>>
          /\ outdata' = <<>> /\ number_of_scattered_bytes_left' = 0 /\ wanted' = 0 /\ buf' = <<>>
          /\ out' = <<>>
      BY <2>4, <2>5
    <3>2. wanted' \in Nat /\ pc' \notin {"idle", "error"} /\ pc' \notin {"loop", "segments"}
          /\ pc' \notin {"idle", "loop"} /\ pc' # "idle" /\ pc' # "error"
          /\ pc' \in {"new", "idle", "loop", "segments", "error"}
      BY <3>1
    <3> QED BY <3>1, <3>2, Zenon DEF PyInv
  <2>7. PyMoves
    <3>1. PyReturned(pc, wanted, out) = PyReturned(pc', wanted', out')
      BY <2>4, Zenon
    <3> QED BY <2>4, <3>1, Zenon DEF PyMoves, Moves
  <2> QED BY <2>2, <2>3, <2>6, <2>7
<1>2. CASE UNCHANGED P!compressor /\ P!Decompress
  <2>1. UNCHANGED C!compressor
    BY <1>2 DEF P!compressor, C!compressor
  <2>2. CompressorInv' /\ input' = input
    <3>1. UNCHANGED compressor /\ UNCHANGED stream /\ input' = input
      BY <2>1 DEF C!compressor, compressor
    <3> QED BY <3>1, CompressorKeeps
  <2>3. PyInv' /\ PyMoves
    BY <1>2, <2>1, PyNew, PyCall, PyEarlyEnd, PyTakeInput, PyDecompresses, PyBadKind, PyDeliver,
       PyReturn DEF P!Decompress
  <2> QED BY <2>2, <2>3
<1> QED BY <1>1, <1>2 DEF P!Next

LEMMA PyStarts ==
    ASSUME P!Init
    PROVE  CompressorInv /\ PyInv
<1>1. CompressorInv /\ flushing = "no"
  <2>1. C!InitCompressor
    BY OneCompressor DEF P!Init
  <2> QED BY <2>1, CompressorStarts DEF C!InitCompressor
<1>2. /\ pc = "new" /\ taken = 0 /\ number_of_indata_bytes_left = 0 /\ indata = <<>>
      /\ outdata = <<>> /\ number_of_scattered_bytes_left = 0 /\ wanted = 0 /\ buf = <<>>
      /\ out = <<>>
  BY DEF P!Init
<1>3. wanted \in Nat /\ pc \notin {"idle", "error"} /\ pc \notin {"loop", "segments"}
      /\ pc \notin {"idle", "loop"} /\ pc # "idle" /\ pc # "error"
      /\ pc \in {"new", "idle", "loop", "segments", "error"}
  BY <1>2
<1>4. PyInv
  BY <1>2, <1>3, Zenon DEF PyInv
<1> QED BY <1>1, <1>4

\* The end of the patch is found when all has been returned, and not before.
LEMMA PyEof ==
    ASSUME CompressorInv, PyInv
    PROVE  EofIsEnd
<1> SUFFICES ASSUME pc = "idle", input # <<>>
             PROVE  P!Eof <=> out = input
  BY DEF EofIsEnd
<1>1. buf = <<>>
  BY DEF PyInv
<1>2. PICK at : PyHolds(stream, input, at, taken, indata, out, buf, outdata,
                        number_of_scattered_bytes_left)
  BY PyWorks
<1>3. PyFacts(stream, input, at, taken, indata, out, buf, outdata, number_of_scattered_bytes_left)
  BY <1>2, PyKnows
<1>4. /\ number_of_indata_bytes_left = Len(stream) - taken /\ Len(stream) \in Nat /\ taken \in Nat
      /\ out \in Seq(U8) /\ input \in Seq(U8) /\ outdata \in Seq(U8)
  BY PyWorks
<1>5. /\ Lies(out, input, 0) /\ Len(out) \in Nat /\ Len(outdata) \in Nat /\ Len(input) \in Nat
      /\ Len(out) + Len(buf) + Len(outdata) <= Len(input)
  BY <1>3 DEF PyFacts
<1>6. Len(buf) = 0
  BY <1>1
<1>7. ASSUME P!Eof PROVE out = input
  <2>1. number_of_indata_bytes_left = 0 /\ outdata = <<>> /\ indata = <<>>
    BY <1>7 DEF P!Eof
  <2>2. taken = Len(stream) /\ Len(outdata) = 0
    BY <1>4, <2>1
  <2>3. Len(out) + Len(buf) + Len(outdata) = Len(input)
    BY <1>2, <2>1, <2>2, PyEnds
  <2>4. Len(out) = Len(input)
    BY <1>5, <1>6, <2>2, <2>3
  <2>5. Begins(out, input)
    BY <1>4, <1>5, LiesFirst
  <2> QED BY <1>4, <2>4, <2>5, BeginsWhole
<1>8. ASSUME out = input PROVE P!Eof
  <2>1. Len(outdata) = 0 /\ Len(out) + Len(buf) + Len(outdata) = Len(input)
    BY <1>5, <1>6, <1>8
  <2>2. indata = <<>> /\ taken = Len(stream)
    BY <1>2, <2>1, PyGoesOn
  <2>3. outdata = <<>> /\ number_of_indata_bytes_left = 0
    BY <1>4, <2>1, <2>2
  <2> QED BY <2>2, <2>3 DEF P!Eof
<1> QED BY <1>7, <1>8

LEMMA CrleStarts ==
    ASSUME C!Init
    PROVE  CompressorInv /\ CrleInv
<1>1. C!InitCompressor /\ CrleNew
  BY DEF C!Init, CrleNew
<1>2. CompressorInv
  BY <1>1, CompressorStarts
<1> QED BY <1>1, <1>2, CrleStartsReading

-----------------------------------------------------------------------------
(***************************************************************************)
(* The format of LZMA.                                                     *)
(***************************************************************************)
LEMMA LzInput ==
    ASSUME stream \in LzmaStreams
    PROVE  LET n == Len(stream.tokens)
           IN  /\ n \in Nat \ {0} /\ stream.trailing \in Nat
               /\ L!InputOf \in [0 .. n -> Nat] /\ L!InputOf[0] = 0
               /\ \A k \in 1 .. n : L!InputOf[k - 1] + 1 <= L!InputOf[k]
<1> DEFINE n == Len(stream.tokens)
           cost == [k \in 1 .. n |-> stream.tokens[k].cost]
           step == [x \in (1 .. n) \X Nat |-> x[2] + cost[x[1]]]
           Adds(g) == g = [k \in 0 .. n |-> IF k = 0 THEN 0 ELSE g[k - 1] + stream.tokens[k].cost]
<1>1. /\ stream.tokens \in Seq([cost : Nat \ {0}, data : Seq(0 .. 255), bad : BOOLEAN])
      /\ stream.tokens # <<>> /\ stream.trailing \in Nat
  BY StreamsAssumption DEF L!StreamsAssumption
<1>2. n \in Nat \ {0}
  BY <1>1
<1>3. \A k \in 1 .. n : stream.tokens[k].cost \in Nat \ {0}
  <2>1. \A k \in 1 .. n : stream.tokens[k] \in [cost : Nat \ {0}, data : Seq(0 .. 255), bad : BOOLEAN]
    BY <1>1, ElementsIn
  <2> QED BY <2>1
<1>4. step \in [(1 .. n) \X Nat -> Nat]
  BY <1>3
<1>5. \A k \in 1 .. n : \A v \in Nat : step[<<k, v>>] = v + stream.tokens[k].cost
  OBVIOUS
<1>6. n \in Nat /\ 0 \in Nat
  BY <1>2
<1> HIDE DEF step, n
<1>7. PICK f \in [0 .. n -> Nat] : Recursion(f, 0, step, n)
  <2> DEFINE z == 0
  <2>1. z \in Nat
    OBVIOUS
  <2> HIDE DEF z
  <2>2. \E f \in [0 .. n -> Nat] : Recursion(f, z, step, n)
    BY ONLY <1>4, <1>6, <2>1, RecursionUpTo
  <2> QED BY <2>2 DEF z
<1>8. Adds(f)
  <2>1. f = [k \in 0 .. n |-> IF k = 0 THEN 0 ELSE step[<<k, f[k - 1]>>]]
    BY <1>7 DEF Recursion
  <2>2. ASSUME NEW k \in 0 .. n, k # 0
        PROVE  step[<<k, f[k - 1]>>] = f[k - 1] + stream.tokens[k].cost
    <3>1. k \in 1 .. n /\ k - 1 \in 0 .. n
      BY <1>6, <2>2
    <3>2. f[k - 1] \in Nat
      BY <1>7, <3>1
    <3> QED BY <1>5, <3>1, <3>2
  <2>3. \A k \in 0 .. n : f[k] = IF k = 0 THEN 0 ELSE f[k - 1] + stream.tokens[k].cost
    BY <2>1, <2>2
  <2>4. f = [k \in 0 .. n |-> f[k]]
    BY <1>7
  <2> QED BY <2>3, <2>4, Zenon
<1>9. L!InputOf = CHOOSE g : Adds(g)
  BY DEF L!InputOf, n
<1> HIDE DEF Adds
<1>10. Adds(L!InputOf)
  BY <1>8, <1>9
<1> DEFINE g == L!InputOf
<1>11. DOMAIN g = 0 .. n /\ g[0] = 0 /\ g = [k \in 0 .. n |-> g[k]]
       /\ \A k \in 1 .. n : g[k] = g[k - 1] + stream.tokens[k].cost
  <2>1. g = [k \in 0 .. n |-> IF k = 0 THEN 0 ELSE g[k - 1] + stream.tokens[k].cost]
    BY <1>10 DEF Adds
  <2> HIDE DEF g
  <2>2. DOMAIN g = 0 .. n /\ \A k \in 0 .. n : g[k] = IF k = 0 THEN 0 ELSE g[k - 1] + stream.tokens[k].cost
    BY <2>1, Zenon
  <2>3. 0 \in 0 .. n /\ \A k \in 1 .. n : k \in 0 .. n /\ k # 0
    BY <1>6
  <2>4. g = [k \in 0 .. n |-> g[k]]
    <3> DEFINE h == [k \in 0 .. n |-> IF k = 0 THEN 0 ELSE g[k - 1] + stream.tokens[k].cost]
    <3>1. h = [k \in 0 .. n |-> h[k]]
      OBVIOUS
    <3>2. g = h
      BY <2>1
    <3> HIDE DEF h
    <3> QED BY <3>1, <3>2
  <2> QED BY <2>2, <2>3, <2>4
<1> HIDE DEF g
<1> DEFINE S == {k \in 0 .. n : g[k] \in Nat}
<1>12. 0 \in S
  BY <1>6, <1>11
<1>13. ASSUME NEW k \in 0 .. n - 1, k \in S PROVE k + 1 \in S
  <2>1. k + 1 \in 1 .. n /\ (k + 1) - 1 = k /\ k + 1 \in 0 .. n
    BY <1>6
  <2>2. g[k + 1] = g[k] + stream.tokens[k + 1].cost
    BY <1>11, <2>1
  <2> QED BY <1>3, <1>13, <2>1, <2>2 DEF n
<1> HIDE DEF S
<1>14. \A k \in 0 .. n : k \in S
  BY ONLY <1>6, <1>12, <1>13, InductionUpTo
<1>15. \A k \in 0 .. n : g[k] \in Nat
  BY <1>14 DEF S
<1>16. g \in [0 .. n -> Nat]
  BY <1>11, <1>15
<1>17. ASSUME NEW k \in 1 .. n PROVE g[k - 1] + 1 <= g[k]
  <2>1. k - 1 \in 0 .. n /\ g[k] = g[k - 1] + stream.tokens[k].cost
    <3>1. k - 1 \in 0 .. n
      BY <1>6
    <3> QED BY <1>11, <3>1, Zenon
  <2>2. g[k - 1] \in Nat /\ stream.tokens[k].cost \in Nat \ {0}
    BY <1>3, <1>15, <2>1 DEF n
  <2> QED BY <2>1, <2>2
<1> QED BY <1>1, <1>2, <1>11, <1>16, <1>17, Zenon DEF n, g

LEMMA LzOutput ==
    ASSUME stream \in LzmaStreams
    PROVE  LET n == Len(stream.tokens)
           IN  /\ L!OutputOf \in [0 .. n -> Seq(U8)] /\ L!OutputOf[0] = <<>>
               /\ \A k \in 1 .. n : Begins(L!OutputOf[k - 1], L!OutputOf[k])
               /\ L!OutputOf[n] = L!OutputOf[n - 1]
<1> DEFINE n == Len(stream.tokens)
           T == Seq(U8)
           none == <<>>
           step == [x \in (1 .. n) \X T |-> x[2] \o stream.tokens[x[1]].data]
           Adds(g) == g = [k \in 0 .. n |-> IF k = 0 THEN <<>> ELSE g[k - 1] \o stream.tokens[k].data]
<1>1. /\ stream.tokens \in Seq([cost : Nat \ {0}, data : Seq(0 .. 255), bad : BOOLEAN])
      /\ stream.tokens # <<>> /\ stream.tokens[n].data = <<>>
  BY StreamsAssumption DEF L!StreamsAssumption
<1>2. n \in Nat \ {0}
  BY <1>1
<1>3. \A k \in 1 .. n : stream.tokens[k].data \in T
  <2>1. \A k \in 1 .. n : stream.tokens[k] \in [cost : Nat \ {0}, data : Seq(0 .. 255), bad : BOOLEAN]
    BY <1>1, ElementsIn
  <2>2. \A k \in 1 .. n : stream.tokens[k].data \in Seq(0 .. 255)
    BY <2>1
  <2> QED BY <2>2 DEF U8
<1>20. \A v \in T, w \in T : v \o w \in T
  OBVIOUS
<1>5. \A k \in 1 .. n : \A v \in T : step[<<k, v>>] = v \o stream.tokens[k].data
  OBVIOUS
<1>21. none \in T
  OBVIOUS
<1> HIDE DEF T
<1>4. step \in [(1 .. n) \X T -> T]
  BY <1>3, <1>20
<1>6. n \in Nat /\ n \in 1 .. n /\ 0 \in 0 .. n
  BY <1>2
<1> HIDE DEF step, n, none
<1>7. PICK f \in [0 .. n -> T] : Recursion(f, none, step, n)
  BY ONLY <1>4, <1>6, <1>21, RecursionUpTo
<1>8. Adds(f)
  <2>1. f = [k \in 0 .. n |-> IF k = 0 THEN none ELSE step[<<k, f[k - 1]>>]]
    BY <1>7 DEF Recursion
  <2>2. ASSUME NEW k \in 0 .. n, k # 0
        PROVE  step[<<k, f[k - 1]>>] = f[k - 1] \o stream.tokens[k].data
    <3>1. k \in 1 .. n /\ k - 1 \in 0 .. n
      BY <1>6, <2>2
    <3>2. f[k - 1] \in T
      BY <1>7, <3>1
    <3> QED BY <1>5, <3>1, <3>2
  <2>3. \A k \in 0 .. n : f[k] = IF k = 0 THEN none ELSE f[k - 1] \o stream.tokens[k].data
    BY <2>1, <2>2
  <2>4. f = [k \in 0 .. n |-> f[k]]
    BY <1>7
  <2> QED BY <2>3, <2>4, Zenon DEF none
<1>9. L!OutputOf = CHOOSE g : Adds(g)
  BY DEF L!OutputOf, n
<1> HIDE DEF Adds
<1>10. Adds(L!OutputOf)
  BY <1>8, <1>9
<1> DEFINE g == L!OutputOf
<1>11. /\ g[0] = <<>> /\ g = [k \in 0 .. n |-> g[k]]
       /\ \A k \in 1 .. n : g[k] = g[k - 1] \o stream.tokens[k].data
  <2>1. g = [k \in 0 .. n |-> IF k = 0 THEN <<>> ELSE g[k - 1] \o stream.tokens[k].data]
    BY <1>10 DEF Adds
  <2> HIDE DEF g
  <2>2. \A k \in 0 .. n : g[k] = IF k = 0 THEN <<>> ELSE g[k - 1] \o stream.tokens[k].data
    BY <2>1, Zenon
  <2>3. 0 \in 0 .. n /\ \A k \in 1 .. n : k \in 0 .. n /\ k # 0
    BY <1>6
  <2>4. g = [k \in 0 .. n |-> g[k]]
    <3> DEFINE h == [k \in 0 .. n |-> IF k = 0 THEN <<>> ELSE g[k - 1] \o stream.tokens[k].data]
    <3>1. h = [k \in 0 .. n |-> h[k]]
      OBVIOUS
    <3>2. g = h
      BY <2>1
    <3> HIDE DEF h
    <3> QED BY <3>1, <3>2
  <2> QED BY <2>2, <2>3, <2>4
<1> HIDE DEF g
<1> DEFINE S == {k \in 0 .. n : g[k] \in T}
<1>12. 0 \in S
  BY <1>6, <1>11, <1>21 DEF none
<1>13. ASSUME NEW k \in 0 .. n - 1, k \in S PROVE k + 1 \in S
  <2>1. k + 1 \in 1 .. n /\ (k + 1) - 1 = k /\ k + 1 \in 0 .. n
    BY <1>6
  <2>2. g[k + 1] = g[k] \o stream.tokens[k + 1].data
    BY <1>11, <2>1
  <2> QED BY <1>3, <1>13, <1>20, <2>1, <2>2 DEF n
<1> HIDE DEF S
<1>14. \A k \in 0 .. n : k \in S
  BY ONLY <1>6, <1>12, <1>13, InductionUpTo
<1>15. \A k \in 0 .. n : g[k] \in T
  BY <1>14 DEF S
<1>16. g \in [0 .. n -> T]
  BY <1>11, <1>15
<1>17. ASSUME NEW k \in 1 .. n PROVE Begins(g[k - 1], g[k])
  <2>1. k - 1 \in 0 .. n /\ g[k] = g[k - 1] \o stream.tokens[k].data
    BY <1>6, <1>11
  <2>2. g[k - 1] \in T /\ stream.tokens[k].data \in T
    BY <1>3, <1>15, <2>1 DEF n
  <2> DEFINE s == g[k - 1]
             t == stream.tokens[k].data
  <2>3. s \in Seq(U8) /\ t \in Seq(U8)
    BY <2>2 DEF T
  <2> HIDE DEF s, t
  <2>4. Begins(s, s \o t)
    BY <2>3, BeginsConcat
  <2> QED BY <2>1, <2>4 DEF s, t
<1>18. g[n] = g[n - 1]
  <2>1. g[n] = g[n - 1] \o stream.tokens[n].data
    BY <1>6, <1>11
  <2>2. stream.tokens[n].data = <<>>
    BY <1>1 DEF n
  <2>3. n - 1 \in 0 .. n
    BY <1>2 DEF n
  <2>4. g[n - 1] \in Seq(U8)
    BY <1>15, <2>3 DEF T
  <2> QED BY <2>1, <2>2, <2>4
<1> QED BY <1>11, <1>16, <1>17, <1>18, Zenon DEF n, g, T

LzSize == [k \in 0 .. Len(stream.tokens) |-> Len(L!OutputOf[k])]

LEMMA LzTaped ==
    ASSUME stream \in LzmaStreams
    PROVE  LET n == Len(stream.tokens)
           IN  /\ LzTape(n, L!InputOf, LzSize) /\ stream.trailing \in Nat
               /\ L!Data \in Seq(U8) /\ LzSize[n] = Len(L!Data)
               /\ L!StreamSize = L!InputOf[n] + stream.trailing /\ L!StreamSize \in Nat
<1> DEFINE n == Len(stream.tokens)
           I == L!InputOf
           Q == L!OutputOf
           O == LzSize
<1>1. /\ n \in Nat \ {0} /\ stream.trailing \in Nat /\ I \in [0 .. n -> Nat] /\ I[0] = 0
      /\ \A k \in 1 .. n : I[k - 1] + 1 <= I[k]
  BY LzInput
<1>2. /\ Q \in [0 .. n -> Seq(U8)] /\ Q[0] = <<>>
      /\ \A k \in 1 .. n : Begins(Q[k - 1], Q[k])
      /\ Q[n] = Q[n - 1]
  BY LzOutput
<1>3. L!Data = Q[n] /\ L!StreamSize = I[n] + stream.trailing
  BY DEF L!Data, L!StreamSize
<1>4. O = [k \in 0 .. n |-> Len(Q[k])]
  BY DEF LzSize
<1> HIDE DEF n, I, Q, O
<1>5. \A k \in 0 .. n : O[k] = Len(Q[k]) /\ O[k] \in Nat
  <2>1. \A k \in 0 .. n : Len(Q[k]) \in Nat
    BY <1>2, LengthIsNat
  <2> QED BY <1>4, <2>1
<1>6. O \in [0 .. n -> Nat]
  BY <1>4, <1>5
<1>7. 0 \in 0 .. n /\ n \in 0 .. n /\ n - 1 \in 0 .. n
  BY <1>1
<1>8. O[0] = 0 /\ O[n - 1] = O[n]
  BY <1>2, <1>5, <1>7
<1>9. \A j \in 0 .. n, k \in 0 .. n : j <= k => O[j] <= O[k]
  <2>1. \A k \in 1 .. n : O[k - 1] <= O[k]
    <3>1. ASSUME NEW k \in 1 .. n PROVE O[k - 1] <= O[k]
      <4>1. k \in 0 .. n /\ k - 1 \in 0 .. n
        BY <1>1
      <4> QED BY <1>2, <1>5, <4>1 DEF Begins
    <3> QED BY <3>1
  <2>2. n \in Nat /\ \A k \in 0 .. n : O[k] \in Int
    BY <1>1, <1>5
  <2> QED BY ONLY <2>1, <2>2, Ascends
<1>10. \A j \in 0 .. n, k \in 0 .. n : j < k => I[j] < I[k]
  <2> DEFINE f == [k \in 0 .. n |-> I[k] - k]
  <2>1. \A k \in 0 .. n : f[k] = I[k] - k /\ f[k] \in Int /\ I[k] \in Nat
    BY <1>1
  <2> HIDE DEF f
  <2>2. \A k \in 1 .. n : f[k - 1] <= f[k]
    <3>1. ASSUME NEW k \in 1 .. n PROVE f[k - 1] <= f[k]
      <4>1. k \in 0 .. n /\ k - 1 \in 0 .. n
        BY <1>1
      <4>2. I[k - 1] + 1 <= I[k]
        BY <1>1
      <4>3. f[k] = I[k] - k /\ f[k - 1] = I[k - 1] - (k - 1) /\ I[k] \in Nat /\ I[k - 1] \in Nat
        BY <2>1, <4>1
      <4> QED BY <4>2, <4>3
    <3> QED BY <3>1
  <2>3. n \in Nat /\ \A k \in 0 .. n : f[k] \in Int
    BY <1>1, <2>1
  <2>4. \A j \in 0 .. n, k \in 0 .. n : j <= k => f[j] <= f[k]
    BY ONLY <2>2, <2>3, Ascends
  <2>5. ASSUME NEW j \in 0 .. n, NEW k \in 0 .. n, j < k PROVE I[j] < I[k]
    <3>1. f[j] <= f[k]
      BY <2>4, <2>5
    <3>2. f[k] = I[k] - k /\ f[j] = I[j] - j /\ I[k] \in Nat /\ I[j] \in Nat
      BY <2>1
    <3> QED BY <2>5, <3>1, <3>2
  <2> QED BY <2>5
<1>11. LzTape(n, I, O)
  BY <1>1, <1>6, <1>8, <1>9, <1>10, Zenon DEF LzTape
<1>12. L!Data \in Seq(U8) /\ O[n] = Len(L!Data)
  BY <1>2, <1>3, <1>5, <1>7
<1>13. L!StreamSize \in Nat
  <2>1. I[n] \in Nat
    BY <1>1, <1>7
  <2> QED BY <1>1, <1>3, <2>1
<1> QED BY <1>1, <1>3, <1>11, <1>12, <1>13, Zenon DEF n, I, O

LEMMA GreatestIn ==
    ASSUME NEW n \in Nat, NEW S \in SUBSET (0 .. n), S # {}
    PROVE  L!Greatest(S) \in S /\ \A j \in S : j <= L!Greatest(S)
<1> DEFINE T == {m \in 0 .. n : n - m \in S}
<1>1. PICK x \in S : TRUE
  OBVIOUS
<1>2. n - x \in T
  <2>1. n - x \in 0 .. n /\ n - (n - x) = x
    OBVIOUS
  <2> QED BY <2>1
<1>3. PICK m \in T : \A y \in T : m <= y
  <2>1. T \in SUBSET Nat
    OBVIOUS
  <2> HIDE DEF T
  <2>2. T # {}
    BY <1>2
  <2> QED BY <2>1, <2>2, LeastElement
<1>4. n - m \in S
  OBVIOUS
<1>5. ASSUME NEW j \in S PROVE j <= n - m
  <2>1. n - j \in 0 .. n /\ n - (n - j) = j
    OBVIOUS
  <2>2. n - j \in T
    BY <2>1
  <2>3. m <= n - j /\ m \in 0 .. n
    BY <1>3, <2>2
  <2> QED BY <2>3
<1> QED BY <1>4, <1>5 DEF L!Greatest

LEMMA LzDecode ==
    ASSUME NEW n, NEW I, NEW O, LzTape(n, I, O), NEW r \in Nat, NEW w \in Nat,
           LzPos(n, I, O, r, w), NEW total \in Nat, NEW limit \in Nat, r <= total, w <= limit
    PROVE  LzReads(n, I, O, r, w, total, limit,
                   L!MinOf(total, I[L!Greatest(LzBegun(n, I, O, total, limit))]),
                   L!MinOf(limit, O[L!Greatest(LzEnded(n, I, O, total, limit))]))
<1> DEFINE B == LzBegun(n, I, O, total, limit)
           E == LzEnded(n, I, O, total, limit)
           g == L!Greatest(B)
           e == L!Greatest(E)
           r2 == L!MinOf(total, I[g])
           w2 == L!MinOf(limit, O[e])
<1>1. /\ n \in Nat /\ n \in 1 .. n /\ n \in 0 .. n /\ 0 \in 0 .. n /\ I[0] = 0 /\ O[0] = 0
      /\ O[n - 1] = O[n] /\ \A k \in 0 .. n : I[k] \in Nat /\ O[k] \in Nat
      /\ \A k \in 1 .. n : k - 1 \in 0 .. n /\ k \in 0 .. n
  BY DEF LzTape
<1>2. /\ \A j \in 0 .. n, k \in 0 .. n : j < k => I[j] < I[k]
      /\ \A j \in 0 .. n, k \in 0 .. n : j <= k => O[j] <= O[k]
  BY DEF LzTape
<1>3. \A k : k \in B <=> k \in 1 .. n /\ I[k - 1] <= total /\ O[k - 1] <= limit
  BY DEF LzBegun
<1>4. \A k : k \in E <=> k = 0 \/ (k \in B /\ I[k] <= total)
  BY DEF LzEnded
<1>5. g \in B /\ \A j \in B : j <= g
  <2>1. 1 \in B
    <3>1. 1 \in 1 .. n /\ 1 - 1 = 0
      BY <1>1
    <3> QED BY <1>1, <1>3, <3>1
  <2>2. B \in SUBSET (0 .. n)
    BY <1>1, <1>3
  <2> HIDE DEF B
  <2> QED BY <1>1, <2>1, <2>2, GreatestIn
<1>6. e \in E /\ \A j \in E : j <= e
  <2>1. 0 \in E
    BY <1>4
  <2>2. E \in SUBSET (0 .. n)
    BY <1>1, <1>3, <1>4
  <2> HIDE DEF E
  <2> QED BY <1>1, <2>1, <2>2, GreatestIn
<1> HIDE DEF B, E, g, e
<1>7. /\ g \in 1 .. n /\ g \in 0 .. n /\ g - 1 \in 0 .. n /\ e \in 0 .. n /\ g \in Int /\ e \in Int
      /\ I[g] \in Nat /\ O[e] \in Nat /\ I[g - 1] \in Nat /\ O[g - 1] \in Nat
      /\ I[g - 1] <= total /\ O[g - 1] <= limit
  BY <1>1, <1>3, <1>4, <1>5, <1>6
<1>8. /\ r2 \in Nat /\ r2 <= total /\ r2 <= I[g] /\ (r2 = total \/ r2 = I[g])
      /\ w2 \in Nat /\ w2 <= limit /\ w2 <= O[e] /\ (w2 = limit \/ w2 = O[e])
  BY <1>7 DEF L!MinOf
<1> HIDE DEF r2, w2
<1>9. ASSUME NEW j \in 1 .. n, j <= g PROVE j \in B
  <2>1. j - 1 \in 0 .. n /\ j - 1 <= g - 1
    BY <1>1, <1>7, <1>9
  <2>2. O[j - 1] <= O[g - 1]
    BY <1>2, <1>7, <2>1
  <2>3. I[j - 1] <= I[g - 1]
    <3>1. CASE j = g
      BY <1>7, <3>1
    <3>2. CASE j # g
      <4>1. j - 1 < g - 1
        BY <1>7, <1>9, <3>2
      <4>2. I[j - 1] < I[g - 1]
        BY <1>2, <1>7, <2>1, <4>1
      <4> QED BY <1>1, <1>7, <2>1, <4>2
    <3> QED BY <3>1, <3>2
  <2>4. I[j - 1] \in Nat /\ O[j - 1] \in Nat
    BY <1>1, <2>1
  <2>5. I[j - 1] <= total /\ O[j - 1] <= limit
    BY <1>7, <2>2, <2>3, <2>4
  <2> QED BY <1>3, <2>5
<1>10. e <= g /\ (e # 0 => e \in 1 .. n /\ I[e] <= total /\ O[e - 1] <= limit)
  BY <1>3, <1>4, <1>5, <1>6, <1>7
<1>11. g - 1 <= e
  <2>1. CASE g - 1 = 0
    BY <1>7, <2>1
  <2>2. CASE g - 1 # 0
    <3>1. g - 1 \in 1 .. n /\ g - 1 <= g
      BY <1>7, <2>2
    <3>2. g - 1 \in E
      BY <1>4, <1>7, <1>9, <3>1
    <3> QED BY <1>6, <3>2
  <2> QED BY <2>1, <2>2
<1>12. r <= r2
  <2>1. PICK j \in 0 .. n : r <= I[j] /\ (j = 0 \/ (I[j - 1] <= r /\ O[j - 1] <= w))
    BY DEF LzPos
  <2>2. CASE j = 0
    BY <1>1, <1>8, <2>1, <2>2
  <2>3. CASE j # 0
    <3>1. j \in 1 .. n /\ j - 1 \in 0 .. n
      BY <1>1, <2>3
    <3>2. I[j - 1] \in Nat /\ O[j - 1] \in Nat /\ I[j] \in Nat
      BY <1>1, <3>1
    <3>3. j \in B
      BY <1>3, <2>1, <2>3, <3>1, <3>2
    <3>4. I[j] <= I[g]
      <4>1. j <= g
        BY <1>5, <3>3
      <4>2. j = g \/ j < g
        BY <1>7, <4>1
      <4>3. j < g => I[j] < I[g]
        BY <1>2, <1>7
      <4> QED BY <1>7, <3>2, <4>2, <4>3
    <3> QED BY <1>7, <1>8, <2>1, <3>2, <3>4
  <2> QED BY <2>2, <2>3
<1>13. w <= w2
  <2>1. PICK k \in 0 .. n : I[k] <= r /\ w <= O[k] /\ (k = 0 \/ O[k - 1] <= w)
    BY DEF LzPos
  <2>2. I[k] \in Nat /\ O[k] \in Nat /\ I[k] <= total
    BY <1>1, <2>1
  <2>3. k \in E
    <3>1. ASSUME k # 0 PROVE k \in B
      <4>1. k \in 1 .. n /\ k - 1 \in 0 .. n /\ k - 1 < k
        BY <1>1, <3>1
      <4>2. I[k - 1] < I[k] /\ I[k - 1] \in Nat /\ O[k - 1] \in Nat
        BY <1>1, <1>2, <4>1
      <4>3. I[k - 1] <= total /\ O[k - 1] <= limit
        BY <2>1, <2>2, <3>1, <4>2
      <4> QED BY <1>3, <4>1, <4>3
    <3> QED BY <1>4, <2>2, <3>1
  <2>4. O[k] <= O[e]
    BY <1>2, <1>6, <1>7, <2>3
  <2> QED BY <1>7, <1>8, <2>1, <2>2, <2>4
<1>14. LzPos(n, I, O, r2, w2)
  <2>1. I[g - 1] <= r2 /\ O[g - 1] <= w2
    <3>1. I[g - 1] < I[g] /\ O[g - 1] <= O[e]
      BY <1>2, <1>7, <1>11
    <3> QED BY <1>7, <1>8, <3>1
  <2>2. I[e] <= r2 /\ (e = 0 \/ O[e - 1] <= w2)
    <3>1. I[e] <= I[g] /\ I[e] \in Nat
      <4>1. e = g \/ e < g
        BY <1>7, <1>10
      <4>2. e < g => I[e] < I[g]
        BY <1>2, <1>7
      <4>3. I[e] \in Nat
        BY <1>1, <1>7
      <4> QED BY <1>7, <4>1, <4>2, <4>3
    <3>2. I[e] <= total
      BY <1>1, <1>10
    <3>3. ASSUME e # 0 PROVE O[e - 1] <= w2
      <4>1. e - 1 \in 0 .. n /\ e - 1 <= e
        BY <1>1, <1>7, <3>3
      <4>2. O[e - 1] <= O[e] /\ O[e - 1] \in Nat
        BY <1>1, <1>2, <1>7, <4>1
      <4> QED BY <1>7, <1>8, <1>10, <3>3, <4>2
    <3> QED BY <1>7, <1>8, <3>1, <3>2, <3>3
  <2> QED BY <1>7, <1>8, <2>1, <2>2 DEF LzPos
<1>15. ASSUME NEW k \in 1 .. n, I[k] <= r2 PROVE k \in E \ {0}
  <2>1. I[k] \in Nat /\ k \in 0 .. n
    BY <1>1
  <2>2. k <= g
    <3>1. SUFFICES ASSUME g < k PROVE FALSE
      BY <1>7
    <3>2. I[g] < I[k]
      BY <1>2, <1>7, <2>1, <3>1
    <3> QED BY <1>7, <1>8, <1>15, <2>1, <3>2
  <2>3. k \in B /\ I[k] <= total
    BY <1>8, <1>9, <1>15, <2>1, <2>2
  <2> QED BY <1>4, <2>3
<1>16. ASSUME total >= I[n], w2 < limit PROVE w2 = O[n]
  <2>1. w2 = O[e]
    BY <1>8, <1>16
  <2>2. CASE e = n
    BY <2>1, <2>2
  <2>3. CASE e # n
    <3>1. e + 1 \in 1 .. n /\ (e + 1) - 1 = e /\ e + 1 \in 0 .. n
      BY <1>1, <1>7, <2>3
    <3>2. I[e + 1] <= I[n] /\ I[e + 1] \in Nat /\ I[e] < I[e + 1] /\ I[e] \in Nat /\ I[n] \in Nat
      <4>1. e + 1 = n \/ e + 1 < n
        BY <1>1, <3>1
      <4>2. e + 1 < n => I[e + 1] < I[n]
        BY <1>1, <1>2, <3>1
      <4>3. I[e] < I[e + 1] /\ I[e + 1] \in Nat /\ I[e] \in Nat /\ I[n] \in Nat
        BY <1>1, <1>2, <1>7, <3>1
      <4> QED BY <4>1, <4>2, <4>3
    <3>3. I[e] <= total /\ O[e] <= limit /\ I[e + 1] <= total
      BY <1>8, <1>16, <2>1, <3>2
    <3>4. e + 1 \in E
      BY <1>3, <1>4, <3>1, <3>3
    <3>5. e + 1 <= e
      BY <1>6, <3>4
    <3> QED BY <1>7, <3>5
  <2> QED BY <2>2, <2>3
<1>17. ASSUME total >= I[n], w2 = O[n] PROVE r2 = I[n]
  <2>1. n - 1 \in 0 .. n /\ I[n - 1] < I[n] /\ I[n - 1] \in Nat /\ I[n] \in Nat
    BY <1>1, <1>2
  <2>2. I[n - 1] <= total /\ O[n - 1] <= limit
    BY <1>1, <1>8, <1>17, <2>1
  <2>3. n \in B
    BY <1>1, <1>3, <2>2
  <2>4. g = n
    BY <1>1, <1>5, <1>7, <2>3
  <2> QED BY <1>8, <1>17, <2>1, <2>4
<1>18. r2 <= I[n] /\ w2 <= O[n]
  <2>1. I[g] <= I[n] /\ I[n] \in Nat
    <3>1. g = n \/ g < n
      BY <1>1, <1>7
    <3>2. g < n => I[g] < I[n]
      BY <1>1, <1>2, <1>7
    <3>3. I[n] \in Nat
      BY <1>1
    <3> QED BY <1>7, <3>1, <3>2, <3>3
  <2>2. O[e] <= O[n] /\ O[n] \in Nat
    BY <1>1, <1>2, <1>7
  <2> QED BY <1>7, <1>8, <2>1, <2>2
<1>19. LzReads(n, I, O, r, w, total, limit, r2, w2)
  BY <1>8, <1>12, <1>13, <1>14, <1>15, <1>16, <1>17, <1>18, Zenon DEF LzReads, E
<1> QED BY <1>19 DEF B, E, g, e, r2, w2

LEMMA FollowingDropped ==
    ASSUME NEW a \in Nat, NEW b \in Nat, NEW c \in Nat, a <= b, b <= c
    PROVE  L!Drop(Following(a, c), b - a) = Following(b, c)
<1> DEFINE s == Following(a, c)
           t == SubSeq(s, (b - a) + 1, Len(s))
           u == Following(b, c)
<1>0. a <= c
  OBVIOUS
<1>1. s \in Seq(Nat) /\ Len(s) = c - a /\ u \in Seq(Nat) /\ Len(u) = c - b
  <2>1. s \in Seq(Nat) /\ Len(s) = c - a
    BY ONLY a \in Nat, c \in Nat, <1>0, FollowingIs
  <2>2. u \in Seq(Nat) /\ Len(u) = c - b
    BY ONLY b \in Nat, c \in Nat, b <= c, FollowingIs
  <2> QED BY <2>1, <2>2
<1>2. (\A k \in 1 .. c - a : s[k] = a + k) /\ \A k \in 1 .. c - b : u[k] = b + k
  BY DEF Following
<1> HIDE DEF s, u
<1>3. b - a \in 0 .. Len(s) /\ Len(s) \in (b - a) .. Len(s)
  BY <1>1
<1>4. t \in Seq(Nat) /\ Len(t) = Len(s) - (b - a)
      /\ \A j \in 1 .. Len(s) - (b - a) : t[j] = s[(b - a) + j]
  BY <1>1, <1>3, Part
<1> HIDE DEF t
<1>5. Len(t) = Len(u)
  BY <1>1, <1>4
<1>6. ASSUME NEW j \in 1 .. Len(t) PROVE t[j] = u[j]
  <2>1. j \in 1 .. Len(s) - (b - a) /\ (b - a) + j \in 1 .. c - a /\ j \in 1 .. c - b
    BY <1>1, <1>4
  <2>2. t[j] = s[(b - a) + j] /\ s[(b - a) + j] = a + ((b - a) + j) /\ u[j] = b + j
    BY <1>2, <1>4, <2>1
  <2> QED BY <2>2
<1>7. t = u
  BY <1>1, <1>4, <1>5, <1>6, SeqEqual
<1> QED BY <1>7 DEF L!Drop, t, s, u

-----------------------------------------------------------------------------
(***************************************************************************)
(* The LZMA reader.                                                        *)
(***************************************************************************)
LzReaders ==
    [input : Seq(Nat), output : Seq(U8), read : Nat, written : Nat,
     turn : {"first", "code", "get", "input"}]

LzEnd == L!InputOf[Len(stream.tokens)]

\* The decoder is somewhere in the stream, with no damaged token behind it; its input is
\* what it has not read of what was taken, and its output what was not delivered.
LzAt(tk, z, o) ==
    /\ z \in LzReaders /\ o \in Seq(U8)
    /\ z.read <= tk /\ z.read <= LzEnd /\ z.input = Following(z.read, tk)
    /\ z.written = Len(o) + Len(z.output)
    /\ Lies(o, L!Data, 0) /\ Lies(z.output, L!Data, Len(o))
    /\ LzPos(Len(stream.tokens), L!InputOf, LzSize, z.read, z.written)
    /\ \A k \in 1 .. Len(stream.tokens) : L!InputOf[k] <= z.read => ~stream.tokens[k].bad

LzDone(z) == z.written = Len(L!Data)

\* In a call that goes on, too little is in the output; and when no more of the stream
\* comes, all of the data has been written.
LzTurn(w, tk, z) ==
    w > 0 => /\ z.turn \in {"code", "input"} => Len(z.output) < w
             /\ z.turn \in {"get", "input"} /\ Len(z.output) < w /\ tk = L!StreamSize => LzDone(z)

\* Then the end marker has been read, unless there is something left to decode.
LzEnds(w, tk, z) == (w > 0 /\ z.turn = "code") \/ (tk = L!StreamSize /\ LzDone(z) => z.read = LzEnd)

LzFails(r) == r \in {"error", "out_of_memory"}

LzResult(w, tk, z, r, x) ==
    /\ r \in {"none", "again", "ok", "more", "error", "out_of_memory"}
    /\ x \in {"no", "ok", "corrupt"}
    /\ w > 0 => r = "again" /\ x = "no"
    /\ r = "more" /\ tk = L!StreamSize => LzDone(z)
    /\ r = "error" => ~L!Good
    /\ x # "no" => (x = "ok" <=> z.input = <<>> /\ z.output = <<>>)
    /\ LzFails(r) \/ LzEnds(w, tk, z)

LzInv ==
    /\ stream \in LzmaStreams
    /\ fed \in 0 .. L!StreamSize /\ taken \in 0 .. fed /\ wanted \in Nat
    /\ LzAt(taken, lzma, out) /\ LzTurn(wanted, taken, lzma)
    /\ LzResult(wanted, taken, lzma, res, destroyed)

\* The format does not change.
LEMMA LzKept ==
    ASSUME stream' = stream
    PROVE  /\ L!InputOf' = L!InputOf /\ LzSize' = LzSize /\ L!Data' = L!Data
           /\ L!StreamSize' = L!StreamSize /\ LzEnd' = LzEnd /\ (L!Good' <=> L!Good)
<1>1. L!InputOf' = L!InputOf
  BY DEF L!InputOf
<1>2. L!OutputOf' = L!OutputOf
  BY DEF L!OutputOf
<1>3. LzSize' = LzSize
  BY <1>2 DEF LzSize
<1>4. L!Data' = L!Data
  BY <1>2 DEF L!Data
<1>5. L!StreamSize' = L!StreamSize /\ LzEnd' = LzEnd
  BY <1>1 DEF L!StreamSize, LzEnd
<1>6. L!Good' <=> L!Good
  BY DEF L!Good
<1> QED BY <1>1, <1>3, <1>4, <1>5, <1>6

LEMMA LzKeeps ==
    ASSUME stream \in LzmaStreams, stream' = stream,
           fed' \in 0 .. L!StreamSize, taken' \in 0 .. fed', wanted' \in Nat,
           LzAt(taken', lzma', out'), LzTurn(wanted', taken', lzma'),
           LzResult(wanted', taken', lzma', res', destroyed')
    PROVE  LzInv'
<1>1. /\ L!InputOf' = L!InputOf /\ LzSize' = LzSize /\ L!Data' = L!Data
      /\ L!StreamSize' = L!StreamSize /\ LzEnd' = LzEnd /\ (L!Good' <=> L!Good)
  BY LzKept
<1>2. stream' \in LzmaStreams
  BY Zenon
<1>3. LzAt(taken, lzma, out)'
  BY <1>1, Zenon DEF LzAt
<1>4. LzDone(lzma)' <=> LzDone(lzma')
  BY <1>1, Zenon DEF LzDone
<1>5. LzTurn(wanted, taken, lzma)'
  BY <1>1, <1>4, Zenon DEF LzTurn
<1>6. LzEnds(wanted, taken, lzma)' <=> LzEnds(wanted', taken', lzma')
  BY <1>1, <1>4, Zenon DEF LzEnds
<1>7. LzResult(wanted, taken, lzma, res, destroyed)'
  BY <1>1, <1>4, <1>6, Zenon DEF LzResult, LzFails
<1>8. fed' \in 0 .. L!StreamSize'
  BY <1>1, Zenon
<1> QED BY <1>2, <1>3, <1>5, <1>7, <1>8, Zenon DEF LzInv

LzReturned(r) == IF LzFails(r) THEN "error" ELSE r

LzMoves ==
    Moves(L!Data, fed - taken, wanted, out, LzReturned(res),
          fed' - taken', wanted', out', LzReturned(res'))

LEMMA LzStarts ==
    ASSUME L!Init
    PROVE  LzInv
<1>1. /\ stream \in LzmaStreams /\ fed = 0 /\ taken = 0 /\ wanted = 0 /\ out = <<>>
      /\ lzma = [input |-> <<>>, output |-> <<>>, read |-> 0, written |-> 0, turn |-> "first"]
      /\ res = "none" /\ destroyed = "no"
  BY DEF L!Init
<1> DEFINE n == Len(stream.tokens)
           I == L!InputOf
           O == LzSize
           q == <<>>
<1>2. /\ LzTape(n, I, O) /\ stream.trailing \in Nat /\ L!Data \in Seq(U8) /\ O[n] = Len(L!Data)
      /\ L!StreamSize = I[n] + stream.trailing /\ L!StreamSize \in Nat /\ LzEnd = I[n]
  BY <1>1, LzTaped DEF LzEnd
<1>3. q \in Seq(U8) /\ Len(q) = 0 /\ Lies(q, L!Data, 0)
  BY <1>2, LiesNothing, LengthIsNat
<1>4. /\ lzma.input = q /\ lzma.output = q /\ lzma.read = 0 /\ lzma.written = 0
      /\ lzma.turn = "first" /\ lzma \in LzReaders
  BY <1>1 DEF LzReaders
<1> HIDE DEF n, I, O, q
<1>5. n \in Nat \ {0} /\ I[0] = 0 /\ O[0] = 0 /\ 0 \in 0 .. n /\ n \in 0 .. n /\ I[n] \in Nat
      /\ \A k \in 1 .. n : I[0] < I[k]
  BY <1>2 DEF LzTape
<1>6. LzPos(n, I, O, 0, 0)
  BY <1>5 DEF LzPos
<1>7. Following(0, 0) = q
  BY FollowingIs DEF q
<1>8. LzAt(taken, lzma, out)
  <2>1. lzma.read <= taken /\ lzma.read <= LzEnd
    BY <1>1, <1>2, <1>4, <1>5
  <2>2. lzma.input = Following(lzma.read, taken)
    BY <1>1, <1>4, <1>7, Zenon
  <2>3. out \in Seq(U8) /\ lzma.written = Len(out) + Len(lzma.output)
    BY <1>1, <1>3, <1>4 DEF q
  <2>4. Lies(out, L!Data, 0) /\ Lies(lzma.output, L!Data, Len(out))
    <3>1. out = q
      BY <1>1 DEF q
    <3> QED BY <1>3, <1>4, <3>1, Zenon
  <2>5. LzPos(n, I, O, lzma.read, lzma.written)
    BY <1>4, <1>6, Zenon
  <2>6. \A k \in 1 .. n : I[k] <= lzma.read => ~stream.tokens[k].bad
    <3>1. ASSUME NEW k \in 1 .. n, I[k] <= lzma.read PROVE FALSE
      <4>1. k \in 0 .. n /\ I[k] \in Nat
        BY <1>2, <1>5 DEF LzTape
      <4>2. 0 < I[k]
        BY <1>5
      <4> QED BY <1>4, <3>1, <4>1, <4>2
    <3> QED BY <3>1
  <2> QED BY <1>4, <2>1, <2>2, <2>3, <2>4, <2>5, <2>6, Zenon DEF LzAt, n, I, O
<1>9. LzTurn(wanted, taken, lzma) /\ ~ (wanted > 0) /\ wanted \in Nat
  BY <1>1 DEF LzTurn
<1>10. LzEnds(wanted, taken, lzma)
  <2>1. taken = L!StreamSize => lzma.read = LzEnd
    BY <1>1, <1>2, <1>4, <1>5
  <2> QED BY <2>1 DEF LzEnds
<1>11. LzResult(wanted, taken, lzma, res, destroyed)
  BY <1>1, <1>9, <1>10 DEF LzResult
<1>12. fed \in 0 .. L!StreamSize /\ taken \in 0 .. fed
  BY <1>1, <1>2
<1> QED BY <1>1, <1>8, <1>9, <1>11, <1>12, Zenon DEF LzInv

LEMMA LzKnows ==
    ASSUME LzInv
    PROVE  /\ stream \in LzmaStreams /\ L!StreamSize \in Nat /\ L!Data \in Seq(U8)
           /\ Len(L!Data) \in Nat /\ LzEnd \in Nat /\ LzEnd <= L!StreamSize
           /\ fed \in Nat /\ taken \in Nat /\ taken <= fed /\ fed <= L!StreamSize /\ wanted \in Nat
           /\ fed - taken \in Nat
           /\ lzma \in LzReaders /\ lzma.input \in Seq(Nat) /\ lzma.output \in Seq(U8)
           /\ lzma.read \in Nat /\ lzma.written \in Nat
           /\ Len(lzma.output) \in Nat /\ out \in Seq(U8) /\ Len(out) \in Nat
           /\ lzma.written = Len(out) + Len(lzma.output) /\ lzma.read <= taken
           /\ lzma.read <= LzEnd
<1>1. stream \in LzmaStreams /\ fed \in 0 .. L!StreamSize /\ taken \in 0 .. fed /\ wanted \in Nat
      /\ LzAt(taken, lzma, out)
  BY DEF LzInv
<1> DEFINE n == Len(stream.tokens)
<1>2. /\ LzTape(n, L!InputOf, LzSize) /\ stream.trailing \in Nat /\ L!Data \in Seq(U8)
      /\ L!StreamSize = L!InputOf[n] + stream.trailing /\ L!StreamSize \in Nat
  BY <1>1, LzTaped
<1> HIDE DEF n
<1>3. LzEnd \in Nat /\ LzEnd <= L!StreamSize
  <2>1. L!InputOf[n] \in Nat
    BY <1>2 DEF LzTape
  <2>2. LzEnd = L!InputOf[n]
    BY DEF LzEnd, n
  <2> QED BY <1>2, <2>1, <2>2
<1>4. /\ lzma \in LzReaders /\ out \in Seq(U8) /\ lzma.written = Len(out) + Len(lzma.output)
      /\ lzma.read <= taken /\ lzma.read <= LzEnd
  BY <1>1, Zenon DEF LzAt
<1>5. /\ lzma.input \in Seq(Nat) /\ lzma.output \in Seq(U8) /\ lzma.read \in Nat
      /\ lzma.written \in Nat
  BY <1>4 DEF LzReaders
<1>6. fed \in Nat /\ taken \in Nat /\ taken <= fed /\ fed <= L!StreamSize /\ fed - taken \in Nat
  BY <1>1, <1>2
<1> QED BY <1>1, <1>2, <1>3, <1>4, <1>5, <1>6, LengthIsNat

\* The step of the decompression that is next says nothing of the decoder.
LEMMA LzTurned ==
    ASSUME NEW tk, NEW z, NEW o, LzAt(tk, z, o), NEW t \in {"first", "code", "get", "input"},
           NEW y, y = [z EXCEPT !.turn = t]
    PROVE  /\ LzAt(tk, y, o) /\ y.turn = t /\ y.input = z.input /\ y.output = z.output
           /\ y.read = z.read /\ y.written = z.written
<1>1. z \in LzReaders
  BY DEF LzAt
<1>2. /\ y \in LzReaders /\ y.turn = t /\ y.input = z.input /\ y.output = z.output
      /\ y.read = z.read /\ y.written = z.written
  BY <1>1 DEF LzReaders
<1>3. LzAt(tk, y, o)
  BY <1>2, Zenon DEF LzAt
<1> QED BY <1>2, <1>3

LEMMA LzOutside ==
    ASSUME LzInv, L!Feed \/ L!Call \/ L!Destroy
    PROVE  LzInv' /\ LzMoves
<1>1. /\ stream \in LzmaStreams /\ L!StreamSize \in Nat /\ fed \in Nat /\ taken \in Nat
      /\ taken <= fed /\ fed <= L!StreamSize /\ wanted \in Nat /\ fed - taken \in Nat
      /\ fed \in 0 .. L!StreamSize /\ taken \in 0 .. fed
  BY LzKnows
<1>2. /\ LzAt(taken, lzma, out) /\ LzTurn(wanted, taken, lzma)
      /\ LzResult(wanted, taken, lzma, res, destroyed)
  BY DEF LzInv
<1>3. MaxChunk \in Nat /\ MaxWanted \in Nat
  BY StreamsAssumption DEF L!StreamsAssumption
<1>4. CASE L!Feed
  <2>1. /\ wanted = 0 /\ ~ (taken < fed) /\ stream' = stream /\ taken' = taken /\ lzma' = lzma
        /\ wanted' = wanted /\ out' = out /\ res' = res /\ destroyed' = destroyed
        /\ \E k \in 1 .. MaxChunk : fed + k <= L!StreamSize /\ fed' = fed + k
    BY <1>1, <1>4 DEF L!Feed, L!InCall, L!ChunkAvailable
  <2>2. fed' \in 0 .. L!StreamSize /\ taken' \in 0 .. fed' /\ fed' - taken' \in Nat \ {0}
        /\ fed - taken = 0
    BY <1>1, <1>3, <2>1
  <2>3. LzInv'
    <3>1. /\ LzAt(taken', lzma', out') /\ LzTurn(wanted', taken', lzma') /\ wanted' \in Nat
          /\ LzResult(wanted', taken', lzma', res', destroyed')
      BY <1>1, <1>2, <2>1, Zenon
    <3> QED BY <1>1, <2>1, <2>2, <3>1, LzKeeps, Zenon
  <2>4. LzMoves
    BY <2>1, <2>2, Zenon DEF LzMoves, Moves
  <2> QED BY <2>3, <2>4
<1>5. CASE L!Call
  <2>1. /\ wanted = 0 /\ ~LzFails(res) /\ destroyed = "no" /\ wanted' \in 1 .. MaxWanted
        /\ lzma' = [lzma EXCEPT !.turn = "first"] /\ res' = "again" /\ stream' = stream
        /\ fed' = fed /\ taken' = taken /\ out' = out /\ destroyed' = destroyed
    BY <1>1, <1>5 DEF L!Call, L!InCall, LzFails
  <2>2. wanted' \in Nat /\ wanted' \in Nat \ {0} /\ ~ (wanted > 0)
    BY <1>3, <2>1
  <2>3. /\ LzAt(taken, lzma', out) /\ lzma'.turn = "first" /\ lzma'.input = lzma.input
        /\ lzma'.output = lzma.output /\ lzma'.read = lzma.read /\ lzma'.written = lzma.written
    <3> DEFINE t == "first"
               y == lzma'
    <3>1. t \in {"first", "code", "get", "input"} /\ y = [lzma EXCEPT !.turn = t]
          /\ LzAt(taken, lzma, out)
      BY <1>2, <2>1
    <3> HIDE DEF t, y
    <3>2. /\ LzAt(taken, y, out) /\ y.turn = t /\ y.input = lzma.input
          /\ y.output = lzma.output /\ y.read = lzma.read /\ y.written = lzma.written
      BY ONLY <3>1, LzTurned
    <3> QED BY <3>2, Zenon DEF t, y
  <2>4. LzTurn(wanted', taken', lzma')
    BY <2>3 DEF LzTurn
  <2>5. LzResult(wanted', taken', lzma', res', destroyed')
    <3>1. LzEnds(wanted, taken, lzma)
      BY <1>2, <2>1 DEF LzResult
    <3>2. LzEnds(wanted', taken', lzma')
      BY <2>1, <2>2, <2>3, <3>1 DEF LzEnds, LzDone
    <3> QED BY <2>1, <3>2 DEF LzResult
  <2>6. LzInv'
    <3>1. fed' \in 0 .. L!StreamSize /\ taken' \in 0 .. fed' /\ LzAt(taken', lzma', out')
      BY <1>1, <2>1, <2>3
    <3> QED BY <1>1, <2>1, <2>2, <2>4, <2>5, <3>1, LzKeeps, Zenon
  <2>7. LzMoves
    <3>1. LzReturned(res) # "error" /\ LzReturned(res') = "again"
      BY <2>1 DEF LzReturned, LzFails
    <3>2. fed' - taken' = fed - taken
      BY <2>1
    <3> QED BY <2>1, <2>2, <3>1, <3>2, Zenon DEF LzMoves, Moves
  <2> QED BY <2>6, <2>7
<1>6. CASE L!Destroy
  <2>1. /\ wanted = 0 /\ destroyed = "no" /\ stream' = stream /\ fed' = fed /\ taken' = taken
        /\ destroyed' = (IF lzma.input = <<>> /\ lzma.output = <<>> THEN "ok" ELSE "corrupt")
        /\ lzma' = lzma /\ wanted' = wanted /\ out' = out /\ res' = res
    BY <1>1, <1>6 DEF L!Destroy, L!InCall
  <2>2. destroyed' \in {"no", "ok", "corrupt"}
        /\ (destroyed' = "ok" <=> lzma.input = <<>> /\ lzma.output = <<>>)
    BY <2>1
  <2>3. LzResult(wanted', taken', lzma', res', destroyed')
    <3>1. ~ (wanted > 0)
      BY <2>1
    <3> QED BY <1>2, <2>1, <2>2, <3>1, Zenon DEF LzResult
  <2>4. LzInv'
    <3>1. /\ LzAt(taken', lzma', out') /\ LzTurn(wanted', taken', lzma') /\ wanted' \in Nat
          /\ fed' \in 0 .. L!StreamSize /\ taken' \in 0 .. fed'
      BY <1>1, <1>2, <2>1, Zenon
    <3> QED BY <1>1, <2>1, <2>3, <3>1, LzKeeps, Zenon
  <2>5. LzMoves
    BY <2>1, Zenon DEF LzMoves, Moves
  <2> QED BY <2>4, <2>5
<1> QED BY <1>4, <1>5, <1>6

LEMMA LzGets ==
    ASSUME LzInv, NEW turn \in {"first", "get"}, NEW otherwise \in {"code", "input"},
           turn = "first" <=> otherwise = "code", L!GetDecompressed(turn, otherwise)
    PROVE  LzInv' /\ LzMoves
<1>1. /\ stream \in LzmaStreams /\ L!StreamSize \in Nat /\ fed \in Nat /\ taken \in Nat
      /\ taken <= fed /\ fed <= L!StreamSize /\ wanted \in Nat /\ fed - taken \in Nat
      /\ L!Data \in Seq(U8) /\ lzma \in LzReaders /\ lzma.output \in Seq(U8)
      /\ Len(lzma.output) \in Nat /\ out \in Seq(U8) /\ Len(out) \in Nat
      /\ lzma.written = Len(out) + Len(lzma.output)
      /\ fed \in 0 .. L!StreamSize /\ taken \in 0 .. fed
  BY LzKnows
<1>2. /\ LzAt(taken, lzma, out) /\ LzTurn(wanted, taken, lzma)
      /\ LzResult(wanted, taken, lzma, res, destroyed)
  BY DEF LzInv
<1>3. /\ wanted > 0 /\ lzma.turn = turn /\ stream' = stream /\ fed' = fed /\ taken' = taken
      /\ destroyed' = destroyed
  BY DEF L!GetDecompressed, L!Turn, L!InCall
<1>4. /\ res = "again" /\ destroyed = "no" /\ (taken = L!StreamSize /\ LzDone(lzma) => lzma.read = LzEnd)
  BY <1>2, <1>3 DEF LzResult, LzEnds, LzFails
<1>5. ASSUME Len(lzma.output) >= wanted PROVE LzInv' /\ LzMoves
  <2> DEFINE part == SubSeq(lzma.output, 1, wanted)
             rest == SubSeq(lzma.output, wanted + 1, Len(lzma.output))
             o2 == out \o part
             z2 == [lzma EXCEPT !.output = rest]
  <2>1. out' = o2 /\ lzma' = z2 /\ res' = "ok" /\ wanted' = 0
    BY <1>5 DEF L!GetDecompressed, L!Return, L!Drop
  <2>2. Lies(out, L!Data, 0) /\ Lies(lzma.output, L!Data, Len(out))
    BY <1>2, Zenon DEF LzAt
  <2>3. part \in Seq(U8) /\ Len(part) = wanted /\ Lies(part, L!Data, Len(out))
    <3> DEFINE a == 0
    <3>1. a \in 0 .. Len(lzma.output) /\ wanted \in a .. Len(lzma.output) /\ a + 1 = 1
          /\ wanted - a = wanted /\ Len(out) + a = Len(out)
      BY <1>1, <1>5
    <3> HIDE DEF a
    <3>2. /\ SubSeq(lzma.output, a + 1, wanted) \in Seq(U8)
          /\ Len(SubSeq(lzma.output, a + 1, wanted)) = wanted - a
          /\ Lies(SubSeq(lzma.output, a + 1, wanted), L!Data, Len(out) + a)
      BY <1>1, <2>2, <3>1, LiesPart
    <3> QED BY <3>1, <3>2, Zenon
  <2>4. rest \in Seq(U8) /\ Len(rest) = Len(lzma.output) - wanted
        /\ Lies(rest, L!Data, Len(out) + wanted)
    <3>1. wanted \in 0 .. Len(lzma.output) /\ Len(lzma.output) \in wanted .. Len(lzma.output)
      BY <1>1, <1>5
    <3> QED BY <1>1, <2>2, <3>1, LiesPart
  <2> HIDE DEF part, rest
  <2>5. o2 \in Seq(U8) /\ Len(o2) = Len(out) + wanted /\ Lies(o2, L!Data, 0)
    <3> DEFINE z == 0
    <3>1. z \in Nat /\ Lies(out, L!Data, z) /\ Lies(part, L!Data, z + Len(out))
          /\ out \in Seq(U8) /\ part \in Seq(U8) /\ L!Data \in Seq(U8)
      <4>1. z + Len(out) = Len(out)
        BY <1>1
      <4> HIDE DEF z
      <4>2. z \in Nat /\ Lies(out, L!Data, z)
        BY <2>2 DEF z
      <4> QED BY <1>1, <2>3, <4>1, <4>2, Zenon
    <3> HIDE DEF z
    <3>2. /\ out \o part \in Seq(U8) /\ Len(out \o part) = Len(out) + Len(part)
          /\ Lies(out \o part, L!Data, z)
      BY ONLY <3>1, LiesJoined
    <3> QED BY <2>3, <3>2 DEF z
  <2>6. /\ z2 \in LzReaders /\ z2.input = lzma.input /\ z2.output = rest /\ z2.read = lzma.read
        /\ z2.written = lzma.written /\ z2.turn = lzma.turn
    BY <1>1, <2>4 DEF LzReaders
  <2> HIDE DEF o2, z2
  <2>7. LzAt(taken, z2, o2)
    <3>1. z2.written = Len(o2) + Len(z2.output)
      <4>1. z2.written = Len(out) + Len(lzma.output) /\ Len(z2.output) = Len(lzma.output) - wanted
        BY <1>1, <2>4, <2>6, Zenon
      <4>2. Len(out) + Len(lzma.output) = (Len(out) + wanted) + (Len(lzma.output) - wanted)
        <5>1. Len(out) \in Nat /\ Len(lzma.output) \in Nat /\ wanted \in Nat
          BY <1>1, Zenon
        <5> DEFINE a == Len(out)
                   b == Len(lzma.output)
        <5> HIDE DEF a, b
        <5>2. a \in Nat /\ b \in Nat /\ wanted \in Nat => a + b = (a + wanted) + (b - wanted)
          OBVIOUS
        <5> QED BY <5>1, <5>2, Zenon DEF a, b
      <4> QED BY <2>5, <4>1, <4>2, Zenon
    <3>2. Lies(z2.output, L!Data, Len(o2))
      BY <2>4, <2>5, <2>6, Zenon
    <3> QED BY <1>2, <2>5, <2>6, <3>1, <3>2, Zenon DEF LzAt
  <2>8. LzTurn(wanted', taken', lzma')
    BY <2>1 DEF LzTurn
  <2>9. LzResult(wanted', taken', lzma', res', destroyed')
    <3>1. LzEnds(wanted', taken', lzma')
      BY <1>3, <1>4, <2>1, <2>6 DEF LzEnds, LzDone
    <3> QED BY <1>3, <1>4, <2>1, <3>1 DEF LzResult
  <2>10. LzInv'
    <3>1. /\ LzAt(taken', lzma', out') /\ wanted' \in Nat
          /\ fed' \in 0 .. L!StreamSize /\ taken' \in 0 .. fed'
      BY <1>1, <1>3, <2>1, <2>7
    <3> QED BY <1>1, <1>3, <2>8, <2>9, <3>1, LzKeeps, Zenon
  <2>11. LzMoves
    <3> DEFINE l == fed - taken
    <3>1. Begins(o2, L!Data)
      BY <1>1, <2>5, LiesFirst
    <3>2. wanted \in 1 .. wanted /\ l \in Nat /\ l <= l
      BY <1>1, <1>3
    <3> HIDE DEF l
    <3>3. Moves(L!Data, l, wanted, out, "again", l, 0, o2, "ok")
      BY <1>1, <1>3, <2>5, <3>1, <3>2, MovesDelivering
    <3>4. LzReturned(res) = "again" /\ LzReturned(res') = "ok"
      BY <1>4, <2>1 DEF LzReturned, LzFails
    <3>5. fed' - taken' = l
      BY <1>3 DEF l
    <3> QED BY <2>1, <3>3, <3>4, <3>5, Zenon DEF LzMoves, l
  <2> QED BY <2>10, <2>11
<1>6. ASSUME ~ (Len(lzma.output) >= wanted) PROVE LzInv' /\ LzMoves
  <2>1. /\ out' = out /\ lzma' = [lzma EXCEPT !.turn = otherwise] /\ res' = res
        /\ wanted' = wanted
    BY <1>6 DEF L!GetDecompressed, L!Again
  <2>2. /\ LzAt(taken, lzma', out) /\ lzma'.turn = otherwise /\ lzma'.input = lzma.input
        /\ lzma'.output = lzma.output /\ lzma'.read = lzma.read /\ lzma'.written = lzma.written
    <3> DEFINE y == lzma'
    <3>1. otherwise \in {"first", "code", "get", "input"} /\ LzAt(taken, lzma, out)
          /\ y = [lzma EXCEPT !.turn = otherwise]
      BY <1>2, <2>1
    <3> HIDE DEF y
    <3>2. /\ LzAt(taken, y, out) /\ y.turn = otherwise /\ y.input = lzma.input
          /\ y.output = lzma.output /\ y.read = lzma.read /\ y.written = lzma.written
      BY ONLY <3>1, LzTurned
    <3> QED BY <3>2, Zenon DEF y
  <2>3. Len(lzma.output) < wanted
    BY <1>1, <1>6
  <2>4. LzTurn(wanted', taken', lzma')
    <3>1. otherwise = "input" /\ taken = L!StreamSize => LzDone(lzma)
      BY <1>2, <1>3, <2>3 DEF LzTurn
    <3> QED BY <1>3, <2>1, <2>2, <2>3, <3>1 DEF LzTurn, LzDone
  <2>5. LzResult(wanted', taken', lzma', res', destroyed')
    <3>1. LzEnds(wanted', taken', lzma')
      BY <1>3, <1>4, <2>2 DEF LzEnds, LzDone
    <3> QED BY <1>3, <1>4, <2>1, <3>1 DEF LzResult
  <2>6. LzInv'
    <3>1. /\ LzAt(taken', lzma', out') /\ wanted' \in Nat
          /\ fed' \in 0 .. L!StreamSize /\ taken' \in 0 .. fed'
      BY <1>1, <1>3, <2>1, <2>2
    <3> QED BY <1>1, <1>3, <2>4, <2>5, <3>1, LzKeeps, Zenon
  <2>7. LzMoves
    BY <1>3, <2>1, Zenon DEF LzMoves, Moves
  <2> QED BY <2>6, <2>7
<1> QED BY <1>5, <1>6

LEMMA LzPrepares ==
    ASSUME LzInv, L!PrepareInput
    PROVE  LzInv' /\ LzMoves
<1>1. /\ stream \in LzmaStreams /\ L!StreamSize \in Nat /\ fed \in Nat /\ taken \in Nat
      /\ taken <= fed /\ fed <= L!StreamSize /\ wanted \in Nat /\ fed - taken \in Nat
      /\ lzma \in LzReaders /\ lzma.read \in Nat /\ lzma.read <= taken
      /\ fed \in 0 .. L!StreamSize /\ taken \in 0 .. fed
  BY LzKnows
<1>2. /\ LzAt(taken, lzma, out) /\ LzTurn(wanted, taken, lzma)
      /\ LzResult(wanted, taken, lzma, res, destroyed)
  BY DEF LzInv
<1>3. /\ wanted > 0 /\ lzma.turn = "input" /\ stream' = stream /\ fed' = fed
      /\ destroyed' = destroyed /\ out' = out
  BY DEF L!PrepareInput, L!Turn, L!InCall
<1>4. /\ res = "again" /\ destroyed = "no" /\ (taken = L!StreamSize /\ LzDone(lzma) => lzma.read = LzEnd)
  BY <1>2, <1>3 DEF LzResult, LzEnds, LzFails
<1>5. Len(lzma.output) < wanted /\ (taken = L!StreamSize => LzDone(lzma))
  BY <1>2, <1>3 DEF LzTurn
<1>6. ASSUME ~L!ChunkAvailable PROVE LzInv' /\ LzMoves
  <2>1. res' = "more" /\ wanted' = 0 /\ taken' = taken /\ lzma' = lzma
    BY <1>6 DEF L!PrepareInput, L!Return
  <2>2. fed - taken = 0
    BY <1>1, <1>6 DEF L!ChunkAvailable
  <2>3. LzTurn(wanted', taken', lzma')
    BY <2>1 DEF LzTurn
  <2>4. LzResult(wanted', taken', lzma', res', destroyed')
    <3>1. LzEnds(wanted', taken', lzma')
      BY <1>4, <2>1 DEF LzEnds
    <3> QED BY <1>3, <1>4, <1>5, <2>1, <3>1 DEF LzResult
  <2>5. LzInv'
    <3>1. /\ LzAt(taken', lzma', out') /\ wanted' \in Nat
          /\ fed' \in 0 .. L!StreamSize /\ taken' \in 0 .. fed'
      BY <1>1, <1>2, <1>3, <2>1
    <3> QED BY <1>1, <1>3, <2>3, <2>4, <3>1, LzKeeps, Zenon
  <2>6. LzMoves
    <3>1. LzReturned(res') = "more"
      BY <2>1 DEF LzReturned, LzFails
    <3>2. fed' - taken' = 0
      BY <1>3, <2>1, <2>2
    <3> QED BY <1>3, <2>1, <3>1, <3>2, Zenon DEF LzMoves, Moves
  <2> QED BY <2>5, <2>6
<1>7. ASSUME L!ChunkAvailable PROVE LzInv' /\ LzMoves
  <2> DEFINE more == lzma.input \o [k \in 1 .. fed - taken |-> taken + k]
  <2>1. /\ res' = res /\ wanted' = wanted /\ taken' = fed
        /\ lzma' = [lzma EXCEPT !.input = more, !.turn = "code"]
    BY <1>7 DEF L!PrepareInput, L!Again
  <2>2. more = Following(lzma.read, fed)
    <3>1. lzma.input = Following(lzma.read, taken)
      BY <1>2 DEF LzAt
    <3>2. Following(lzma.read, taken) \o [k \in 1 .. fed - taken |-> taken + k]
            = Following(lzma.read, fed)
      BY <1>1, FollowingJoined
    <3> QED BY <3>1, <3>2, Zenon
  <2>3. more \in Seq(Nat) /\ lzma.read <= fed
    <3>1. lzma.read <= fed
      BY <1>1
    <3> HIDE DEF more
    <3> QED BY <1>1, <2>2, <3>1, FollowingIs
  <2> HIDE DEF more
  <2>4. /\ lzma' \in LzReaders /\ lzma'.input = more /\ lzma'.output = lzma.output
        /\ lzma'.read = lzma.read /\ lzma'.written = lzma.written /\ lzma'.turn = "code"
    BY <1>1, <2>1, <2>3 DEF LzReaders
  <2>5. LzAt(taken', lzma', out')
    <3> DEFINE z2 == lzma'
    <3> HIDE DEF z2
    <3>1. /\ z2 \in LzReaders /\ z2.input = more /\ z2.output = lzma.output
          /\ z2.read = lzma.read /\ z2.written = lzma.written
      BY <2>4 DEF z2
    <3>2. LzAt(fed, z2, out)
      BY <1>2, <2>2, <2>3, <3>1, Zenon DEF LzAt
    <3> QED BY <1>3, <2>1, <3>2, Zenon DEF z2
  <2>6. LzTurn(wanted', taken', lzma')
    BY <1>5, <2>1, <2>4 DEF LzTurn
  <2>7. LzResult(wanted', taken', lzma', res', destroyed')
    <3>1. LzEnds(wanted', taken', lzma')
      BY <1>3, <2>1, <2>4 DEF LzEnds
    <3> QED BY <1>3, <1>4, <2>1, <3>1 DEF LzResult
  <2>8. LzInv'
    <3>1. wanted' \in Nat /\ fed' \in 0 .. L!StreamSize /\ taken' \in 0 .. fed'
      BY <1>1, <1>3, <2>1
    <3> QED BY <1>1, <1>3, <2>5, <2>6, <2>7, <3>1, LzKeeps, Zenon
  <2>9. LzMoves
    <3>1. fed' - taken' \in 0 .. fed - taken
      BY <1>1, <1>3, <2>1
    <3> QED BY <1>3, <2>1, <3>1, Zenon DEF LzMoves, Moves
  <2> QED BY <2>8, <2>9
<1> QED BY <1>6, <1>7

LEMMA LzRunsOut ==
    ASSUME LzInv, L!OutOfMemory
    PROVE  LzInv' /\ LzMoves
<1>1. /\ stream \in LzmaStreams /\ fed \in Nat /\ taken \in Nat /\ taken <= fed
      /\ fed - taken \in Nat /\ fed \in 0 .. L!StreamSize /\ taken \in 0 .. fed
  BY LzKnows DEF LzInv
<1>2. /\ LzAt(taken, lzma, out) /\ LzResult(wanted, taken, lzma, res, destroyed)
  BY DEF LzInv
<1>3. /\ wanted > 0 /\ res' = "out_of_memory" /\ wanted' = 0 /\ stream' = stream /\ fed' = fed
      /\ taken' = taken /\ lzma' = lzma /\ out' = out /\ destroyed' = destroyed
  BY DEF L!OutOfMemory, L!Turn, L!InCall, L!Return
<1>4. res = "again" /\ destroyed = "no"
  BY <1>2, <1>3 DEF LzResult
<1>5. LzTurn(wanted', taken', lzma')
  BY <1>3 DEF LzTurn
<1>6. LzResult(wanted', taken', lzma', res', destroyed')
  BY <1>3, <1>4 DEF LzResult, LzFails
<1>7. LzInv'
  <2>1. /\ LzAt(taken', lzma', out') /\ wanted' \in Nat
        /\ fed' \in 0 .. L!StreamSize /\ taken' \in 0 .. fed'
    BY <1>1, <1>2, <1>3
  <2> QED BY <1>1, <1>3, <1>5, <1>6, <2>1, LzKeeps, Zenon
<1>8. LzMoves
  <2>1. LzReturned(res') = "error"
    BY <1>3 DEF LzReturned, LzFails
  <2>2. fed' - taken' \in 0 .. fed - taken
    BY <1>1, <1>3
  <2> QED BY <1>3, <2>1, <2>2, Zenon DEF LzMoves, Moves
<1> QED BY <1>7, <1>8

\* What the decoder begins and ends.
LEMMA LzSets ==
    ASSUME stream \in LzmaStreams, NEW total, NEW limit
    PROVE  LET n == Len(stream.tokens)
           IN  /\ L!Begun(total, limit) = LzBegun(n, L!InputOf, LzSize, total, limit)
               /\ L!Ended(total, limit) = LzEnded(n, L!InputOf, LzSize, total, limit)
<1> DEFINE n == Len(stream.tokens)
<1>1. n \in Nat /\ DOMAIN stream.tokens = 1 .. n
  BY StreamsAssumption DEF L!StreamsAssumption
<1>2. \A k \in 1 .. n : Len(L!OutputOf[k - 1]) = LzSize[k - 1]
  <2>1. \A k \in 1 .. n : k - 1 \in 0 .. n
    BY <1>1
  <2>2. \A k \in 0 .. n : LzSize[k] = Len(L!OutputOf[k])
    BY DEF LzSize
  <2> QED BY <2>1, <2>2
<1> HIDE DEF n
<1>3. L!Begun(total, limit) = LzBegun(n, L!InputOf, LzSize, total, limit)
  BY <1>1, <1>2 DEF L!Begun, LzBegun
<1>4. L!Ended(total, limit) = LzEnded(n, L!InputOf, LzSize, total, limit)
  BY <1>3, Zenon DEF L!Ended, LzEnded
<1> QED BY <1>3, <1>4 DEF n

\* The decoder goes on as far as it can.
LEMMA LzDecodes ==
    ASSUME LzInv, wanted > 0, lzma.turn = "code",
           NEW total, total = lzma.read + Len(lzma.input),
           NEW limit, limit = lzma.written + wanted - Len(lzma.output),
           ~L!DecodeFails(total, limit)
    PROVE  LET z2 == L!Decoded(L!PreparedOutput, total, limit)
           IN  /\ total = taken /\ LzAt(taken, z2, out) /\ z2.turn = "get"
               /\ taken = L!StreamSize /\ Len(z2.output) < wanted => LzDone(z2)
               /\ taken = L!StreamSize /\ LzDone(z2) => z2.read = LzEnd
<1> DEFINE n == Len(stream.tokens)
           I == L!InputOf
           O == LzSize
           r == lzma.read
           w == lzma.written
           B == LzBegun(n, I, O, total, limit)
           E == LzEnded(n, I, O, total, limit)
           r2 == L!MinOf(total, I[L!Greatest(B)])
           w2 == L!MinOf(limit, O[L!Greatest(E)])
           piece == SubSeq(L!Data, w + 1, w2)
           o2 == lzma.output \o piece
           i2 == L!Drop(lzma.input, r2 - r)
           z2 == [lzma EXCEPT !.input = i2, !.read = r2, !.output = o2, !.written = w2,
                              !.turn = "get"]
<1>1. /\ stream \in LzmaStreams /\ L!StreamSize \in Nat /\ L!Data \in Seq(U8)
      /\ Len(L!Data) \in Nat /\ LzEnd \in Nat /\ LzEnd <= L!StreamSize
      /\ taken \in Nat /\ wanted \in Nat
      /\ lzma \in LzReaders /\ lzma.output \in Seq(U8) /\ r \in Nat /\ w \in Nat
      /\ Len(lzma.output) \in Nat /\ out \in Seq(U8) /\ Len(out) \in Nat
      /\ w = Len(out) + Len(lzma.output) /\ r <= taken
  BY LzKnows
<1>2. LzAt(taken, lzma, out) /\ LzTurn(wanted, taken, lzma)
  BY DEF LzInv
<1>3. /\ LzTape(n, I, O) /\ O[n] = Len(L!Data) /\ LzEnd = I[n]
  BY <1>1, LzTaped DEF LzEnd
<1>4. lzma.input = Following(r, taken) /\ Lies(out, L!Data, 0) /\ Lies(lzma.output, L!Data, Len(out))
      /\ LzPos(n, I, O, r, w)
  BY <1>2 DEF LzAt
<1>5. Len(lzma.output) < wanted
  BY <1>2 DEF LzTurn
<1>6. total = taken /\ total \in Nat /\ limit \in Nat /\ r <= total /\ w <= limit
  <2>1. Len(lzma.input) = taken - r
    <3>1. Len(Following(r, taken)) = taken - r
      BY <1>1, FollowingIs
    <3> QED BY <1>4, <3>1, Zenon
  <2>2. /\ taken \in Nat /\ wanted \in Nat /\ r \in Nat /\ w \in Nat /\ r <= taken
        /\ Len(lzma.output) \in Nat /\ Len(lzma.output) < wanted
        /\ w = Len(out) + Len(lzma.output) /\ Len(out) \in Nat
    BY <1>1, <1>5, Zenon
  <2>3. total = r + Len(lzma.input) /\ limit = w + wanted - Len(lzma.output)
    OBVIOUS
  <2> HIDE DEF r, w
  <2> QED BY ONLY <2>1, <2>2, <2>3
<1>7. L!Begun(total, limit) = B /\ L!Ended(total, limit) = E
  BY <1>1, LzSets
<1>8. n \in Nat /\ n \in 0 .. n /\ I[n] \in Nat /\ O[n] \in Nat /\ \A k \in 1 .. n : k \in DOMAIN stream.tokens
  <2>1. n \in Nat /\ DOMAIN stream.tokens = 1 .. n
    BY <1>1, StreamsAssumption DEF L!StreamsAssumption
  <2> HIDE DEF n
  <2>2. n \in 0 .. n
    BY <2>1
  <2>3. I[n] \in Nat /\ O[n] \in Nat
    BY <1>3, <2>2 DEF LzTape
  <2> QED BY <2>1, <2>2, <2>3
<1> HIDE DEF n, I, O, r, w
<1>9. /\ r2 \in Nat /\ w2 \in Nat /\ LzPos(n, I, O, r2, w2)
      /\ r <= r2 /\ r2 <= total /\ r2 <= I[n] /\ w <= w2 /\ w2 <= limit /\ w2 <= O[n]
      /\ \A k \in 1 .. n : I[k] <= r2 => k \in E \ {0}
      /\ total >= I[n] /\ w2 < limit => w2 = O[n]
      /\ total >= I[n] /\ w2 = O[n] => r2 = I[n]
  <2>1. /\ LzTape(n, I, O) /\ r \in Nat /\ w \in Nat /\ LzPos(n, I, O, r, w)
        /\ total \in Nat /\ limit \in Nat /\ r <= total /\ w <= limit
    BY <1>1, <1>3, <1>4, <1>6, Zenon
  <2>2. LzReads(n, I, O, r, w, total, limit, r2, w2)
    BY ONLY <2>1, LzDecode
  <2> QED BY <2>2, Zenon DEF LzReads
<1>10. L!Decoded(L!PreparedOutput, total, limit) = z2
  <2>1. L!Greatest(E) \in 0 .. n
    <3>1. E \in SUBSET (0 .. n)
      <4>1. \A k \in 1 .. n : k \in 0 .. n
        OBVIOUS
      <4>2. 0 \in 0 .. n
        BY <1>8
      <4> QED BY <4>1, <4>2 DEF LzEnded, LzBegun
    <3>2. E # {}
      BY DEF LzEnded
    <3> HIDE DEF E
    <3> QED BY <1>8, <3>1, <3>2, GreatestIn
  <2>2. Len(L!OutputOf[L!Greatest(E)]) = O[L!Greatest(E)]
    <3> HIDE DEF E
    <3> QED BY <2>1 DEF O, n, LzSize
  <2> HIDE DEF B, E
  <2>3. r2 = L!MinOf(total, L!InputOf[L!Greatest(L!Begun(total, limit))])
    BY <1>7, Zenon DEF I
  <2>4. w2 = L!MinOf(limit, Len(L!OutputOf[L!Greatest(L!Ended(total, limit))]))
    BY <1>7, <2>2, Zenon
  <2> HIDE DEF r2, w2
  <2> QED BY <2>3, <2>4, Zenon DEF L!Decoded, L!PreparedOutput, r, w
<1> HIDE DEF B, E, r2, w2
<1>11. /\ piece \in Seq(U8) /\ Len(piece) = w2 - w /\ Lies(piece, L!Data, w)
  <2>1. w \in 0 .. Len(L!Data) /\ w2 \in w .. Len(L!Data)
    <3>1. /\ w \in Nat /\ w2 \in Nat /\ w <= w2 /\ w2 <= Len(L!Data) /\ Len(L!Data) \in Nat
      BY <1>1, <1>3, <1>9, Zenon
    <3> QED BY ONLY <3>1
  <2> QED BY <1>1, <2>1, LiesIn
<1> HIDE DEF piece
<1>12. /\ o2 \in Seq(U8) /\ Len(o2) = Len(lzma.output) + (w2 - w) /\ Lies(o2, L!Data, Len(out))
  <2>1. Lies(piece, L!Data, Len(out) + Len(lzma.output))
    BY <1>1, <1>11, Zenon
  <2> HIDE DEF o2
  <2>2. lzma.output \o piece \in Seq(U8)
        /\ Len(lzma.output \o piece) = Len(lzma.output) + Len(piece)
        /\ Lies(lzma.output \o piece, L!Data, Len(out))
    BY <1>1, <1>4, <1>11, <2>1, LiesJoined
  <2> QED BY <1>11, <2>2 DEF o2
<1> HIDE DEF o2
<1>13. i2 = Following(r2, taken) /\ i2 \in Seq(Nat)
  <2>1. r2 <= taken
    BY <1>6, <1>9
  <2>2. L!Drop(Following(r, taken), r2 - r) = Following(r2, taken)
    BY <1>1, <1>9, <2>1, FollowingDropped
  <2>3. i2 = Following(r2, taken)
    BY <1>4, <2>2, Zenon
  <2>4. Following(r2, taken) \in Seq(Nat)
    BY <1>1, <1>9, <2>1, FollowingIs
  <2> QED BY <2>3, <2>4, Zenon
<1> HIDE DEF i2
<1>14. /\ z2 \in LzReaders /\ z2.input = i2 /\ z2.output = o2 /\ z2.read = r2
       /\ z2.written = w2 /\ z2.turn = "get"
  BY <1>1, <1>9, <1>12, <1>13 DEF LzReaders
<1> HIDE DEF z2
<1>15. LzAt(taken, z2, out)
  <2>1. z2.read <= taken /\ z2.read <= LzEnd
    BY <1>3, <1>6, <1>9, <1>14, Zenon
  <2>2. z2.written = Len(out) + Len(z2.output)
    <3>1. w2 = Len(out) + (Len(lzma.output) + (w2 - w))
      BY <1>1, <1>9
    <3> QED BY <1>12, <1>14, <3>1, Zenon
  <2>3. ASSUME NEW k \in 1 .. n, I[k] <= z2.read PROVE ~stream.tokens[k].bad
    <3>1. k \in E \ {0}
      BY <1>9, <1>14, <2>3
    <3>2. k \in L!Ended(total, limit) \ {0}
      BY <1>7, <3>1, Zenon
    <3> QED BY <3>2 DEF L!DecodeFails
  <2>4. z2.input = Following(z2.read, taken)
    BY <1>13, <1>14, Zenon
  <2>5. Lies(z2.output, L!Data, Len(out))
    BY <1>12, <1>14, Zenon
  <2>6. LzPos(n, I, O, z2.read, z2.written)
    BY <1>9, <1>14, Zenon
  <2> QED BY <1>1, <1>4, <1>14, <2>1, <2>2, <2>3, <2>4, <2>5, <2>6, Zenon DEF LzAt, n, I, O
<1>16. taken = L!StreamSize => total >= I[n]
  BY <1>1, <1>3, <1>6, <1>8
<1>17. ASSUME taken = L!StreamSize, Len(z2.output) < wanted PROVE LzDone(z2)
  <2>1. Len(lzma.output) + (w2 - w) < wanted
    BY <1>12, <1>14, <1>17, Zenon
  <2>2. w2 < limit
    <3>1. /\ w \in Nat /\ w2 \in Nat /\ Len(lzma.output) \in Nat /\ wanted \in Nat
      BY <1>1, <1>9, Zenon
    <3>2. limit = w + wanted - Len(lzma.output)
      BY DEF w
    <3> DEFINE b == Len(lzma.output)
    <3>3. b \in Nat /\ b + (w2 - w) < wanted /\ limit = w + wanted - b
      BY <2>1, <3>1, <3>2, Zenon
    <3> HIDE DEF b
    <3> QED BY ONLY <3>1, <3>3
  <2>3. w2 = O[n]
    BY <1>9, <1>16, <1>17, <2>2, Zenon
  <2> QED BY <1>3, <1>14, <2>3, Zenon DEF LzDone
<1>18. ASSUME taken = L!StreamSize, LzDone(z2) PROVE z2.read = LzEnd
  <2>1. w2 = O[n]
    BY <1>3, <1>14, <1>18, Zenon DEF LzDone
  <2> QED BY <1>3, <1>9, <1>14, <1>16, <1>18, <2>1, Zenon
<1> QED BY <1>6, <1>10, <1>14, <1>15, <1>17, <1>18, Zenon

\* A reader that has read all of a stream has all of its data.
LEMMA LzWhole ==
    ASSUME LzInv, lzma.read = LzEnd
    PROVE  LzDone(lzma)
<1> DEFINE n == Len(stream.tokens)
           I == L!InputOf
           O == LzSize
<1>1. stream \in LzmaStreams /\ LzAt(taken, lzma, out) /\ lzma.written \in Nat
  BY LzKnows DEF LzInv
<1>2. LzTape(n, I, O) /\ O[n] = Len(L!Data) /\ LzEnd = I[n]
  BY <1>1, LzTaped DEF LzEnd
<1>3. LzPos(n, I, O, I[n], lzma.written)
  BY <1>1, <1>2, Zenon DEF LzAt
<1> HIDE DEF n, I, O
<1>4. lzma.written = O[n]
  BY <1>1, <1>2, <1>3, LzReadAll
<1> QED BY <1>2, <1>4, Zenon DEF LzDone

LEMMA LzDecompresses ==
    ASSUME LzInv, L!Decompress
    PROVE  LzInv' /\ LzMoves
<1> DEFINE total == lzma.read + Len(lzma.input)
           limit == lzma.written + wanted - Len(lzma.output)
<1>1. /\ stream \in LzmaStreams /\ L!StreamSize \in Nat /\ fed \in Nat /\ taken \in Nat
      /\ taken <= fed /\ fed <= L!StreamSize /\ wanted \in Nat /\ fed - taken \in Nat
      /\ LzEnd \in Nat /\ LzEnd <= L!StreamSize
      /\ lzma \in LzReaders /\ lzma.read \in Nat /\ lzma.read <= taken /\ lzma.read <= LzEnd
      /\ fed \in 0 .. L!StreamSize /\ taken \in 0 .. fed
  <2>1. fed \in 0 .. L!StreamSize /\ taken \in 0 .. fed
    BY DEF LzInv
  <2> QED BY <2>1, LzKnows, Zenon
<1>2. /\ LzAt(taken, lzma, out) /\ LzTurn(wanted, taken, lzma)
      /\ LzResult(wanted, taken, lzma, res, destroyed)
  BY DEF LzInv
<1>3. /\ wanted > 0 /\ lzma.turn = "code" /\ stream' = stream /\ fed' = fed /\ taken' = taken
      /\ destroyed' = destroyed /\ out' = out
  BY DEF L!Decompress, L!Turn, L!InCall
<1>4. res = "again" /\ destroyed = "no" /\ LzReturned(res) = "again"
  BY <1>2, <1>3 DEF LzResult, LzReturned, LzFails
<1>5. lzma.input = Following(lzma.read, taken)
  BY <1>2 DEF LzAt
<1>6. ASSUME lzma.input = <<>>, lzma' = [lzma EXCEPT !.turn = "get"], L!Again
      PROVE  LzInv' /\ LzMoves
  <2>1. wanted' = wanted /\ res' = res
    BY <1>6 DEF L!Again
  <2>2. lzma.read = taken
    BY <1>1, <1>5, <1>6, FollowingIs
  <2>3. /\ LzAt(taken, lzma', out) /\ lzma'.turn = "get" /\ lzma'.input = lzma.input
        /\ lzma'.output = lzma.output /\ lzma'.read = lzma.read /\ lzma'.written = lzma.written
    <3> DEFINE t == "get"
               y == lzma'
    <3>1. t \in {"first", "code", "get", "input"} /\ y = [lzma EXCEPT !.turn = t]
          /\ LzAt(taken, lzma, out)
      BY <1>2, <1>6
    <3> HIDE DEF t, y
    <3>2. /\ LzAt(taken, y, out) /\ y.turn = t /\ y.input = lzma.input
          /\ y.output = lzma.output /\ y.read = lzma.read /\ y.written = lzma.written
      BY ONLY <3>1, LzTurned
    <3> QED BY <3>2, Zenon DEF t, y
  <2>4. taken = L!StreamSize => lzma.read = LzEnd /\ LzDone(lzma)
    <3>1. taken = L!StreamSize => lzma.read = LzEnd
      BY <1>1, <2>2
    <3> QED BY <3>1, LzWhole
  <2>5. LzTurn(wanted', taken', lzma')
    BY <1>3, <2>1, <2>3, <2>4 DEF LzTurn, LzDone
  <2>6. LzResult(wanted', taken', lzma', res', destroyed')
    <3>1. LzEnds(wanted', taken', lzma')
      BY <1>3, <2>3, <2>4 DEF LzEnds
    <3> QED BY <1>3, <1>4, <2>1, <3>1 DEF LzResult
  <2>7. LzInv'
    <3>1. LzAt(taken', lzma', out') /\ wanted' \in Nat /\ fed' \in 0 .. L!StreamSize
          /\ taken' \in 0 .. fed'
      BY <1>1, <1>3, <2>1, <2>3
    <3> QED BY <1>1, <1>3, <2>5, <2>6, <3>1, LzKeeps, Zenon
  <2>8. LzMoves
    BY <1>3, <2>1, Zenon DEF LzMoves, Moves
  <2> QED BY <2>7, <2>8
<1>7. ASSUME L!DecodeFails(total, limit), L!Return("error"), UNCHANGED lzma
      PROVE  LzInv' /\ LzMoves
  <2>1. wanted' = 0 /\ res' = "error" /\ lzma' = lzma
    BY <1>7 DEF L!Return
  <2>2. ~L!Good
    <3>1. lzma.input = [k \in DOMAIN lzma.input |-> lzma.read + k]
      <4>1. DOMAIN Following(lzma.read, taken) = 1 .. taken - lzma.read
        BY DEF Following
      <4>2. DOMAIN lzma.input = 1 .. taken - lzma.read
        BY <1>5, <4>1
      <4> QED BY <1>5, <4>2 DEF Following
    <3>2. \E k \in L!Ended(total, limit) \ {0} : stream.tokens[k].bad
      BY <1>7, <3>1 DEF L!DecodeFails
    <3>3. \E k \in DOMAIN stream.tokens : stream.tokens[k].bad
      BY <3>2 DEF L!Ended, L!Begun
    <3> QED BY <3>3 DEF L!Good
  <2>3. LzTurn(wanted', taken', lzma')
    BY <2>1 DEF LzTurn
  <2>4. LzResult(wanted', taken', lzma', res', destroyed')
    BY <1>3, <1>4, <2>1, <2>2 DEF LzResult, LzFails
  <2>5. LzInv'
    <3>1. LzAt(taken', lzma', out') /\ wanted' \in Nat /\ fed' \in 0 .. L!StreamSize
          /\ taken' \in 0 .. fed'
      BY <1>1, <1>2, <1>3, <2>1
    <3> QED BY <1>1, <1>3, <2>3, <2>4, <3>1, LzKeeps, Zenon
  <2>6. LzMoves
    <3>1. LzReturned(res') = "error" /\ fed' - taken' \in 0 .. fed - taken
      BY <1>1, <1>3, <2>1 DEF LzReturned, LzFails
    <3> QED BY <1>3, <2>1, <3>1, Zenon DEF LzMoves, Moves
  <2> QED BY <2>5, <2>6
<1>8. ASSUME ~L!DecodeFails(total, limit), L!Again,
             lzma' = L!Decoded(L!PreparedOutput, total, limit)
      PROVE  LzInv' /\ LzMoves
  <2> DEFINE z2 == lzma'
  <2>1. wanted' = wanted /\ res' = res
    BY <1>8 DEF L!Again
  <2>2. /\ LzAt(taken, z2, out) /\ z2.turn = "get"
        /\ taken = L!StreamSize /\ Len(z2.output) < wanted => LzDone(z2)
        /\ taken = L!StreamSize /\ LzDone(z2) => z2.read = LzEnd
    <3> DEFINE z == L!Decoded(L!PreparedOutput, total, limit)
    <3>1. total = lzma.read + Len(lzma.input) /\ limit = lzma.written + wanted - Len(lzma.output)
      OBVIOUS
    <3> HIDE DEF total, limit
    <3>2. LET y == L!Decoded(L!PreparedOutput, total, limit)
          IN  /\ total = taken /\ LzAt(taken, y, out) /\ y.turn = "get"
              /\ taken = L!StreamSize /\ Len(y.output) < wanted => LzDone(y)
              /\ taken = L!StreamSize /\ LzDone(y) => y.read = LzEnd
      BY <1>3, <1>8, <3>1, LzDecodes
    <3> QED BY <1>8, <3>2, Zenon
  <2> HIDE DEF z2
  <2>3. LzTurn(wanted, taken, z2)
    BY <2>2 DEF LzTurn
  <2>4. LzEnds(wanted, taken, z2)
    BY <2>2, Zenon DEF LzEnds
  <2>5. LzResult(wanted, taken, z2, res, destroyed)
    BY <1>3, <1>4, <2>4 DEF LzResult
  <2>6. LzInv'
    <3>1. /\ LzAt(taken', lzma', out') /\ wanted' \in Nat /\ fed' \in 0 .. L!StreamSize
          /\ taken' \in 0 .. fed' /\ LzTurn(wanted', taken', lzma')
          /\ LzResult(wanted', taken', lzma', res', destroyed')
      BY <1>1, <1>3, <2>1, <2>2, <2>3, <2>5, Zenon DEF z2
    <3> QED BY <1>1, <1>3, <3>1, LzKeeps, Zenon
  <2>7. LzMoves
    BY <1>3, <2>1, Zenon DEF LzMoves, Moves
  <2> QED BY <2>6, <2>7
<1> HIDE DEF total, limit
<1> QED BY <1>6, <1>7, <1>8 DEF L!Decompress, total, limit

\* Every step of the reader.
LEMMA LzSteps ==
    ASSUME LzInv, L!Next
    PROVE  LzInv' /\ LzMoves /\ L!Data' = L!Data
<1>1. LzInv' /\ LzMoves
  <2>1. CASE L!GetDecompressed("first", "code")
    BY <2>1, LzGets
  <2>2. CASE L!GetDecompressed("get", "input")
    BY <2>2, LzGets
  <2> QED BY <2>1, <2>2, LzOutside, LzDecompresses, LzPrepares, LzRunsOut DEF L!Next
<1>2. stream' = stream
  BY DEF L!Next, L!Feed, L!Call, L!GetDecompressed, L!Decompress, L!PrepareInput, L!OutOfMemory,
         L!Destroy
<1> QED BY <1>1, <1>2, LzKept

\* What has been delivered and what is in the output is all of the data.
LEMMA LzNothingWithheld ==
    ASSUME LzInv, res = "more", taken = L!StreamSize
    PROVE  out \o lzma.output = L!Data
<1> DEFINE q == lzma.output
           u == out \o q
           z == 0
<1>1. /\ L!Data \in Seq(U8) /\ Len(L!Data) \in Nat /\ q \in Seq(U8) /\ Len(q) \in Nat
      /\ out \in Seq(U8) /\ Len(out) \in Nat /\ lzma.written = Len(out) + Len(q)
  BY LzKnows
<1>2. LzDone(lzma)
  BY DEF LzInv, LzResult
<1>3. Lies(out, L!Data, 0) /\ Lies(q, L!Data, Len(out))
  BY DEF LzInv, LzAt
<1>4. z \in Nat /\ z + Len(out) = Len(out)
  BY <1>1
<1>5. Lies(out, L!Data, z)
  BY <1>3
<1> HIDE DEF q, z
<1>6. Lies(q, L!Data, z + Len(out))
  BY <1>3, <1>4, Zenon
<1>7. u \in Seq(U8) /\ Len(u) = Len(out) + Len(q) /\ Lies(u, L!Data, z)
  BY <1>1, <1>4, <1>5, <1>6, LiesJoined
<1> HIDE DEF u
<1>8. Len(u) = Len(L!Data)
  BY <1>1, <1>2, <1>7, Zenon DEF LzDone
<1>9. Begins(u, L!Data)
  BY <1>1, <1>7, LiesFirst DEF z
<1>10. u = L!Data
  BY <1>1, <1>7, <1>8, <1>9, BeginsWhole
<1> QED BY <1>10 DEF u, q

\* The verdict at the end is right.
LEMMA LzFinish ==
    ASSUME LzInv, destroyed # "no", ~LzFails(res), taken = L!StreamSize
    PROVE  destroyed = "ok" <=> out = L!Data /\ L!Good
<1> DEFINE n == Len(stream.tokens)
<1>1. /\ L!Data \in Seq(U8) /\ Len(L!Data) \in Nat /\ lzma.output \in Seq(U8)
      /\ Len(lzma.output) \in Nat /\ out \in Seq(U8) /\ Len(out) \in Nat
      /\ lzma.written = Len(out) + Len(lzma.output) /\ stream \in LzmaStreams
      /\ lzma.read \in Nat /\ taken \in Nat /\ lzma.read <= taken /\ lzma.read <= LzEnd
      /\ LzEnd \in Nat
  BY LzKnows
<1>2. /\ LzTape(n, L!InputOf, LzSize) /\ stream.trailing \in Nat
      /\ L!StreamSize = LzEnd + stream.trailing
  BY <1>1, LzTaped DEF LzEnd
<1>3. n \in Nat /\ DOMAIN stream.tokens = 1 .. n
  BY <1>1, StreamsAssumption DEF L!StreamsAssumption
<1>4. /\ LzAt(taken, lzma, out) /\ LzResult(wanted, taken, lzma, res, destroyed) /\ wanted \in Nat
  BY DEF LzInv
<1>5. /\ lzma.input = Following(lzma.read, taken) /\ Lies(out, L!Data, 0)
      /\ \A k \in 1 .. n : L!InputOf[k] <= lzma.read => ~stream.tokens[k].bad
  BY <1>4, Zenon DEF LzAt
<1> HIDE DEF n
<1>6. lzma.input = <<>> <=> lzma.read = taken
  <2>1. Following(lzma.read, taken) = <<>> <=> lzma.read = taken
    BY <1>1, FollowingIs
  <2> QED BY <1>5, <2>1, Zenon
<1>7. lzma.output = <<>> <=> Len(lzma.output) = 0
  <2> DEFINE q == lzma.output
  <2>1. q \in Seq(U8)
    BY <1>1
  <2> HIDE DEF q
  <2>2. q = <<>> <=> Len(q) = 0
    BY <2>1
  <2> QED BY <2>2 DEF q
<1>8. destroyed = "ok" <=> lzma.input = <<>> /\ lzma.output = <<>>
  BY <1>4 DEF LzResult
<1>9. LzDone(lzma) => lzma.read = LzEnd
  <2>1. ~ (wanted > 0)
    BY <1>4 DEF LzResult
  <2> QED BY <1>4, <2>1 DEF LzResult, LzEnds
<1>10. ASSUME destroyed = "ok" PROVE out = L!Data /\ L!Good
  <2>1. lzma.read = taken /\ Len(lzma.output) = 0
    BY <1>6, <1>7, <1>8, <1>10
  <2>2. stream.trailing = 0 /\ lzma.read = LzEnd
    BY <1>1, <1>2, <2>1
  <2>3. LzDone(lzma)
    BY <2>2, LzWhole
  <2>4. Len(out) = Len(L!Data)
    BY <1>1, <2>1, <2>3 DEF LzDone
  <2>5. out = L!Data
    <3>1. Begins(out, L!Data)
      BY <1>1, <1>5, LiesFirst
    <3> QED BY <1>1, <2>4, <3>1, BeginsWhole
  <2>6. ASSUME NEW k \in 1 .. n PROVE ~stream.tokens[k].bad
    <3>1. L!InputOf[k] <= L!InputOf[n]
      <4>1. k \in 0 .. n /\ n \in 0 .. n /\ (k = n \/ k < n)
        BY <1>3
      <4>2. L!InputOf[k] \in Nat /\ L!InputOf[n] \in Nat
        BY <1>2, <4>1 DEF LzTape
      <4>3. k < n => L!InputOf[k] < L!InputOf[n]
        BY <1>2, <4>1 DEF LzTape
      <4> QED BY <4>1, <4>2, <4>3
    <3>2. L!InputOf[n] = lzma.read
      BY <2>2 DEF LzEnd, n
    <3> QED BY <1>5, <3>1, <3>2, Zenon
  <2> QED BY <1>3, <2>2, <2>5, <2>6 DEF L!Good
<1>11. ASSUME out = L!Data, L!Good PROVE destroyed = "ok"
  <2>1. stream.trailing = 0
    BY <1>11 DEF L!Good
  <2>2. lzma.written <= Len(L!Data)
    <3>1. Lies(lzma.output, L!Data, Len(out))
      BY <1>4 DEF LzAt
    <3> QED BY <1>1, <3>1 DEF Lies
  <2>3. Len(lzma.output) = 0 /\ LzDone(lzma)
    BY <1>1, <1>11, <2>2 DEF LzDone
  <2>4. lzma.read = taken
    BY <1>1, <1>2, <1>9, <2>1, <2>3
  <2> QED BY <1>6, <1>7, <1>8, <2>3, <2>4
<1> QED BY <1>10, <1>11

-----------------------------------------------------------------------------
(***************************************************************************)
(* The format of heatshrink.                                               *)
(***************************************************************************)
HsFormat(s) ==
    /\ s.window \in 4 .. 19 /\ s.lookahead \in 3 .. 18 /\ s.dynamic \in BOOLEAN
    /\ s.tokens \in Seq([back : 0 .. 2 ^ s.window, byte : U8, count : 1 .. 2 ^ s.lookahead])

LEMMA HsFormats ==
    ASSUME NEW s \in HeatshrinkStreams
    PROVE  HsFormat(s)
  BY StreamsAssumption, Zenon DEF H!StreamsAssumption, HsFormat, U8

HsWidth(s, t) == IF t.back = 0 THEN 9 ELSE 1 + s.window + s.lookahead

LEMMA HsTokens ==
    ASSUME NEW s, HsFormat(s)
    PROVE  /\ Len(s.tokens) \in Nat
           /\ \A k \in 1 .. Len(s.tokens) :
                 /\ s.tokens[k].back \in 0 .. 2 ^ s.window /\ s.tokens[k].byte \in U8
                 /\ s.tokens[k].count \in 1 .. 2 ^ s.lookahead
<1> DEFINE T == [back : 0 .. 2 ^ s.window, byte : U8, count : 1 .. 2 ^ s.lookahead]
           q == s.tokens
<1>1. q \in Seq(T)
  BY DEF HsFormat
<1>2. \A x \in T : x.back \in 0 .. 2 ^ s.window /\ x.byte \in U8 /\ x.count \in 1 .. 2 ^ s.lookahead
  OBVIOUS
<1> HIDE DEF T, q
<1>3. Len(q) \in Nat /\ \A k \in 1 .. Len(q) : q[k] \in T
  BY <1>1, ElementsIn
<1> QED BY <1>2, <1>3, Zenon DEF q

Bit == {0, 1}

LEMMA HsBitsOf ==
    ASSUME NEW v \in Nat, NEW w \in 0 .. 19
    PROVE  /\ H!Bits(v, w) \in Seq(Bit) /\ Len(H!Bits(v, w)) = w
           /\ \A j \in 1 .. w : H!Bits(v, w)[j] = (v \div 2 ^ (w - j)) % 2
<1> DEFINE q == [j \in 1 .. w |-> (v \div 2 ^ (w - j)) % 2]
<1>1. ASSUME NEW j \in 1 .. w PROVE (v \div 2 ^ (w - j)) % 2 \in Bit
  <2> DEFINE p == 2 ^ (w - j)
  <2>1. w - j \in 0 .. 19
    OBVIOUS
  <2>2. p \in Nat /\ p > 0
    BY <2>1, PowersOfTwo
  <2> HIDE DEF p
  <2>3. (v \div p) % 2 \in {0, 1}
    BY <2>2
  <2> QED BY <2>3 DEF p, Bit
<1>2. H!Bits(v, w) = q
  BY DEF H!Bits
<1>3. q \in [1 .. w -> Bit]
  BY <1>1
<1>4. \A j \in 1 .. w : q[j] = (v \div 2 ^ (w - j)) % 2
  OBVIOUS
<1> HIDE DEF q
<1>5. q \in Seq(Bit) /\ Len(q) = w
  BY <1>3
<1> QED BY <1>2, <1>4, <1>5, Zenon

LEMMA HsTokenBits ==
    ASSUME NEW s, HsFormat(s), NEW t,
           t.back \in 0 .. 2 ^ s.window, t.byte \in U8, t.count \in 1 .. 2 ^ s.lookahead
    PROVE  /\ H!TokenBits(s, t) \in Seq(Bit) /\ Len(H!TokenBits(s, t)) = HsWidth(s, t)
           /\ HsWidth(s, t) \in Nat /\ HsWidth(s, t) >= 8
<1>1. s.window \in 4 .. 19 /\ s.lookahead \in 3 .. 18
  BY DEF HsFormat
<1>2. 2 ^ s.window \in Nat /\ 2 ^ s.lookahead \in Nat
  BY <1>1, PowersOfTwo
<1> DEFINE one == <<1>>
           zero == <<0>>
<1>3. one \in Seq(Bit) /\ zero \in Seq(Bit) /\ Len(one) = 1 /\ Len(zero) = 1
  BY DEF Bit
<1> HIDE DEF one, zero
<1>4. CASE t.back = 0
  <2> DEFINE b == H!Bits(t.byte, 8)
  <2>1. b \in Seq(Bit) /\ Len(b) = 8
    <3>1. t.byte \in Nat /\ 8 \in 0 .. 19
      BY Bytes
    <3> QED BY <3>1, HsBitsOf
  <2>2. H!TokenBits(s, t) = one \o b
    BY <1>4 DEF H!TokenBits, one
  <2> HIDE DEF b
  <2>3. one \o b \in Seq(Bit) /\ Len(one \o b) = 1 + 8
    <3>1. one \o b \in Seq(Bit) /\ Len(one \o b) = Len(one) + Len(b)
      <4>1. one \in Seq(Bit) /\ b \in Seq(Bit)
        BY <1>3, <2>1
      <4> QED BY ONLY <4>1, TwoParts
    <3> QED BY <1>3, <2>1, <3>1, Zenon
  <2>4. HsWidth(s, t) = 9
    BY <1>4 DEF HsWidth
  <2> QED BY <2>2, <2>3, <2>4
<1>5. CASE t.back # 0
  <2> DEFINE b == H!Bits(t.back - 1, s.window)
             c == H!Bits(t.count - 1, s.lookahead)
  <2>0. t.back - 1 \in Nat /\ t.count - 1 \in Nat /\ s.window \in 0 .. 19 /\ s.lookahead \in 0 .. 19
    BY <1>1, <1>2, <1>5
  <2>1. b \in Seq(Bit) /\ Len(b) = s.window /\ c \in Seq(Bit) /\ Len(c) = s.lookahead
    BY <2>0, HsBitsOf
  <2>2. H!TokenBits(s, t) = zero \o b \o c
    BY <1>5 DEF H!TokenBits, zero
  <2> HIDE DEF b, c
  <2>3. zero \o b \in Seq(Bit) /\ Len(zero \o b) = 1 + s.window
    <3>1. zero \o b \in Seq(Bit) /\ Len(zero \o b) = Len(zero) + Len(b)
      <4>1. zero \in Seq(Bit) /\ b \in Seq(Bit)
        BY <1>3, <2>1
      <4> QED BY ONLY <4>1, TwoParts
    <3> QED BY <1>3, <2>1, <3>1, Zenon
  <2> DEFINE e == zero \o b
  <2> HIDE DEF e
  <2>4. e \o c \in Seq(Bit) /\ Len(e \o c) = 1 + s.window + s.lookahead
    <3>1. e \in Seq(Bit) /\ Len(e) = 1 + s.window
      BY <2>3 DEF e
    <3>2. e \o c \in Seq(Bit) /\ Len(e \o c) = Len(e) + Len(c)
      BY <2>1, <3>1, TwoParts
    <3> QED BY <2>1, <3>1, <3>2
  <2>5. HsWidth(s, t) = 1 + s.window + s.lookahead
    BY <1>5 DEF HsWidth
  <2>6. 1 + s.window + s.lookahead \in Nat /\ 1 + s.window + s.lookahead >= 8
    BY <1>1
  <2> QED BY <2>2, <2>4, <2>5, <2>6, Zenon DEF e
<1> QED BY <1>4, <1>5

LEMMA HsBitsAre ==
    ASSUME NEW s, HsFormat(s)
    PROVE  LET n == Len(s.tokens)
               A == H!TokensBits(s)
           IN  /\ A \in [0 .. n -> Seq(Bit)] /\ A[0] = <<>>
               /\ \A k \in 1 .. n : A[k] = A[k - 1] \o H!TokenBits(s, s.tokens[k])
<1> DEFINE n == Len(s.tokens)
           T == Seq(Bit)
           none == <<>>
           more(k) == H!TokenBits(s, s.tokens[k])
           step == [x \in (1 .. n) \X T |-> x[2] \o more(x[1])]
           Adds(g) == g = [k \in 0 .. n |-> IF k = 0 THEN <<>> ELSE g[k - 1] \o more(k)]
<1>1. n \in Nat
  BY HsTokens
<1>2. \A k \in 1 .. n : more(k) \in T
  BY HsTokens, HsTokenBits, Zenon
<1>3. \A v \in T, w \in T : v \o w \in T
  OBVIOUS
<1>4. none \in T
  OBVIOUS
<1>5. H!TokensBits(s) = CHOOSE g : Adds(g)
  BY DEF H!TokensBits
<1> HIDE DEF T, n, more
<1>6. \A k \in 1 .. n : \A v \in T : step[<<k, v>>] = v \o more(k)
  OBVIOUS
<1>7. step \in [(1 .. n) \X T -> T]
  BY <1>2, <1>3
<1>8. 0 \in 0 .. n
  BY <1>1
<1> HIDE DEF step, none
<1>9. PICK f \in [0 .. n -> T] : Recursion(f, none, step, n)
  BY ONLY <1>1, <1>4, <1>7, RecursionUpTo
<1>10. Adds(f)
  <2>1. f = [k \in 0 .. n |-> IF k = 0 THEN none ELSE step[<<k, f[k - 1]>>]]
    BY <1>9 DEF Recursion
  <2>2. ASSUME NEW k \in 0 .. n, k # 0
        PROVE  step[<<k, f[k - 1]>>] = f[k - 1] \o more(k)
    <3>1. k \in 1 .. n /\ k - 1 \in 0 .. n
      BY <1>1, <2>2
    <3>2. f[k - 1] \in T
      BY <1>9, <3>1
    <3> QED BY <1>6, <3>1, <3>2
  <2>3. \A k \in 0 .. n : f[k] = IF k = 0 THEN none ELSE f[k - 1] \o more(k)
    BY <2>1, <2>2
  <2>4. f = [k \in 0 .. n |-> f[k]]
    BY <1>9
  <2> QED BY <2>3, <2>4, Zenon DEF none
<1> HIDE DEF Adds
<1> DEFINE g == H!TokensBits(s)
<1>11. Adds(g)
  BY <1>5, <1>10
<1> HIDE DEF g
<1>12. /\ g[0] = <<>> /\ DOMAIN g = 0 .. n
       /\ \A k \in 1 .. n : g[k] = g[k - 1] \o more(k)
  <2>1. g = [k \in 0 .. n |-> IF k = 0 THEN <<>> ELSE g[k - 1] \o more(k)]
    BY <1>11 DEF Adds
  <2>2. \A k \in 0 .. n : g[k] = IF k = 0 THEN <<>> ELSE g[k - 1] \o more(k)
    BY <2>1, Zenon
  <2>3. \A k \in 1 .. n : k \in 0 .. n /\ k # 0
    BY <1>1
  <2>4. DOMAIN g = 0 .. n
    BY <2>1, Zenon
  <2> QED BY <1>8, <2>2, <2>3, <2>4, Zenon
<1>13. g = [k \in 0 .. n |-> g[k]]
  <2>1. g = [k \in 0 .. n |-> IF k = 0 THEN <<>> ELSE g[k - 1] \o more(k)]
    BY <1>11 DEF Adds
  <2> DEFINE h == [k \in 0 .. n |-> IF k = 0 THEN <<>> ELSE g[k - 1] \o more(k)]
  <2>2. h = [k \in 0 .. n |-> h[k]]
    OBVIOUS
  <2>3. g = h
    BY <2>1
  <2> HIDE DEF h
  <2> QED BY <2>2, <2>3
<1> DEFINE S == {k \in 0 .. n : g[k] \in T}
<1>14. 0 \in S
  BY <1>4, <1>8, <1>12 DEF none
<1>15. ASSUME NEW k \in 0 .. n - 1, k \in S PROVE k + 1 \in S
  <2>1. k + 1 \in 1 .. n /\ (k + 1) - 1 = k /\ k + 1 \in 0 .. n
    BY <1>1
  <2>2. g[k + 1] = g[k] \o more(k + 1)
    BY <1>12, <2>1
  <2> QED BY <1>2, <1>3, <1>15, <2>1, <2>2
<1> HIDE DEF S
<1>16. \A k \in 0 .. n : k \in S
  BY ONLY <1>1, <1>14, <1>15, InductionUpTo
<1>17. g \in [0 .. n -> T]
  BY <1>13, <1>16 DEF S
<1> QED BY <1>12, <1>17, Zenon DEF n, g, T, more

HsCount(t) == IF t.back = 0 THEN 1 ELSE t.count

\* The data of one token more.
LEMMA HsExpand ==
    ASSUME NEW d \in Seq(U8), NEW t, t.back \in Nat, t.byte \in U8, t.count \in Nat \ {0}
    PROVE  LET e == H!Expand(d, t)
           IN  /\ e \in Seq(U8) /\ Len(e) = Len(d) + HsCount(t) /\ Begins(d, e)
               /\ t.back = 0 => e[Len(d) + 1] = t.byte
               /\ t.back # 0 =>
                     \A j \in 1 .. t.count :
                        e[Len(d) + j] = HsByte(d, Len(d) - t.back + 1 + ((j - 1) % t.back))
<1> DEFINE q == IF t.back = 0 THEN <<t.byte>>
                ELSE [k \in 1 .. t.count |-> HsByte(d, Len(d) - t.back + 1 + ((k - 1) % t.back))]
           e == H!Expand(d, t)
           m == Len(d)
<1>1. m \in Nat /\ \A i \in 1 .. m : d[i] \in U8
  BY ElementsIn
<1>2. e = d \o q
  <2>1. CASE t.back = 0
    <3>1. e = Append(d, t.byte)
      BY <2>1 DEF H!Expand
    <3>2. q = <<t.byte>>
      BY <2>1
    <3> HIDE DEF q
    <3> QED BY <3>1, <3>2
  <2>2. CASE t.back # 0
    BY <2>2, Zenon DEF H!Expand, HsByte
  <2> QED BY <2>1, <2>2
<1>3. q \in Seq(U8) /\ Len(q) = HsCount(t)
      /\ (t.back = 0 => q[1] = t.byte)
      /\ (t.back # 0 => \A j \in 1 .. t.count : q[j] = HsByte(d, m - t.back + 1 + ((j - 1) % t.back)))
  <2>1. CASE t.back = 0
    <3>1. q = <<t.byte>>
      BY <2>1
    <3> HIDE DEF q
    <3>2. HsCount(t) = 1
      BY <2>1 DEF HsCount
    <3> QED BY <2>1, <3>1, <3>2
  <2>2. CASE t.back # 0
    <3> DEFINE p == [k \in 1 .. t.count |-> HsByte(d, m - t.back + 1 + ((k - 1) % t.back))]
               c == t.count
    <3>1. ASSUME NEW k \in 1 .. c PROVE HsByte(d, m - t.back + 1 + ((k - 1) % t.back)) \in U8
      <4> DEFINE r == (k - 1) % t.back
                 i == m - t.back + 1 + r
      <4>1. r \in 0 .. t.back - 1
        <5>1. k - 1 \in Int /\ t.back \in Nat \ {0}
          BY <2>2
        <5> DEFINE b == t.back
        <5>2. b \in Nat \ {0}
          BY <5>1
        <5> HIDE DEF b
        <5>3. (k - 1) % b \in 0 .. b - 1
          BY <5>1, <5>2, HsBack
        <5> QED BY <5>3 DEF b
      <4> HIDE DEF r
      <4>2. i \in Int /\ i <= m
        BY <1>1, <4>1
      <4> HIDE DEF i
      <4>3. ASSUME i < 1 PROVE HsByte(d, i) \in U8
        BY <4>3 DEF HsByte, U8
      <4>4. ASSUME ~ (i < 1) PROVE HsByte(d, i) \in U8
        <5>1. i \in 1 .. m
          BY <1>1, <4>2, <4>4
        <5> QED BY <1>1, <4>4, <5>1, Zenon DEF HsByte
      <4>5. HsByte(d, i) \in U8
        BY <4>3, <4>4
      <4> QED BY <4>5 DEF i, r
    <3>2. p \in [1 .. c -> U8]
      BY <3>1
    <3>3. \A j \in 1 .. c : p[j] = HsByte(d, m - t.back + 1 + ((j - 1) % t.back))
      BY Zenon
    <3>4. q = p
      BY <2>2, Zenon DEF m
    <3>5. c \in Nat
      OBVIOUS
    <3> HIDE DEF p
    <3>6. p \in Seq(U8) /\ Len(p) = c
      BY <3>2, <3>5
    <3>7. HsCount(t) = c
      BY <2>2 DEF HsCount
    <3> HIDE DEF q
    <3> QED BY <2>2, <3>3, <3>4, <3>6, <3>7, Zenon
  <2> QED BY <2>1, <2>2
<1> HIDE DEF q
<1>4. /\ d \o q \in Seq(U8) /\ Len(q) \in Nat /\ Len(d \o q) = m + Len(q)
      /\ \A j \in 1 .. Len(q) : (d \o q)[m + j] = q[j]
  <2>1. q \in Seq(U8)
    BY <1>3
  <2> QED BY <2>1, TwoParts
<1>5. Begins(d, d \o q)
  BY <1>3, BeginsConcat
<1>6. t.back = 0 => 1 \in 1 .. Len(q)
  BY <1>3 DEF HsCount
<1>7. t.back # 0 => Len(q) = t.count
  BY <1>3 DEF HsCount
<1> HIDE DEF e, m
<1>8. /\ e \in Seq(U8) /\ Len(e) = m + HsCount(t) /\ Begins(d, e)
      /\ \A j \in 1 .. Len(q) : e[m + j] = q[j]
  BY <1>2, <1>3, <1>4, <1>5, Zenon
<1>9. t.back = 0 => e[m + 1] = t.byte
  BY <1>3, <1>6, <1>8, Zenon
<1>10. t.back # 0 => \A j \in 1 .. t.count : e[m + j] = HsByte(d, m - t.back + 1 + ((j - 1) % t.back))
  BY <1>3, <1>7, <1>8, Zenon
<1> QED BY <1>8, <1>9, <1>10, Zenon DEF e, m

LEMMA HsDataAre ==
    ASSUME NEW s, HsFormat(s)
    PROVE  LET n == Len(s.tokens)
               D == H!Data(s.tokens)
           IN  /\ D \in [0 .. n -> Seq(U8)] /\ D[0] = <<>>
               /\ \A k \in 1 .. n : D[k] = H!Expand(D[k - 1], s.tokens[k])
<1> DEFINE n == Len(s.tokens)
           T == Seq(U8)
           none == <<>>
           more(v, k) == H!Expand(v, s.tokens[k])
           step == [x \in (1 .. n) \X T |-> more(x[2], x[1])]
           Adds(g) == g = [k \in 0 .. n |-> IF k = 0 THEN <<>> ELSE more(g[k - 1], k)]
<1>1. n \in Nat
  BY HsTokens
<1>2. ASSUME NEW k \in 1 .. n, NEW v \in T PROVE more(v, k) \in T
  <2> DEFINE t == s.tokens[k]
  <2>1. t.back \in 0 .. 2 ^ s.window /\ t.byte \in U8 /\ t.count \in 1 .. 2 ^ s.lookahead
    BY HsTokens, Zenon
  <2>2. 2 ^ s.window \in Nat /\ 2 ^ s.lookahead \in Nat
    <3>1. s.window \in 0 .. 19 /\ s.lookahead \in 0 .. 19
      BY DEF HsFormat
    <3> QED BY <3>1, PowersOfTwo
  <2> HIDE DEF t
  <2>3. t.back \in Nat /\ t.count \in Nat \ {0}
    BY <2>1, <2>2
  <2>4. H!Expand(v, t) \in Seq(U8)
    BY <2>1, <2>3, HsExpand, Zenon
  <2> QED BY <2>4 DEF t
<1>4. none \in T
  OBVIOUS
<1>5. H!Data(s.tokens) = CHOOSE g : Adds(g)
  BY DEF H!Data
<1> HIDE DEF T, n, more
<1>6. \A k \in 1 .. n : \A v \in T : step[<<k, v>>] = more(v, k)
  OBVIOUS
<1>7. step \in [(1 .. n) \X T -> T]
  BY <1>2
<1>8. 0 \in 0 .. n
  BY <1>1
<1> HIDE DEF step, none
<1>9. PICK f \in [0 .. n -> T] : Recursion(f, none, step, n)
  BY ONLY <1>1, <1>4, <1>7, RecursionUpTo
<1>10. Adds(f)
  <2>1. f = [k \in 0 .. n |-> IF k = 0 THEN none ELSE step[<<k, f[k - 1]>>]]
    BY <1>9 DEF Recursion
  <2>2. ASSUME NEW k \in 0 .. n, k # 0
        PROVE  step[<<k, f[k - 1]>>] = more(f[k - 1], k)
    <3>1. k \in 1 .. n /\ k - 1 \in 0 .. n
      BY <1>1, <2>2
    <3>2. f[k - 1] \in T
      BY <1>9, <3>1
    <3> QED BY <1>6, <3>1, <3>2
  <2>3. \A k \in 0 .. n : f[k] = IF k = 0 THEN none ELSE more(f[k - 1], k)
    BY <2>1, <2>2
  <2>4. f = [k \in 0 .. n |-> f[k]]
    BY <1>9
  <2> QED BY <2>3, <2>4, Zenon DEF none
<1> HIDE DEF Adds
<1> DEFINE g == H!Data(s.tokens)
<1>11. Adds(g)
  BY <1>5, <1>10
<1> HIDE DEF g
<1>12. /\ g[0] = <<>> /\ DOMAIN g = 0 .. n
       /\ \A k \in 1 .. n : g[k] = more(g[k - 1], k)
  <2>1. g = [k \in 0 .. n |-> IF k = 0 THEN <<>> ELSE more(g[k - 1], k)]
    BY <1>11 DEF Adds
  <2>2. \A k \in 0 .. n : g[k] = IF k = 0 THEN <<>> ELSE more(g[k - 1], k)
    BY <2>1, Zenon
  <2>3. \A k \in 1 .. n : k \in 0 .. n /\ k # 0
    BY <1>1
  <2>4. DOMAIN g = 0 .. n
    BY <2>1, Zenon
  <2> QED BY <1>8, <2>2, <2>3, <2>4, Zenon
<1>13. g = [k \in 0 .. n |-> g[k]]
  <2>1. g = [k \in 0 .. n |-> IF k = 0 THEN <<>> ELSE more(g[k - 1], k)]
    BY <1>11 DEF Adds
  <2> DEFINE h == [k \in 0 .. n |-> IF k = 0 THEN <<>> ELSE more(g[k - 1], k)]
  <2>2. h = [k \in 0 .. n |-> h[k]]
    OBVIOUS
  <2>3. g = h
    BY <2>1
  <2> HIDE DEF h
  <2> QED BY <2>2, <2>3
<1> DEFINE S == {k \in 0 .. n : g[k] \in T}
<1>14. 0 \in S
  BY <1>4, <1>8, <1>12 DEF none
<1>15. ASSUME NEW k \in 0 .. n - 1, k \in S PROVE k + 1 \in S
  <2>1. k + 1 \in 1 .. n /\ (k + 1) - 1 = k /\ k + 1 \in 0 .. n
    BY <1>1
  <2>2. g[k + 1] = more(g[k], k + 1)
    BY <1>12, <2>1
  <2> QED BY <1>2, <1>15, <2>1, <2>2
<1> HIDE DEF S
<1>16. \A k \in 0 .. n : k \in S
  BY ONLY <1>1, <1>14, <1>15, InductionUpTo
<1>17. g \in [0 .. n -> T]
  BY <1>13, <1>16 DEF S
<1> QED BY <1>12, <1>17, Zenon DEF n, g, T, more

HsBits(s, k) == H!TokensBits(s)[k]
HsPos(s, k) == Len(HsBits(s, k))
HsData(s, k) == H!Data(s.tokens)[k]

\* Where the tokens lie in the bits and in the data.
LEMMA HsTape ==
    ASSUME NEW s, HsFormat(s)
    PROVE  LET n == Len(s.tokens)
           IN  /\ n \in Nat /\ HsPos(s, 0) = 0 /\ HsData(s, 0) = <<>>
               /\ \A k \in 0 .. n :
                     /\ HsBits(s, k) \in Seq(Bit) /\ HsPos(s, k) \in Nat
                     /\ HsData(s, k) \in Seq(U8) /\ Len(HsData(s, k)) \in Nat
               /\ \A k \in 1 .. n :
                     /\ HsBits(s, k) = HsBits(s, k - 1) \o H!TokenBits(s, s.tokens[k])
                     /\ HsPos(s, k) = HsPos(s, k - 1) + HsWidth(s, s.tokens[k])
                     /\ HsData(s, k) = H!Expand(HsData(s, k - 1), s.tokens[k])
                     /\ Len(HsData(s, k)) = Len(HsData(s, k - 1)) + HsCount(s.tokens[k])
<1> DEFINE n == Len(s.tokens)
           A == H!TokensBits(s)
           D == H!Data(s.tokens)
           T == Seq(Bit)
           U == Seq(U8)
<1>1. /\ A \in [0 .. n -> T] /\ A[0] = <<>>
      /\ \A k \in 1 .. n : A[k] = A[k - 1] \o H!TokenBits(s, s.tokens[k])
  BY HsBitsAre
<1>2. /\ D \in [0 .. n -> U] /\ D[0] = <<>>
      /\ \A k \in 1 .. n : D[k] = H!Expand(D[k - 1], s.tokens[k])
  BY HsDataAre
<1>3. n \in Nat /\ \A k \in 1 .. n : k - 1 \in 0 .. n
  BY HsTokens
<1> HIDE DEF n, A, D, T, U
<1>4. \A k \in 0 .. n : A[k] \in T /\ D[k] \in U
  BY <1>1, <1>2
<1>5. \A k \in 0 .. n : HsBits(s, k) = A[k] /\ HsData(s, k) = D[k]
  BY DEF HsBits, HsData, A, D
<1>6. \A k \in 0 .. n : HsBits(s, k) \in Seq(Bit) /\ HsData(s, k) \in Seq(U8)
  BY <1>4, <1>5 DEF T, U
<1>7. 0 \in 0 .. n /\ \A k \in 1 .. n : k \in 0 .. n
  BY <1>3
<1>8. ASSUME NEW k \in 1 .. n
      PROVE  /\ HsBits(s, k) = HsBits(s, k - 1) \o H!TokenBits(s, s.tokens[k])
             /\ HsPos(s, k) = HsPos(s, k - 1) + HsWidth(s, s.tokens[k])
             /\ HsData(s, k) = H!Expand(HsData(s, k - 1), s.tokens[k])
             /\ Len(HsData(s, k)) = Len(HsData(s, k - 1)) + HsCount(s.tokens[k])
  <2> DEFINE t == s.tokens[k]
             b == HsBits(s, k - 1)
             c == H!TokenBits(s, t)
             d == HsData(s, k - 1)
  <2>1. t.back \in 0 .. 2 ^ s.window /\ t.byte \in U8 /\ t.count \in 1 .. 2 ^ s.lookahead
    BY HsTokens, Zenon DEF n
  <2>2. 2 ^ s.window \in Nat /\ 2 ^ s.lookahead \in Nat
    <3>1. s.window \in 0 .. 19 /\ s.lookahead \in 0 .. 19
      BY DEF HsFormat
    <3> QED BY <3>1, PowersOfTwo
  <2>3. t.back \in Nat /\ t.count \in Nat \ {0}
    BY <2>1, <2>2
  <2>4. b \in Seq(Bit) /\ d \in Seq(U8) /\ HsBits(s, k) = b \o c /\ HsData(s, k) = H!Expand(d, t)
    BY <1>1, <1>2, <1>3, <1>5, <1>6, <1>7, Zenon
  <2>5. c \in Seq(Bit) /\ Len(c) = HsWidth(s, t)
    <3> HIDE DEF t
    <3> QED BY <2>1, HsTokenBits, Zenon
  <2> HIDE DEF t, b, c, d
  <2>6. Len(b \o c) = Len(b) + Len(c)
    <3>1. b \in Seq(Bit) /\ c \in Seq(Bit)
      BY <2>4, <2>5
    <3> QED BY ONLY <3>1, TwoParts
  <2>7. Len(H!Expand(d, t)) = Len(d) + HsCount(t)
    BY <2>1, <2>3, <2>4, HsExpand, Zenon
  <2> QED BY <2>4, <2>5, <2>6, <2>7, Zenon DEF HsPos, t, b, c, d
<1>9. \A k \in 0 .. n : HsPos(s, k) \in Nat /\ Len(HsData(s, k)) \in Nat
  BY <1>6 DEF HsPos
<1>10. HsPos(s, 0) = 0 /\ HsData(s, 0) = <<>>
  BY <1>1, <1>2, <1>5, <1>7 DEF HsPos
<1> QED BY <1>3, <1>6, <1>8, <1>9, <1>10, Zenon DEF n

LEMMA HsOrder ==
    ASSUME NEW s, HsFormat(s)
    PROVE  \A j \in 0 .. Len(s.tokens), k \in 0 .. Len(s.tokens) :
              /\ j <= k => Begins(HsBits(s, j), HsBits(s, k)) /\ Begins(HsData(s, j), HsData(s, k))
              /\ j < k => HsPos(s, j) < HsPos(s, k) /\ Len(HsData(s, j)) < Len(HsData(s, k))
<1> DEFINE n == Len(s.tokens)
           f == [k \in 0 .. n |-> HsPos(s, k) - k]
           g == [k \in 0 .. n |-> Len(HsData(s, k)) - k]
           a == [k \in 0 .. n |-> HsBits(s, k)]
           b == [k \in 0 .. n |-> HsData(s, k)]
<1>1. /\ n \in Nat
      /\ \A k \in 0 .. n :
            /\ HsBits(s, k) \in Seq(Bit) /\ HsPos(s, k) \in Nat
            /\ HsData(s, k) \in Seq(U8) /\ Len(HsData(s, k)) \in Nat
      /\ \A k \in 1 .. n :
            /\ HsBits(s, k) = HsBits(s, k - 1) \o H!TokenBits(s, s.tokens[k])
            /\ HsPos(s, k) = HsPos(s, k - 1) + HsWidth(s, s.tokens[k])
            /\ HsData(s, k) = H!Expand(HsData(s, k - 1), s.tokens[k])
            /\ Len(HsData(s, k)) = Len(HsData(s, k - 1)) + HsCount(s.tokens[k])
  BY HsTape, Zenon
<1>2. ASSUME NEW k \in 1 .. n
      PROVE  /\ H!TokenBits(s, s.tokens[k]) \in Seq(Bit)
             /\ HsWidth(s, s.tokens[k]) \in Nat /\ HsWidth(s, s.tokens[k]) >= 1
             /\ HsCount(s.tokens[k]) \in Nat /\ HsCount(s.tokens[k]) >= 1
             /\ \A d \in Seq(U8) : Begins(d, H!Expand(d, s.tokens[k]))
  <2> DEFINE t == s.tokens[k]
  <2>1. t.back \in 0 .. 2 ^ s.window /\ t.byte \in U8 /\ t.count \in 1 .. 2 ^ s.lookahead
    BY HsTokens, Zenon
  <2>2. 2 ^ s.window \in Nat /\ 2 ^ s.lookahead \in Nat
    <3>1. s.window \in 0 .. 19 /\ s.lookahead \in 0 .. 19
      BY DEF HsFormat
    <3> QED BY <3>1, PowersOfTwo
  <2> HIDE DEF t, n
  <2>3. t.back \in Nat /\ t.count \in Nat \ {0}
    BY <2>1, <2>2
  <2>4. H!TokenBits(s, t) \in Seq(Bit) /\ HsWidth(s, t) \in Nat /\ HsWidth(s, t) >= 8
    BY <2>1, HsTokenBits, Zenon
  <2>5. HsWidth(s, t) >= 1
    BY <2>4
  <2>6. HsCount(t) \in Nat /\ HsCount(t) >= 1
    BY <2>3 DEF HsCount
  <2>7. ASSUME NEW d \in Seq(U8) PROVE Begins(d, H!Expand(d, t))
    BY <2>1, <2>3, HsExpand, Zenon
  <2> QED BY <2>4, <2>5, <2>6, <2>7 DEF t
<1>3. \A k \in 1 .. n : k - 1 \in 0 .. n /\ k \in 0 .. n
  <2>1. n \in Nat
    BY <1>1
  <2> HIDE DEF n
  <2> QED BY <2>1
<1>4. \A k \in 0 .. n : f[k] \in Int /\ g[k] \in Int
  <2> HIDE DEF n
  <2> QED BY <1>1
<1>5. ASSUME NEW k \in 1 .. n PROVE f[k - 1] <= f[k] /\ g[k - 1] <= g[k]
  <2> DEFINE x == HsPos(s, k - 1)
             y == HsPos(s, k)
             z == Len(HsData(s, k - 1))
             w == Len(HsData(s, k))
             u == HsWidth(s, s.tokens[k])
             v == HsCount(s.tokens[k])
  <2>1. /\ x \in Nat /\ y \in Nat /\ z \in Nat /\ w \in Nat /\ u \in Nat /\ v \in Nat
        /\ u >= 1 /\ v >= 1 /\ y = x + u /\ w = z + v
    BY <1>1, <1>2, <1>3, Zenon
  <2>2. f[k - 1] = x - (k - 1) /\ f[k] = y - k /\ g[k - 1] = z - (k - 1) /\ g[k] = w - k
    BY <1>3
  <2>3. k \in Int
    BY <1>1
  <2> HIDE DEF x, y, z, w, u, v, f, g
  <2> QED BY <2>1, <2>2, <2>3
<1>6. a \in [0 .. n -> Seq(Bit)] /\ b \in [0 .. n -> Seq(U8)]
  BY <1>1
<1>7. ASSUME NEW k \in 1 .. n PROVE Begins(a[k - 1], a[k]) /\ Begins(b[k - 1], b[k])
  <2>1. /\ a[k - 1] = HsBits(s, k - 1) /\ a[k] = HsBits(s, k)
        /\ b[k - 1] = HsData(s, k - 1) /\ b[k] = HsData(s, k)
    BY <1>3
  <2> DEFINE c == HsBits(s, k - 1)
             d == HsData(s, k - 1)
             e == H!TokenBits(s, s.tokens[k])
  <2>2. /\ c \in Seq(Bit) /\ d \in Seq(U8) /\ e \in Seq(Bit) /\ HsBits(s, k) = c \o e
        /\ HsData(s, k) = H!Expand(d, s.tokens[k])
    BY <1>1, <1>2, <1>3, Zenon
  <2>3. Begins(d, HsData(s, k))
    BY <1>2, <2>2, Zenon
  <2> HIDE DEF c, d, e
  <2>4. Begins(c, c \o e)
    BY <2>2, BeginsConcat
  <2> HIDE DEF a, b
  <2> QED BY <2>1, <2>2, <2>3, <2>4, Zenon DEF c, d
<1> HIDE DEF f, g, a, b, n
<1>8. \A j \in 0 .. n, k \in 0 .. n : j <= k => f[j] <= f[k]
  <2>1. n \in Nat /\ (\A k \in 0 .. n : f[k] \in Int) /\ \A k \in 1 .. n : f[k - 1] <= f[k]
    BY <1>1, <1>4, <1>5
  <2> QED BY ONLY <2>1, Ascends
<1>9. \A j \in 0 .. n, k \in 0 .. n : j <= k => g[j] <= g[k]
  <2>1. n \in Nat /\ (\A k \in 0 .. n : g[k] \in Int) /\ \A k \in 1 .. n : g[k - 1] <= g[k]
    BY <1>1, <1>4, <1>5
  <2> QED BY ONLY <2>1, Ascends
<1>10. \A j \in 0 .. n, k \in 0 .. n : j <= k => Begins(a[j], a[k])
  <2>1. n \in Nat /\ \A k \in 1 .. n : Begins(a[k - 1], a[k])
    BY <1>1, <1>7
  <2> QED BY ONLY <1>6, <2>1, BeginsAll
<1>11. \A j \in 0 .. n, k \in 0 .. n : j <= k => Begins(b[j], b[k])
  <2>1. n \in Nat /\ \A k \in 1 .. n : Begins(b[k - 1], b[k])
    BY <1>1, <1>7
  <2> QED BY ONLY <1>6, <2>1, BeginsAll
<1>12. ASSUME NEW j \in 0 .. n, NEW k \in 0 .. n
      PROVE  /\ j <= k => Begins(HsBits(s, j), HsBits(s, k)) /\ Begins(HsData(s, j), HsData(s, k))
             /\ j < k => HsPos(s, j) < HsPos(s, k) /\ Len(HsData(s, j)) < Len(HsData(s, k))
  <2>1. /\ a[j] = HsBits(s, j) /\ a[k] = HsBits(s, k) /\ b[j] = HsData(s, j) /\ b[k] = HsData(s, k)
        /\ f[j] = HsPos(s, j) - j /\ f[k] = HsPos(s, k) - k
        /\ g[j] = Len(HsData(s, j)) - j /\ g[k] = Len(HsData(s, k)) - k
    BY DEF a, b, f, g
  <2>2. j <= k => Begins(HsBits(s, j), HsBits(s, k)) /\ Begins(HsData(s, j), HsData(s, k))
    BY <1>10, <1>11, <2>1, Zenon
  <2> DEFINE x == HsPos(s, j)
             y == HsPos(s, k)
             z == Len(HsData(s, j))
             w == Len(HsData(s, k))
  <2>3. /\ x \in Nat /\ y \in Nat /\ z \in Nat /\ w \in Nat /\ j \in Int /\ k \in Int
        /\ j <= k => f[j] <= f[k] /\ g[j] <= g[k]
        /\ f[j] = x - j /\ f[k] = y - k /\ g[j] = z - j /\ g[k] = w - k
    BY <1>1, <1>8, <1>9, <2>1
  <2> HIDE DEF x, y, z, w
  <2>4. j < k => x < y /\ z < w
    BY <2>3
  <2> QED BY <2>2, <2>4 DEF x, y, z, w
<1> QED BY <1>12 DEF n

HsBit(s, k) ==
    IF k < HsPos(s, Len(s.tokens)) THEN HsBits(s, Len(s.tokens))[k + 1] ELSE 0

\* The bits of a number, the highest first.
HsField(s, p, v, w) == \A j \in 1 .. w : HsBit(s, p + j - 1) = (v \div 2 ^ (w - j)) % 2

HsTokenAt(s, p, t) ==
    IF t.back = 0 THEN HsBit(s, p) = 1 /\ HsField(s, p + 1, t.byte, 8)
    ELSE /\ HsBit(s, p) = 0 /\ HsField(s, p + 1, t.back - 1, s.window)
         /\ HsField(s, p + 1 + s.window, t.count - 1, s.lookahead)

\* Behind the last token the padding looks like the beginning of one more.
HsNext(s, k) ==
    IF k < Len(s.tokens) THEN s.tokens[k + 1] ELSE [back |-> 1, byte |-> 0, count |-> 1]

LEMMA HsFieldOf ==
    ASSUME NEW s, NEW p \in Nat, NEW v \in Nat, NEW w \in 0 .. 19,
           HsBits(s, Len(s.tokens)) \in Seq(Bit),
           Lies(H!Bits(v, w), HsBits(s, Len(s.tokens)), p)
    PROVE  HsField(s, p, v, w)
<1> DEFINE b == HsBits(s, Len(s.tokens))
           q == H!Bits(v, w)
<1>1. Len(q) = w /\ \A j \in 1 .. w : q[j] = (v \div 2 ^ (w - j)) % 2
  BY HsBitsOf
<1>2. p + Len(q) <= Len(b) /\ (\A j \in 1 .. Len(q) : q[j] = b[p + j]) /\ Len(b) \in Nat
  BY DEF Lies
<1> HIDE DEF b, q
<1>3. ASSUME NEW j \in 1 .. w PROVE HsBit(s, p + j - 1) = (v \div 2 ^ (w - j)) % 2
  <2>1. p + j - 1 < Len(b) /\ (p + j - 1) + 1 = p + j
    BY <1>1, <1>2
  <2>2. HsBit(s, p + j - 1) = b[p + j]
    <3>1. HsBit(s, p + j - 1) = b[(p + j - 1) + 1]
      BY <2>1, Zenon DEF HsBit, HsPos, b
    <3> QED BY <2>1, <3>1
  <2> QED BY <1>1, <1>2, <2>2, Zenon
<1> QED BY <1>3 DEF HsField

LEMMA HsReads ==
    ASSUME NEW s, HsFormat(s), NEW k \in 0 .. Len(s.tokens)
    PROVE  HsTokenAt(s, HsPos(s, k), HsNext(s, k))
<1> DEFINE n == Len(s.tokens)
           b == HsBits(s, n)
           p == HsPos(s, k)
<1>0. n \in Nat /\ n \in 0 .. n
  BY HsTokens
<1>1. b \in Seq(Bit) /\ Len(b) \in Nat /\ HsPos(s, n) = Len(b) /\ p \in Nat
  <2>1. \A i \in 0 .. n : HsBits(s, i) \in Seq(Bit) /\ HsPos(s, i) \in Nat
    BY HsTape, Zenon
  <2> QED BY <1>0, <2>1 DEF HsPos
<1>2. s.window \in 4 .. 19 /\ s.lookahead \in 3 .. 18
  BY DEF HsFormat
<1>3. CASE k < n
  <2> DEFINE t == s.tokens[k + 1]
             q == H!TokenBits(s, t)
             c == HsBits(s, k)
             e == HsBits(s, k + 1)
  <2>1. k + 1 \in 1 .. n /\ (k + 1) - 1 = k /\ k + 1 \in 0 .. n /\ k + 1 <= n
    BY <1>0, <1>3
  <2>2. t.back \in 0 .. 2 ^ s.window /\ t.byte \in U8 /\ t.count \in 1 .. 2 ^ s.lookahead
    BY <2>1, HsTokens, Zenon
  <2>3. q \in Seq(Bit)
    <3> HIDE DEF t
    <3> QED BY <2>2, HsTokenBits, Zenon
  <2>4. c \in Seq(Bit) /\ e \in Seq(Bit) /\ e = c \o q
    <3>1. e = HsBits(s, (k + 1) - 1) \o q
      BY <2>1, HsTape, Zenon
    <3>2. c \in Seq(Bit) /\ e \in Seq(Bit)
      BY <2>1, HsTape, Zenon
    <3> QED BY <2>1, <3>1, <3>2, Zenon
  <2>5. Begins(e, b)
    BY <1>0, <2>1, HsOrder, Zenon
  <2> HIDE DEF t, q, c, e, b
  <2>6. Len(e) <= Len(b) /\ \A i \in 1 .. Len(e) : e[i] = b[i]
    <3>1. e \in Seq(Bit) /\ b \in Seq(Bit) /\ Begins(e, b)
      BY <1>1, <2>4, <2>5
    <3> QED BY ONLY <3>1, BeginsPointwise
  <2>7. Lies(q, b, p)
    <3>1. p = Len(c)
      BY DEF HsPos, c
    <3>2. /\ Len(c) \in Nat /\ Len(q) \in Nat /\ Len(e) = Len(c) + Len(q)
          /\ \A j \in 1 .. Len(q) : e[Len(c) + j] = q[j]
      <4>1. /\ Len(c) \in Nat /\ Len(q) \in Nat /\ Len(c \o q) = Len(c) + Len(q)
            /\ \A j \in 1 .. Len(q) : (c \o q)[Len(c) + j] = q[j]
        BY <2>3, <2>4, TwoParts
      <4> QED BY <2>4, <4>1, Zenon
    <3>3. ASSUME NEW j \in 1 .. Len(q) PROVE q[j] = b[p + j]
      <4>1. Len(c) + j \in 1 .. Len(e)
        BY <3>2
      <4> QED BY <2>6, <3>1, <3>2, <4>1, Zenon
    <3>4. p + Len(q) <= Len(b)
      BY <1>1, <2>6, <3>1, <3>2
    <3> QED BY <3>3, <3>4 DEF Lies
  <2> DEFINE one == <<1>>
             zero == <<0>>
  <2>8. one \in Seq(Bit) /\ zero \in Seq(Bit) /\ Len(one) = 1 /\ Len(zero) = 1 /\ one[1] = 1 /\ zero[1] = 0
    BY DEF Bit
  <2>9. ASSUME NEW h \in Seq(Bit), Len(h) = 1, Lies(h, b, p)
        PROVE  HsBit(s, p) = h[1]
    <3>1. p + 1 <= Len(b) /\ h[1] = b[p + 1]
      BY <2>9 DEF Lies
    <3>2. p < HsPos(s, n)
      BY <1>1, <3>1
    <3>3. HsBit(s, p) = b[p + 1]
      BY <3>2, Zenon DEF HsBit, b
    <3> QED BY <3>1, <3>3
  <2> HIDE DEF one, zero, p
  <2>10. ASSUME t.back = 0 PROVE HsTokenAt(s, p, t)
    <3> DEFINE x == H!Bits(t.byte, 8)
    <3>1. q = one \o x
      BY <2>10 DEF q, one, H!TokenBits
    <3>2. t.byte \in Nat /\ 8 \in 0 .. 19
      BY <2>2, Bytes
    <3>3. x \in Seq(Bit)
      BY <3>2, HsBitsOf
    <3> HIDE DEF x
    <3>4. Lies(one, b, p) /\ Lies(x, b, p + 1)
      <4>1. Lies(one \o x, b, p)
        BY <2>7, <3>1
      <4>2. Lies(one, b, p) /\ Lies(x, b, p + Len(one))
        <5>1. one \in Seq(Bit) /\ x \in Seq(Bit) /\ b \in Seq(Bit) /\ p \in Nat
          BY <1>1, <2>8, <3>3
        <5> QED BY ONLY <4>1, <5>1, LiesSplit
      <4> QED BY <2>8, <4>2, Zenon
    <3>5. HsBit(s, p) = 1
      BY <2>8, <2>9, <3>4
    <3>6. HsField(s, p + 1, t.byte, 8)
      <4>1. p + 1 \in Nat /\ b \in Seq(Bit) /\ Lies(H!Bits(t.byte, 8), b, p + 1)
        BY <1>1, <3>4 DEF x
      <4> QED BY <3>2, <4>1, HsFieldOf DEF b, n
    <3> QED BY <2>10, <3>5, <3>6 DEF HsTokenAt
  <2>11. ASSUME t.back # 0 PROVE HsTokenAt(s, p, t)
    <3> DEFINE W == s.window
               L0 == s.lookahead
               bk == t.back - 1
               ct == t.count - 1
               x == H!Bits(bk, W)
               y == H!Bits(ct, L0)
    <3>1. q = zero \o x \o y
      BY <2>11 DEF q, zero, H!TokenBits
    <3>2. bk \in Nat /\ ct \in Nat /\ W \in 0 .. 19 /\ L0 \in 0 .. 19
      <4> DEFINE u == 2 ^ s.window
                 v == 2 ^ s.lookahead
      <4>3. W \in 0 .. 19 /\ L0 \in 0 .. 19
        <5> HIDE DEF W, L0
        <5>1. W \in 4 .. 19 /\ L0 \in 3 .. 18
          BY <1>2 DEF W, L0
        <5> QED BY <5>1
      <4>1. u \in Nat /\ v \in Nat
        BY <4>3, PowersOfTwo
      <4> DEFINE tb == t.back
                 tc == t.count
      <4>2. tb \in 0 .. u /\ tc \in 1 .. v /\ tb # 0
        BY <2>2, <2>11
      <4> HIDE DEF u, v, W, L0, tb, tc
      <4>4. tb - 1 \in Nat /\ tc - 1 \in Nat
        BY <4>1, <4>2
      <4> QED BY <4>3, <4>4 DEF tb, tc
    <3> HIDE DEF bk, ct
    <3>3. x \in Seq(Bit) /\ y \in Seq(Bit) /\ Len(x) = W
      BY <3>2, HsBitsOf
    <3> HIDE DEF x, y
    <3>4. Lies(zero \o x, b, p) /\ Lies(y, b, p + Len(zero \o x)) /\ Len(zero \o x) = 1 + W
      <4> DEFINE z == zero \o x
      <4>1. z \in Seq(Bit) /\ Len(z) = Len(zero) + Len(x)
        <5>1. zero \in Seq(Bit) /\ x \in Seq(Bit)
          BY <2>8, <3>3
        <5> QED BY ONLY <5>1, TwoParts
      <4> HIDE DEF z
      <4>2. z \in Seq(Bit) /\ y \in Seq(Bit) /\ b \in Seq(Bit) /\ p \in Nat /\ Lies(z \o y, b, p)
        BY <1>1, <2>7, <3>1, <3>3, <4>1 DEF z
      <4>3. Lies(z, b, p) /\ Lies(y, b, p + Len(z))
        BY ONLY <4>2, LiesSplit
      <4>4. Len(z) = 1 + W
        BY <2>8, <3>3, <4>1, Zenon
      <4> QED BY <4>3, <4>4 DEF z
    <3>5. Lies(zero, b, p) /\ Lies(x, b, p + 1)
      <4>1. zero \in Seq(Bit) /\ x \in Seq(Bit) /\ b \in Seq(Bit) /\ p \in Nat /\ Lies(zero \o x, b, p)
        BY <1>1, <2>8, <3>3, <3>4
      <4>2. Lies(zero, b, p) /\ Lies(x, b, p + Len(zero))
        BY ONLY <4>1, LiesSplit
      <4> QED BY <2>8, <4>2, Zenon
    <3>6. HsBit(s, p) = 0
      BY <2>8, <2>9, <3>5
    <3>7. HsField(s, p + 1, bk, W)
      <4>1. p + 1 \in Nat /\ b \in Seq(Bit) /\ Lies(H!Bits(bk, W), b, p + 1)
        BY <1>1, <3>5 DEF x
      <4> HIDE DEF W
      <4> QED BY <3>2, <4>1, HsFieldOf DEF b, n
    <3>8. HsField(s, p + 1 + W, ct, L0)
      <4>1. p + 1 + W \in Nat /\ p + (1 + W) = p + 1 + W
        <5>1. p \in Nat /\ W \in 0 .. 19
          BY <1>1, <3>2
        <5> HIDE DEF W
        <5> QED BY ONLY <5>1
      <4>2. Lies(y, b, p + (1 + W))
        BY <3>4, Zenon
      <4>3. Lies(H!Bits(ct, L0), b, p + 1 + W) /\ b \in Seq(Bit)
        BY <1>1, <4>1, <4>2, Zenon DEF y
      <4> HIDE DEF L0, W
      <4> QED BY <3>2, <4>1, <4>3, HsFieldOf DEF b, n
    <3> QED BY <2>11, <3>6, <3>7, <3>8 DEF HsTokenAt, bk, ct
  <2>12. HsNext(s, k) = t
    BY <1>3, Zenon DEF HsNext, t, n
  <2>13. HsTokenAt(s, p, t)
    BY <2>10, <2>11
  <2> QED BY <2>12, <2>13, Zenon DEF p
<1>4. CASE ~ (k < n)
  <2> DEFINE t == [back |-> 1, byte |-> 0, count |-> 1]
  <2>1. k = n /\ HsNext(s, k) = t
    BY <1>0, <1>4 DEF HsNext
  <2>2. t.back # 0 /\ t.back - 1 = 0 /\ t.count - 1 = 0
    OBVIOUS
  <2>3. p = HsPos(s, n)
    BY <2>1
  <2> HIDE DEF p, t
  <2>4. ASSUME NEW i \in Nat, i >= p PROVE HsBit(s, i) = 0
    <3>1. ~ (i < HsPos(s, n))
      BY <1>1, <2>3, <2>4
    <3> QED BY <3>1, Zenon DEF HsBit, n
  <2>5. ASSUME NEW o \in Nat, o >= p, NEW w \in 0 .. 19 PROVE HsField(s, o, 0, w)
    <3>1. ASSUME NEW j \in 1 .. w PROVE HsBit(s, o + j - 1) = (0 \div 2 ^ (w - j)) % 2
      <4>1. o + j - 1 \in Nat /\ o + j - 1 >= p
        BY <1>1, <2>5
      <4>2. HsBit(s, o + j - 1) = 0
        BY <2>4, <4>1
      <4> DEFINE m == 2 ^ (w - j)
      <4>3. m \in Nat /\ m > 0
        <5>1. w - j \in 0 .. 19
          OBVIOUS
        <5> QED BY <5>1, PowersOfTwo
      <4> HIDE DEF m
      <4>4. (0 \div m) % 2 = 0
        <5> DEFINE x == 0 \div m
        <5>1. x \in Int /\ 0 = m * x + (0 % m) /\ 0 <= 0 % m /\ 0 % m < m /\ 0 % m \in Int
          BY <4>3
        <5> DEFINE y == 0 % m
        <5> HIDE DEF x, y
        <5>2. x \in Int /\ y \in Int /\ 0 = m * x + y /\ 0 <= y /\ y < m
          BY <5>1 DEF x, y
        <5>3. x = 0
          <6>1. CASE x >= 1
            <7>1. m * x >= m
              BY <4>3, <5>2, <6>1
            <7> QED BY <4>3, <5>2, <7>1
          <6>2. CASE x <= -1
            <7>1. m * x <= -m
              BY <4>3, <5>2, <6>2
            <7> QED BY <4>3, <5>2, <7>1
          <6> QED BY <5>2, <6>1, <6>2
        <5>4. x % 2 = 0
          BY <5>3
        <5> QED BY <5>4 DEF x
      <4> QED BY <4>2, <4>4 DEF m
    <3> QED BY <3>1 DEF HsField
  <2>6. HsBit(s, p) = 0
    BY <1>1, <2>4
  <2>7. /\ p + 1 \in Nat /\ p + 1 >= p /\ p + 1 + s.window \in Nat /\ p + 1 + s.window >= p
        /\ s.window \in 0 .. 19 /\ s.lookahead \in 0 .. 19
    <3> DEFINE W == s.window
               L0 == s.lookahead
    <3>1. p \in Nat /\ W \in 4 .. 19 /\ L0 \in 3 .. 18
      BY <1>1, <1>2
    <3> HIDE DEF W, L0
    <3>2. /\ p + 1 \in Nat /\ p + 1 >= p /\ p + 1 + W \in Nat /\ p + 1 + W >= p
          /\ W \in 0 .. 19 /\ L0 \in 0 .. 19
      BY ONLY <3>1
    <3> QED BY <3>2 DEF W, L0
  <2>8. HsField(s, p + 1, 0, s.window) /\ HsField(s, p + 1 + s.window, 0, s.lookahead)
    BY <2>5, <2>7
  <2>9. HsTokenAt(s, p, t)
    BY <2>2, <2>6, <2>8, Zenon DEF HsTokenAt
  <2> QED BY <2>1, <2>9, Zenon DEF p
<1> QED BY <1>3, <1>4

-----------------------------------------------------------------------------
(***************************************************************************)
(* What the decoder of heatshrink reads.                                   *)
(***************************************************************************)
HsStream ==
    /\ HsFormat(stream) /\ stream.bits = HsBits(stream, Len(stream.tokens))
    /\ stream.data = HsData(stream, Len(stream.tokens))

LEMMA HsBitAt ==
    ASSUME HsStream
    PROVE  \A k : H!BitAt(k) = HsBit(stream, k)
  BY Zenon DEF HsStream, H!BitAt, HsBit, HsPos

\* The next c bits of a number of w bits of which o have been read.
LEMMA HsGets ==
    ASSUME HsStream, NEW p \in Nat, NEW v \in Nat, NEW w \in 0 .. 19,
           HsField(stream, p, v, w), NEW o \in 0 .. w, NEW c \in 0 .. w - o, hsd.bits = p + o
    PROVE  H!GetBits(c) = (v \div 2 ^ (w - o - c)) - 2 ^ c * (v \div 2 ^ (w - o))
<1> DEFINE H0 == v \div 2 ^ (w - o)
           f == [k \in 0 .. c |-> (v \div 2 ^ (w - o - k)) - 2 ^ k * H0]
           bit(k) == HsBit(stream, p + o + k - 1)
           Adds(g) == g = [k \in 0 .. c |-> IF k = 0 THEN 0 ELSE 2 * g[k - 1] + bit(k)]
           Given(g) == g = [k \in 0 .. c |-> IF k = 0 THEN 0 ELSE 2 * g[k - 1] + H!BitAt(hsd.bits + k - 1)]
<1>1. H!GetBits(c) = (CHOOSE g : Given(g))[c]
  BY DEF H!GetBits
<1>2. \A g : Given(g) <=> Adds(g)
  <2>1. \A k : H!BitAt(hsd.bits + k - 1) = bit(k)
    BY HsBitAt, Zenon
  <2> HIDE DEF bit
  <2> QED BY <2>1, Zenon
<1>0. c \in Nat /\ 0 \in 0 .. c
  OBVIOUS
<1>3. H0 \in Nat
  <2> DEFINE m == 2 ^ (w - o)
  <2>1. m \in Nat /\ m > 0
    <3>1. w - o \in 0 .. 19
      OBVIOUS
    <3> QED BY <3>1, PowersOfTwo
  <2> HIDE DEF m
  <2>2. v \div m \in Nat
    BY <2>1
  <2> QED BY <2>2 DEF m
<1>4. \A k \in 0 .. c : f[k] = (v \div 2 ^ (w - o - k)) - 2 ^ k * H0
  BY Zenon
<1>5. DOMAIN f = 0 .. c /\ f = [k \in 0 .. c |-> f[k]]
  OBVIOUS
<1> HIDE DEF f
<1>6. f[0] = 0
  <2>1. f[0] = (v \div 2 ^ (w - o - 0)) - 2 ^ 0 * H0
    BY <1>0, <1>4, Zenon
  <2>2. w - o - 0 = w - o
    OBVIOUS
  <2>3. f[0] = H0 - 2 ^ 0 * H0
    BY <2>1, <2>2, Zenon
  <2> HIDE DEF H0
  <2>4. 2 ^ 0 = 1
    BY SMT
  <2> QED BY <1>3, <2>3, <2>4
<1>7. ASSUME NEW k \in 1 .. c PROVE f[k] = 2 * f[k - 1] + bit(k) /\ f[k] \in Int
  <2> DEFINE i == w - o - k
             P0 == 2 ^ i
             x == 2 ^ (k - 1)
             y == 2 ^ k
             a == v \div P0
             b == v \div (2 * P0)
  <2>1. i \in 0 .. 18 /\ i \in 0 .. 19 /\ w - o - (k - 1) = i + 1 /\ k - 1 \in 0 .. 18 /\ (k - 1) + 1 = k
        /\ k - 1 \in 0 .. c /\ k \in 0 .. c /\ k - 1 \in 0 .. 19
    BY <1>0
  <2>2. P0 \in Nat /\ P0 > 0 /\ 2 ^ (i + 1) = 2 * P0 /\ x \in Nat /\ y = 2 * x
    <3>1. x \in Nat /\ 2 ^ ((k - 1) + 1) = 2 * x
      BY <2>1, PowersOfTwo
    <3>2. y = 2 * x
      BY <2>1, <3>1, Zenon
    <3> HIDE DEF i
    <3>3. P0 \in Nat /\ P0 > 0 /\ 2 ^ (i + 1) = 2 * P0
      BY <2>1, PowersOfTwo
    <3> QED BY <3>1, <3>2, <3>3, Zenon
  <2>3. a \in Nat /\ b \in Nat /\ a = 2 * b + (a % 2)
    <3> HIDE DEF P0
    <3> QED BY <2>2, HalfQuotient
  <2>4. f[k] = a - y * H0
    BY <1>4, <2>1, Zenon
  <2>5. f[k - 1] = b - x * H0
    <3>1. f[k - 1] = (v \div 2 ^ (w - o - (k - 1))) - x * H0
      BY <1>4, <2>1, Zenon
    <3>2. 2 ^ (w - o - (k - 1)) = 2 * P0
      BY <2>1, <2>2, Zenon
    <3> QED BY <3>1, <3>2, Zenon
  <2>6. bit(k) = a % 2
    <3>1. o + k \in 1 .. w /\ p + (o + k) - 1 = p + o + k - 1 /\ w - (o + k) = i
      BY <1>0
    <3>2. HsBit(stream, p + (o + k) - 1) = (v \div 2 ^ (w - (o + k))) % 2
      BY <3>1 DEF HsField
    <3> QED BY <3>1, <3>2, Zenon
  <2> HIDE DEF a, b, x, y, P0, H0, bit
  <2>7. x * H0 \in Int /\ y * H0 = 2 * (x * H0)
    BY <1>3, <2>2
  <2> DEFINE z == x * H0
             z2 == y * H0
             d == a % 2
  <2>8. z \in Int /\ z2 = 2 * z /\ f[k] = a - z2 /\ f[k - 1] = b - z /\ bit(k) = d /\ a = 2 * b + d
        /\ d \in Int /\ a \in Int /\ b \in Int
    BY <2>3, <2>4, <2>5, <2>6, <2>7
  <2> HIDE DEF z, z2, d
  <2> QED BY ONLY <2>8
<1> HIDE DEF bit
<1>8. Adds(f)
  <2>1. \A k \in 0 .. c : k = 0 \/ k \in 1 .. c
    BY <1>0
  <2>2. \A k \in 0 .. c : f[k] = IF k = 0 THEN 0 ELSE 2 * f[k - 1] + bit(k)
    BY <1>6, <1>7, <2>1, Zenon
  <2> QED BY <1>5, <2>2, Zenon
<1> HIDE DEF Adds, Given
<1>9. \E g : Given(g) /\ H!GetBits(c) = g[c]
  BY <1>1, <1>2, <1>8, Zenon
<1>10. PICK g : Given(g) /\ H!GetBits(c) = g[c]
  BY <1>9
<1>11. Adds(g)
  BY <1>2, <1>10
<1>12. \A k \in 0 .. c : g[k] = IF k = 0 THEN 0 ELSE 2 * g[k - 1] + bit(k)
  BY <1>11, Zenon DEF Adds
<1> DEFINE S == {k \in 0 .. c : g[k] = f[k]}
<1>13. 0 \in S
  BY <1>0, <1>6, <1>12
<1>14. ASSUME NEW k \in 0 .. c - 1, k \in S PROVE k + 1 \in S
  <2>1. k + 1 \in 1 .. c /\ k + 1 \in 0 .. c /\ (k + 1) - 1 = k /\ k + 1 # 0
    BY <1>0
  <2>2. g[k + 1] = 2 * g[k] + bit(k + 1)
    BY <1>12, <2>1, Zenon
  <2>3. f[k + 1] = 2 * f[k] + bit(k + 1)
    BY <1>7, <2>1, Zenon
  <2>4. g[k] = f[k]
    BY <1>14
  <2> QED BY <2>1, <2>2, <2>3, <2>4
<1> HIDE DEF S
<1>15. \A k \in 0 .. c : k \in S
  BY ONLY <1>0, <1>13, <1>14, InductionUpTo
<1>16. g[c] = f[c] /\ c \in 0 .. c
  BY <1>0, <1>15 DEF S
<1> QED BY <1>4, <1>10, <1>16, Zenon

LEMMA HsGetsBit ==
    ASSUME HsStream, hsd.bits \in Nat, NEW b \in {0, 1}, HsBit(stream, hsd.bits) = b
    PROVE  H!GetBits(1) = b
<1> DEFINE w == 1
           z == 0
           p == hsd.bits
<1>1. 2 ^ 0 = 1 /\ 2 ^ 1 = 2
  BY SMT
<1>2. b \in Nat /\ b \div 1 = b /\ (b \div 1) % 2 = b /\ b \div 2 = 0
  <2>1. CASE b = 0
    BY <2>1
  <2>2. CASE b = 1
    BY <2>2
  <2> QED BY <2>1, <2>2
<1>3. HsField(stream, p, b, w)
  <2>1. ASSUME NEW j \in 1 .. w PROVE HsBit(stream, p + j - 1) = (b \div 2 ^ (w - j)) % 2
    <3>1. p + j - 1 = p /\ w - j = 0
      OBVIOUS
    <3>2. 2 ^ (w - j) = 1
      BY <1>1, <3>1, Zenon
    <3> QED BY <1>2, <3>1, <3>2, Zenon
  <2> QED BY <2>1 DEF HsField
<1>4. p \in Nat /\ w \in 0 .. 19 /\ z \in 0 .. w /\ w \in 0 .. w - z /\ hsd.bits = p + z
      /\ w - z - w = 0 /\ w - z = 1
  OBVIOUS
<1>5. w = 1
  OBVIOUS
<1> HIDE DEF w, z, p
<1>6. H!GetBits(w) = (b \div 2 ^ (w - z - w)) - 2 ^ w * (b \div 2 ^ (w - z))
  BY ONLY HsStream, <1>2, <1>3, <1>4, HsGets, ZenonT(60)
<1>7. H!GetBits(1) = (b \div 2 ^ 0) - 2 ^ 1 * (b \div 2 ^ 1)
  BY <1>4, <1>5, <1>6, Zenon
<1>8. H!GetBits(1) = (b \div 1) - 2 * (b \div 2)
  BY <1>1, <1>7, Zenon
<1> QED BY <1>2, <1>8

HsHigh(w) == IF w > 8 THEN w - 8 ELSE 0
HsHighPart(v, w) == IF w > 8 THEN 256 * (v \div 256) ELSE 0

\* The decoder is at a number, of w bits, of which o have been read.
HsReadsField(p, v, w, o) ==
    /\ HsStream /\ p \in Nat /\ v \in Nat /\ w \in 1 .. 19 /\ v < 2 ^ w
    /\ HsField(stream, p, v, w) /\ hsd.bits = p + o

LEMMA HsGetsHigh ==
    ASSUME NEW p, NEW v, NEW w, HsReadsField(p, v, w, 0), w > 8
    PROVE  256 * H!GetBits(w - 8) = HsHighPart(v, w)
<1>0. HsStream /\ p \in Nat /\ v \in Nat /\ w \in 1 .. 19 /\ v < 2 ^ w /\ HsField(stream, p, v, w)
      /\ hsd.bits = p
  BY DEF HsReadsField
<1> DEFINE o == 0
           c == w - 8
<1>1. o \in 0 .. w /\ c \in 0 .. w - o /\ hsd.bits = p + o /\ w \in 0 .. 19 /\ w - o - c = 8 /\ w - o = w
      /\ c \in 0 .. 19 /\ w > 8
  BY <1>0
<1> HIDE DEF o, c
<1>2. H!GetBits(c) = (v \div 2 ^ (w - o - c)) - 2 ^ c * (v \div 2 ^ (w - o))
  BY ONLY <1>0, <1>1, HsGets
<1>3. H!GetBits(c) = (v \div 2 ^ 8) - 2 ^ c * (v \div 2 ^ w)
  BY <1>1, <1>2, Zenon
<1>4. 2 ^ w \in Nat /\ 2 ^ c \in Nat
  BY <1>1, PowersOfTwo
<1>5. v \div 2 ^ w = 0
  BY <1>0, <1>4, SmallQuotient
<1> DEFINE z == 2 ^ c
           y == v \div 256
<1>6. 2 ^ 8 = 256
  BY SMT
<1>7. H!GetBits(c) = y - z * 0
  BY <1>3, <1>5, <1>6, Zenon
<1>8. y \in Nat /\ z \in Nat
  BY <1>0, <1>4
<1>9. HsHighPart(v, w) = 256 * y
  BY <1>1, Zenon DEF HsHighPart
<1> HIDE DEF z, y
<1>10. H!GetBits(c) = y
  BY <1>7, <1>8
<1> QED BY <1>9, <1>10, Zenon DEF c

LEMMA HsGetsLow ==
    ASSUME NEW p, NEW v, NEW w, HsReadsField(p, v, w, HsHigh(w))
    PROVE  HsHighPart(v, w) + H!GetBits(H!Low(w)) = v /\ H!GetBits(H!Low(w)) \in Nat
<1>0. HsStream /\ p \in Nat /\ v \in Nat /\ w \in 1 .. 19 /\ v < 2 ^ w /\ HsField(stream, p, v, w)
      /\ hsd.bits = p + HsHigh(w)
  BY DEF HsReadsField
<1> DEFINE o == HsHigh(w)
           c == H!Low(w)
<1>1. o \in 0 .. w /\ c \in 0 .. w - o /\ w \in 0 .. 19 /\ w - o - c = 0 /\ w - o = c /\ c \in 0 .. 19
      /\ (w > 8 => c = 8) /\ (~ (w > 8) => c = w)
  BY <1>0 DEF HsHigh, H!Low
<1> HIDE DEF o, c
<1>2. hsd.bits = p + o
  BY <1>0 DEF o
<1>3. H!GetBits(c) = (v \div 2 ^ (w - o - c)) - 2 ^ c * (v \div 2 ^ (w - o))
  <2>1. /\ o \in 0 .. w /\ c \in 0 .. w - o /\ w \in 0 .. 19 /\ HsField(stream, p, v, w)
        /\ HsStream /\ p \in Nat /\ v \in Nat
    BY <1>0, <1>1
  <2> QED BY ONLY <1>2, <2>1, HsGets
<1>4. H!GetBits(c) = (v \div 2 ^ 0) - 2 ^ c * (v \div 2 ^ c)
  BY <1>1, <1>3, Zenon
<1>5. 2 ^ 0 = 1 /\ 2 ^ 8 = 256
  BY SMT
<1>6. v \div 1 = v
  BY <1>0
<1>7. H!GetBits(c) = v - 2 ^ c * (v \div 2 ^ c)
  BY <1>4, <1>5, <1>6, Zenon
<1>8. CASE w > 8
  <2> DEFINE y == v \div 256
  <2>1. H!GetBits(c) = v - 256 * y
    BY <1>1, <1>5, <1>7, <1>8, ZenonT(60)
  <2>2. HsHighPart(v, w) = 256 * y
    BY <1>8, Zenon DEF HsHighPart
  <2>3. y \in Nat
    BY <1>0
  <2> HIDE DEF y
  <2>4. HsHighPart(v, w) + H!GetBits(c) = v
    BY <1>0, <2>1, <2>2, <2>3
  <2>5. v - 256 * y >= 0
    BY <1>0 DEF y
  <2>6. H!GetBits(c) \in Nat
    BY <1>0, <2>1, <2>3, <2>5
  <2> QED BY <2>4, <2>6 DEF c
<1>9. CASE ~ (w > 8)
  <2>1. 2 ^ w \in Nat
    BY <1>1, PowersOfTwo
  <2>2. v \div 2 ^ w = 0
    BY <1>0, <2>1, SmallQuotient
  <2> DEFINE x == 2 ^ c
  <2>3. H!GetBits(c) = v - x * 0
    BY <1>1, <1>7, <1>9, <2>2, Zenon
  <2>4. x \in Nat
    BY <1>1, PowersOfTwo
  <2>5. HsHighPart(v, w) = 0
    BY <1>9, Zenon DEF HsHighPart
  <2> HIDE DEF x
  <2>6. HsHighPart(v, w) + H!GetBits(c) = v /\ H!GetBits(c) \in Nat
    BY <1>0, <2>3, <2>4, <2>5
  <2> QED BY <2>6 DEF c
<1> QED BY <1>8, <1>9

-----------------------------------------------------------------------------
(***************************************************************************)
(* Where the decoder is in the stream.                                     *)
(***************************************************************************)
\* k tokens have been delivered, and x bits of the next one have been used up.
HsOn(s, k, h, o, x) == h.bits = HsPos(s, k) + x /\ o = HsData(s, k)

\* A copy is delivered, of which the last bytes are missing.
HsCopies(s, k, h, o) ==
    /\ k < Len(s.tokens) /\ HsNext(s, k).back # 0
    /\ h.bits = HsPos(s, k) + (1 + s.window + s.lookahead)
    /\ h.output_index = HsNext(s, k).back /\ h.output_count \in 1 .. HsNext(s, k).count
    /\ Begins(o, HsData(s, k + 1)) /\ Len(o) = Len(HsData(s, k + 1)) - h.output_count

HsAt(s, k, h, o) ==
    \/ h.state = "tag_bit" /\ HsOn(s, k, h, o, 0)
    \/ h.state = "yield_literal" /\ HsNext(s, k).back = 0 /\ HsOn(s, k, h, o, 1)
    \/ /\ h.state = "backref_index_msb" /\ HsNext(s, k).back # 0
       /\ s.window > 8 /\ HsOn(s, k, h, o, 1)
    \/ /\ h.state = "backref_index_lsb" /\ HsNext(s, k).back # 0
       /\ HsOn(s, k, h, o, 1 + HsHigh(s.window))
       /\ h.output_index = HsHighPart(HsNext(s, k).back - 1, s.window)
    \/ /\ h.state = "backref_count_msb" /\ HsNext(s, k).back # 0
       /\ s.lookahead > 8 /\ HsOn(s, k, h, o, 1 + s.window)
       /\ h.output_index = HsNext(s, k).back
    \/ /\ h.state = "backref_count_lsb" /\ HsNext(s, k).back # 0
       /\ HsOn(s, k, h, o, 1 + s.window + HsHigh(s.lookahead))
       /\ h.output_index = HsNext(s, k).back
       /\ h.output_count = HsHighPart(HsNext(s, k).count - 1, s.lookahead)
    \/ h.state = "yield_backref" /\ HsCopies(s, k, h, o)

HsHolds(s, h, o) ==
    /\ h \in HsDecoders(2 ^ s.window) /\ o \in Seq(U8)
    /\ h.head_index = Len(o) /\ HsWindow(h.buffer, 2 ^ s.window, o)
    /\ \E k \in 0 .. Len(s.tokens) : HsAt(s, k, h, o)

HsAccepts(s) == s.window \in 4 .. 15 /\ s.lookahead \in 3 .. 14 /\ s.lookahead < s.window

\* The decoder works.
HsWorks ==
    /\ HsStream /\ HsAccepts(stream)
    /\ window_sz2 = stream.window /\ lookahead_sz2 = stream.lookahead
    /\ taken \in Nat \ {0} /\ taken <= H!StreamSize
    /\ hsd.bits <= 8 * (taken - 1)
    /\ HsHolds(stream, hsd, out)

\* The next token, and the sizes of its fields.
LEMMA HsNextIs ==
    ASSUME NEW s, HsFormat(s), NEW k \in 0 .. Len(s.tokens)
    PROVE  /\ HsNext(s, k).back \in Nat /\ HsNext(s, k).byte \in U8 /\ HsNext(s, k).count \in Nat \ {0}
           /\ HsNext(s, k).back \in 0 .. 2 ^ s.window /\ HsNext(s, k).count \in 1 .. 2 ^ s.lookahead
           /\ 2 ^ s.window \in Nat /\ 2 ^ s.lookahead \in Nat
           /\ HsPos(s, k) \in Nat /\ HsData(s, k) \in Seq(U8)
           /\ s.window \in 4 .. 19 /\ s.lookahead \in 3 .. 18
<1> DEFINE t == HsNext(s, k)
           W == 2 ^ s.window
           N == 2 ^ s.lookahead
           n == Len(s.tokens)
<1>1. s.window \in 4 .. 19 /\ s.lookahead \in 3 .. 18
  BY DEF HsFormat
<1>2. W \in Nat /\ W > 0 /\ N \in Nat /\ N > 0
  <2>1. s.window \in 0 .. 19 /\ s.lookahead \in 0 .. 19
    BY <1>1
  <2> QED BY <2>1, PowersOfTwo
<1>3. HsPos(s, k) \in Nat /\ HsData(s, k) \in Seq(U8)
  BY HsTape, Zenon
<1>4. n \in Nat
  BY HsTokens
<1>5. t.back \in 0 .. W /\ t.byte \in U8 /\ t.count \in 1 .. N
  <2>1. CASE k < n
    <3>1. k + 1 \in 1 .. n
      <4> HIDE DEF n
      <4> QED BY <1>4, <2>1 DEF n
    <3>2. t = s.tokens[k + 1]
      BY <2>1, Zenon DEF HsNext
    <3> HIDE DEF t
    <3> QED BY <3>1, <3>2, HsTokens, Zenon
  <2>2. CASE ~ (k < n)
    <3>1. t = [back |-> 1, byte |-> 0, count |-> 1]
      BY <2>2, Zenon DEF HsNext
    <3> HIDE DEF t
    <3>2. t.back = 1 /\ t.byte = 0 /\ t.count = 1
      BY <3>1
    <3>3. 0 \in U8
      BY DEF U8
    <3> HIDE DEF W, N
    <3>4. 1 \in 0 .. W /\ 1 \in 1 .. N
      BY <1>2
    <3> QED BY <3>2, <3>3, <3>4, Zenon
  <2> QED BY <2>1, <2>2
<1> DEFINE x == t.back
           y == t.count
<1>6. x \in 0 .. W /\ y \in 1 .. N
  BY <1>5
<1> HIDE DEF x, y, W, N
<1>7. x \in Nat /\ y \in Nat \ {0}
  BY <1>2, <1>6
<1> QED BY <1>1, <1>2, <1>3, <1>5, <1>7, Zenon DEF x, y, W, N

\* Bits that only change the decoder leave its window alone.
LEMMA HsHoldsOn ==
    ASSUME NEW s, NEW h, NEW o, HsHolds(s, h, o), NEW g \in HsDecoders(2 ^ s.window),
           g.head_index = h.head_index, g.buffer = h.buffer,
           NEW k \in 0 .. Len(s.tokens), HsAt(s, k, g, o)
    PROVE  HsHolds(s, g, o)
  BY Zenon DEF HsHolds

LEMMA HsUsed ==
    ASSUME NEW W, hsd \in HsDecoders(W), NEW c \in Nat, NEW u, u = H!Used(c)
    PROVE  /\ u \in HsDecoders(W) /\ u.bits = hsd.bits + c /\ u.state = hsd.state
           /\ u.output_index = hsd.output_index /\ u.output_count = hsd.output_count
           /\ u.head_index = hsd.head_index /\ u.buffer = hsd.buffer
  BY DEF HsDecoders, H!Used

LEMMA HsTagBit ==
    ASSUME HsWorks, hsd.state = "tag_bit", NEW g, g = H!Tagged(H!GetBits(1))
    PROVE  HsHolds(stream, g, out) /\ g.bits = hsd.bits + 1
<1> DEFINE W == 2 ^ stream.window
           n == Len(stream.tokens)
<1>1. hsd \in HsDecoders(W) /\ HsFormat(stream) /\ HsStream /\ window_sz2 = stream.window
  BY DEF HsWorks, HsStream, HsHolds
<1>2. PICK k \in 0 .. n : HsAt(stream, k, hsd, out)
  BY DEF HsWorks, HsHolds
<1>3. HsOn(stream, k, hsd, out, 0)
  BY <1>2 DEF HsAt
<1> DEFINE t == HsNext(stream, k)
           p == HsPos(stream, k)
<1>4. t.back \in Nat /\ p \in Nat /\ stream.window \in 4 .. 19 /\ stream.lookahead \in 3 .. 18
  BY <1>1, HsNextIs, Zenon
<1>5. HsTokenAt(stream, p, t)
  BY <1>1, HsReads, Zenon
<1>6. hsd.bits = p + 0 /\ hsd.bits = p /\ out = HsData(stream, k) /\ hsd.bits \in Nat
  BY <1>3, <1>4 DEF HsOn
<1> DEFINE u == H!Used(1)
<1>7. /\ u \in HsDecoders(W) /\ u.bits = hsd.bits + 1 /\ u.state = hsd.state
      /\ u.output_index = hsd.output_index /\ u.output_count = hsd.output_count
      /\ u.head_index = hsd.head_index /\ u.buffer = hsd.buffer
  <2> DEFINE c == 1
             v == H!Used(c)
  <2>1. c \in Nat /\ v = H!Used(c)
    OBVIOUS
  <2> HIDE DEF c
  <2>2. /\ v \in HsDecoders(W) /\ v.bits = hsd.bits + c /\ v.state = hsd.state
        /\ v.output_index = hsd.output_index /\ v.output_count = hsd.output_count
        /\ v.head_index = hsd.head_index /\ v.buffer = hsd.buffer
    BY <1>1, <2>1, HsUsed
  <2> QED BY <2>2 DEF c
<1> HIDE DEF W, u, t, p, n
<1>8. CASE t.back = 0
  <2>1. H!GetBits(1) = 1
    <3>1. HsBit(stream, hsd.bits) = 1
      BY <1>5, <1>6, <1>8, Zenon DEF HsTokenAt
    <3> DEFINE b == 1
    <3>2. b \in {0, 1} /\ HsBit(stream, hsd.bits) = b
      BY <3>1
    <3> HIDE DEF b
    <3>3. H!GetBits(1) = b
      BY <1>1, <1>6, <3>2, HsGetsBit
    <3> QED BY <3>3 DEF b
  <2>2. g = [u EXCEPT !.state = "yield_literal"]
    BY <2>1, Zenon DEF H!Tagged, u
  <2>3. g \in HsDecoders(W) /\ g.state = "yield_literal" /\ g.bits = u.bits /\ g.head_index = u.head_index
        /\ g.buffer = u.buffer
    <3> DEFINE st == "yield_literal"
    <3>1. st \in HsStates /\ u \in HsDecoders(W)
      BY <1>7 DEF HsStates
    <3> HIDE DEF st
    <3>2. g = HsWithState(u, st)
      BY <2>2, Zenon DEF HsWithState, st
    <3>3. HsLike(W, u, HsWithState(u, st), st)
      BY ONLY <3>1, HsSetState
    <3>4. HsLike(W, u, g, st)
      BY <3>2, <3>3, Zenon
    <3> QED BY <3>4 DEF HsLike, st
  <2>4. HsOn(stream, k, g, out, 1)
    BY <1>6, <1>7, <2>3 DEF HsOn, p
  <2>5. HsAt(stream, k, g, out)
    BY <1>8, <2>3, <2>4, Zenon DEF HsAt, t
  <2> QED BY <1>7, <2>3, <2>5, HsHoldsOn, Zenon DEF HsWorks, W, n
<1>9. CASE t.back # 0
  <2>1. H!GetBits(1) = 0
    <3>1. HsBit(stream, hsd.bits) = 0
      BY <1>5, <1>6, <1>9, Zenon DEF HsTokenAt
    <3> DEFINE b == 0
    <3>2. b \in {0, 1} /\ HsBit(stream, hsd.bits) = b
      BY <3>1
    <3> HIDE DEF b
    <3>3. H!GetBits(1) = b
      BY <1>1, <1>6, <3>2, HsGetsBit
    <3> QED BY <3>3 DEF b
  <2>2. H!GetBits(1) # 1
    BY <2>1
  <2>3. CASE stream.window > 8
    <3>1. g = [u EXCEPT !.state = "backref_index_msb"]
      BY <1>1, <2>2, <2>3, Zenon DEF H!Tagged, u
    <3>2. g \in HsDecoders(W) /\ g.state = "backref_index_msb" /\ g.bits = u.bits
          /\ g.head_index = u.head_index /\ g.buffer = u.buffer
      <4> DEFINE st == "backref_index_msb"
      <4>1. st \in HsStates /\ u \in HsDecoders(W)
        BY <1>7 DEF HsStates
      <4> HIDE DEF st
      <4>2. g = HsWithState(u, st)
        BY <3>1, Zenon DEF HsWithState, st
      <4>3. HsLike(W, u, HsWithState(u, st), st)
        BY ONLY <4>1, HsSetState
      <4>4. HsLike(W, u, g, st)
        BY <4>2, <4>3, Zenon
      <4> QED BY <4>4 DEF HsLike, st
    <3>3. HsOn(stream, k, g, out, 1)
      BY <1>6, <1>7, <3>2 DEF HsOn, p
    <3>4. HsAt(stream, k, g, out)
      BY <1>9, <2>3, <3>2, <3>3, Zenon DEF HsAt, t
    <3> QED BY <1>7, <3>2, <3>4, HsHoldsOn, Zenon DEF HsWorks, W, n
  <2>4. CASE ~ (stream.window > 8)
    <3>1. g = [u EXCEPT !.state = "backref_index_lsb", !.output_index = 0]
      BY <1>1, <2>2, <2>4, Zenon DEF H!Tagged, u
    <3>2. g \in HsDecoders(W) /\ g.state = "backref_index_lsb" /\ g.bits = u.bits
          /\ g.head_index = u.head_index /\ g.buffer = u.buffer /\ g.output_index = 0
      <4> DEFINE st == "backref_index_lsb"
                 z == 0
      <4>1. st \in HsStates /\ u \in HsDecoders(W) /\ z \in Nat
        BY <1>7 DEF HsStates
      <4> HIDE DEF st, z
      <4>2. g = HsWithIndex(u, st, z)
        BY <3>1, Zenon DEF HsWithIndex, st, z
      <4> DEFINE f == HsWithIndex(u, st, z)
      <4>3. HsLike(W, u, f, st) /\ f.output_index = z
        BY ONLY <4>1, HsSetIndex
      <4>4. HsLike(W, u, g, st) /\ g.output_index = z
        BY <4>2, <4>3, Zenon
      <4> QED BY <4>4 DEF HsLike, st, z
    <3>3. HsOn(stream, k, g, out, 1 + HsHigh(stream.window))
      <4>1. HsHigh(stream.window) = 0 /\ 1 + 0 = 1
        BY <2>4 DEF HsHigh
      <4>2. HsOn(stream, k, g, out, 1)
        BY <1>6, <1>7, <3>2 DEF HsOn, p
      <4> QED BY <4>1, <4>2
    <3>4. g.output_index = HsHighPart(t.back - 1, stream.window)
      BY <2>4, <3>2, Zenon DEF HsHighPart
    <3>5. HsAt(stream, k, g, out)
      BY <1>9, <3>2, <3>3, <3>4, Zenon DEF HsAt, t
    <3> QED BY <1>7, <3>2, <3>5, HsHoldsOn, Zenon DEF HsWorks, W, n
  <2> QED BY <2>3, <2>4
<1> QED BY <1>8, <1>9

\* After c more bits of the token.
LEMMA HsUsedOn ==
    ASSUME HsWorks, NEW k \in 0 .. Len(stream.tokens), NEW x \in Nat, HsOn(stream, k, hsd, out, x),
           NEW c \in Nat, NEW st, NEW g, HsLike(2 ^ stream.window, H!Used(c), g, st)
    PROVE  HsOn(stream, k, g, out, x + c) /\ g.bits = hsd.bits + c
<1> DEFINE W == 2 ^ stream.window
           u == H!Used(c)
           p == HsPos(stream, k)
           y == x + c
<1>1. hsd \in HsDecoders(W) /\ HsFormat(stream)
  BY DEF HsWorks, HsStream, HsHolds
<1> HIDE DEF W, u
<1>2. u.bits = hsd.bits + c
  BY <1>1, HsUsed DEF u
<1>3. g.bits = u.bits
  BY DEF HsLike, u
<1>4. p \in Nat
  BY <1>1, HsNextIs, Zenon
<1>5. hsd.bits = p + x /\ out = HsData(stream, k)
  BY DEF HsOn
<1> HIDE DEF p
<1>6. g.bits = p + (x + c)
  BY <1>2, <1>3, <1>4, <1>5
<1>7. g.bits = p + y
  BY <1>6
<1> HIDE DEF y
<1>8. HsOn(stream, k, g, out, y)
  BY <1>5, <1>7, Zenon DEF HsOn, p
<1> QED BY <1>2, <1>3, <1>8, Zenon DEF y

LEMMA HsUsedHolds ==
    ASSUME HsWorks, NEW k \in 0 .. Len(stream.tokens),
           NEW c \in Nat, NEW st, NEW g, HsLike(2 ^ stream.window, H!Used(c), g, st),
           HsAt(stream, k, g, out)
    PROVE  HsHolds(stream, g, out)
<1> DEFINE W == 2 ^ stream.window
           u == H!Used(c)
<1>1. hsd \in HsDecoders(W) /\ HsHolds(stream, hsd, out)
  BY DEF HsWorks, HsHolds
<1> HIDE DEF W, u
<1>2. u.head_index = hsd.head_index /\ u.buffer = hsd.buffer
  BY <1>1, HsUsed DEF u
<1>3. g \in HsDecoders(W) /\ g.head_index = u.head_index /\ g.buffer = u.buffer
  BY DEF HsLike, W, u
<1> QED BY <1>1, <1>2, <1>3, HsHoldsOn, Zenon DEF W

\* What is known when a field of a copy is read.
LEMMA HsInCopy ==
    ASSUME HsWorks, NEW k \in 0 .. Len(stream.tokens), HsNext(stream, k).back # 0
    PROVE  /\ HsStream /\ HsFormat(stream)
           /\ hsd \in HsDecoders(2 ^ stream.window)
           /\ window_sz2 = stream.window /\ lookahead_sz2 = stream.lookahead
           /\ stream.window \in 4 .. 19 /\ stream.lookahead \in 3 .. 18
           /\ HsNext(stream, k).back - 1 \in Nat /\ HsNext(stream, k).count - 1 \in Nat
           /\ HsNext(stream, k).back \in Nat /\ HsNext(stream, k).count \in Nat
           /\ HsNext(stream, k).back - 1 < 2 ^ stream.window
           /\ HsNext(stream, k).count - 1 < 2 ^ stream.lookahead
           /\ HsPos(stream, k) \in Nat
           /\ HsField(stream, HsPos(stream, k) + 1, HsNext(stream, k).back - 1, stream.window)
           /\ HsField(stream, HsPos(stream, k) + 1 + stream.window, HsNext(stream, k).count - 1,
                      stream.lookahead)
<1>1. /\ HsStream /\ HsFormat(stream) /\ hsd \in HsDecoders(2 ^ stream.window)
      /\ window_sz2 = stream.window /\ lookahead_sz2 = stream.lookahead
  BY DEF HsWorks, HsStream, HsHolds
<1> DEFINE t == HsNext(stream, k)
           W == 2 ^ stream.window
           N == 2 ^ stream.lookahead
           p == HsPos(stream, k)
           b == t.back
           c == t.count
<1>2. /\ b \in 0 .. W /\ c \in 1 .. N /\ W \in Nat /\ N \in Nat /\ p \in Nat
      /\ stream.window \in 4 .. 19 /\ stream.lookahead \in 3 .. 18
  BY <1>1, HsNextIs, Zenon
<1>3. HsTokenAt(stream, p, t)
  BY <1>1, HsReads, Zenon
<1>4. b # 0
  OBVIOUS
<1> HIDE DEF t, W, N, p
<1>5. HsField(stream, p + 1, t.back - 1, stream.window)
      /\ HsField(stream, p + 1 + stream.window, t.count - 1, stream.lookahead)
  BY <1>3, <1>4, Zenon DEF HsTokenAt
<1> HIDE DEF b, c
<1>6. b - 1 \in Nat /\ c - 1 \in Nat /\ b - 1 < W /\ c - 1 < N /\ b \in Nat /\ c \in Nat
  BY <1>2, <1>4
<1> QED BY <1>1, <1>2, <1>5, <1>6, Zenon DEF t, W, N, p, b, c

LEMMA HsIndexMsb ==
    ASSUME HsWorks, hsd.state = "backref_index_msb", NEW c, c = window_sz2 - 8, NEW g,
           g = [H!Used(c) EXCEPT !.state = "backref_index_lsb", !.output_index = 256 * H!GetBits(c)]
    PROVE  HsHolds(stream, g, out) /\ g.bits = hsd.bits + c /\ c \in Nat
<1> DEFINE W == 2 ^ stream.window
           w == stream.window
           u == H!Used(c)
           st == "backref_index_lsb"
           n == Len(stream.tokens)
<1>2. PICK k \in 0 .. n : HsAt(stream, k, hsd, out)
  BY DEF HsWorks, HsHolds
<1> DEFINE p == HsPos(stream, k)
           v == HsNext(stream, k).back - 1
           x == 256 * H!GetBits(c)
<1>3. HsNext(stream, k).back # 0 /\ w > 8 /\ HsOn(stream, k, hsd, out, 1)
  BY <1>2 DEF HsAt
<1>4. /\ HsStream /\ hsd \in HsDecoders(W) /\ window_sz2 = w /\ w \in 4 .. 19
      /\ v \in Nat /\ v < W /\ p \in Nat /\ HsField(stream, p + 1, v, w)
  BY <1>3, HsInCopy, Zenon
<1>5. hsd.bits = p + 1
  BY <1>3 DEF HsOn
<1> HIDE DEF W, w, u, st, n, p, v
<1>6. c \in Nat /\ c = w - 8 /\ w \in 9 .. 19 /\ 1 + c = 1 + HsHigh(w) /\ p + 1 \in Nat /\ 1 \in Nat
  BY <1>3, <1>4 DEF HsHigh
<1>7. x = HsHighPart(v, w)
  <2>1. v < 2 ^ w
    BY <1>4 DEF W, w
  <2> DEFINE q == p + 1
  <2>2. q \in Nat /\ hsd.bits = q /\ HsField(stream, q, v, w)
    BY <1>4, <1>5, <1>6
  <2>3. /\ HsStream /\ v \in Nat /\ w \in 1 .. 19 /\ q \in Nat /\ v < 2 ^ w /\ HsField(stream, q, v, w)
        /\ hsd.bits = q + 0 /\ w > 8
    BY <1>4, <1>6, <2>1, <2>2
  <2> HIDE DEF q
  <2>4. HsReadsField(q, v, w, 0)
    BY <2>3, Zenon DEF HsReadsField
  <2>5. 256 * H!GetBits(w - 8) = HsHighPart(v, w)
    BY ONLY <2>3, <2>4, HsGetsHigh, ZenonT(60)
  <2> QED BY <1>6, <2>5, Zenon
<1>8. x \in Nat
  <2>1. HsHighPart(v, w) \in Nat
    <3> DEFINE y == v \div 256
    <3>1. y \in Nat
      BY <1>4
    <3> HIDE DEF y
    <3>2. 256 * y \in Nat
      BY <3>1
    <3> QED BY <1>3, <3>2, Zenon DEF HsHighPart, y, w
  <2> QED BY <1>7, <2>1, Zenon
<1>9. u \in HsDecoders(W) /\ st \in HsStates
  BY <1>4, <1>6, HsUsed DEF u, st, HsStates
<1> HIDE DEF x
<1>10. g = HsWithIndex(u, st, x)
  BY Zenon DEF HsWithIndex, u, st, x
<1>11. HsLike(W, u, g, st) /\ g.output_index = x
  <2> DEFINE f == HsWithIndex(u, st, x)
  <2>1. HsLike(W, u, f, st) /\ f.output_index = x
    BY ONLY <1>8, <1>9, HsSetIndex
  <2> QED BY <1>10, <2>1, Zenon
<1>12. HsOn(stream, k, g, out, 1 + c) /\ g.bits = hsd.bits + c
  <2> DEFINE one == 1
  <2>1. one \in Nat /\ HsOn(stream, k, hsd, out, one) /\ k \in 0 .. Len(stream.tokens)
    BY <1>3 DEF n
  <2>2. HsLike(2 ^ stream.window, H!Used(c), g, st)
    BY <1>11, Zenon DEF u, W
  <2> HIDE DEF one
  <2>3. HsOn(stream, k, g, out, one + c) /\ g.bits = hsd.bits + c
    <3>1. one \in Nat
      BY <2>1
    <3>2. c \in Nat
      BY <1>6
    <3>3. k \in 0 .. Len(stream.tokens)
      BY <2>1
    <3>4. HsOn(stream, k, hsd, out, one)
      BY <2>1
    <3> QED BY ONLY HsWorks, <2>2, <3>1, <3>2, <3>3, <3>4, HsUsedOn, Zenon
  <2> QED BY <2>3, Zenon DEF one
<1>13. HsAt(stream, k, g, out)
  <2>1. HsOn(stream, k, g, out, 1 + HsHigh(w))
    BY <1>6, <1>12, Zenon
  <2>2. g.state = "backref_index_lsb"
    BY <1>11, Zenon DEF HsLike, st
  <2> QED BY <1>3, <1>7, <1>11, <2>1, <2>2, Zenon DEF HsAt, v, w
<1>14. HsHolds(stream, g, out)
  BY <1>6, <1>11, <1>13, HsUsedHolds, ZenonT(60) DEF u, W, n
<1> QED BY <1>6, <1>12, <1>14

LEMMA HsIndexLsb ==
    ASSUME HsWorks, hsd.state = "backref_index_lsb", NEW c, c = H!Low(window_sz2), NEW g, NEW st,
           st = (IF lookahead_sz2 > 8 THEN "backref_count_msb" ELSE "backref_count_lsb"),
           g = [H!Used(c) EXCEPT !.state = st, !.output_index = @ + H!GetBits(c) + 1, !.output_count = 0]
    PROVE  HsHolds(stream, g, out) /\ g.bits = hsd.bits + c /\ c \in Nat
<1> DEFINE W == 2 ^ stream.window
           w == stream.window
           l == stream.lookahead
           u == H!Used(c)
           n == Len(stream.tokens)
<1>2. PICK k \in 0 .. n : HsAt(stream, k, hsd, out)
  BY DEF HsWorks, HsHolds
<1> DEFINE p == HsPos(stream, k)
           b == HsNext(stream, k).back
           v == HsNext(stream, k).back - 1
           x == H!GetBits(c)
           z == 0
<1>3. /\ b # 0 /\ HsOn(stream, k, hsd, out, 1 + HsHigh(w))
      /\ hsd.output_index = HsHighPart(v, w)
  BY <1>2 DEF HsAt
<1>4. /\ HsStream /\ hsd \in HsDecoders(W) /\ window_sz2 = w /\ w \in 4 .. 19
      /\ lookahead_sz2 = l /\ b \in Nat
      /\ v \in Nat /\ v < W /\ p \in Nat /\ HsField(stream, p + 1, v, w)
  BY <1>3, HsInCopy, Zenon
<1>5. hsd.bits = p + (1 + HsHigh(w)) /\ v + 1 = b
  BY <1>3, <1>4 DEF HsOn
<1> HIDE DEF W, w, l, u, n, p, v, b
<1>6. /\ c \in Nat /\ c = H!Low(w) /\ w \in 1 .. 19 /\ p + 1 \in Nat /\ HsHigh(w) \in Nat
      /\ (1 + HsHigh(w)) + c = 1 + w /\ 1 + HsHigh(w) \in Nat
  BY <1>4 DEF HsHigh, H!Low
<1>7. HsHighPart(v, w) + x = v /\ x \in Nat
  <2>1. v < 2 ^ w
    BY <1>4 DEF W, w
  <2> DEFINE q == p + 1
  <2>2. q \in Nat /\ hsd.bits = q + HsHigh(w) /\ HsField(stream, q, v, w)
    BY <1>4, <1>5, <1>6
  <2>3. /\ HsStream /\ v \in Nat /\ w \in 1 .. 19 /\ q \in Nat /\ v < 2 ^ w /\ HsField(stream, q, v, w)
        /\ hsd.bits = q + HsHigh(w)
    BY <1>4, <1>6, <2>1, <2>2
  <2> HIDE DEF q
  <2>4. HsReadsField(q, v, w, HsHigh(w))
    BY <2>3, Zenon DEF HsReadsField
  <2>5. HsHighPart(v, w) + H!GetBits(H!Low(w)) = v /\ H!GetBits(H!Low(w)) \in Nat
    BY ONLY <2>4, HsGetsLow, Zenon
  <2> QED BY <1>6, <2>5, Zenon
<1>9. u \in HsDecoders(W) /\ st \in HsStates /\ z \in Nat /\ u.output_index = hsd.output_index
  <2>1. st \in HsStates
    BY Zenon DEF HsStates
  <2>2. u \in HsDecoders(W) /\ u.output_index = hsd.output_index
    BY <1>4, <1>6, HsUsed DEF u
  <2> QED BY <2>1, <2>2
<1> HIDE DEF x, z
<1>10. g = HsWithIndexMore(u, st, x, z)
  BY Zenon DEF HsWithIndexMore, u, x, z
<1>11. HsLike(W, u, g, st) /\ g.output_index = b
  <2> DEFINE f == HsWithIndexMore(u, st, x, z)
  <2>1. HsLike(W, u, f, st) /\ f.output_index = u.output_index + x + 1
    BY ONLY <1>7, <1>9, HsSetIndexMore
  <2>2. hsd.output_index + x + 1 = b
    <3> DEFINE y == hsd.output_index
    <3>1. y + x = v
      BY <1>3, <1>7
    <3>2. y \in Nat
      BY <1>4 DEF HsDecoders
    <3> HIDE DEF y
    <3>3. y + x + 1 = b
      BY <1>4, <1>5, <1>7, <3>1, <3>2
    <3> QED BY <3>3 DEF y
  <2> QED BY <1>9, <1>10, <2>1, <2>2, Zenon
<1>12. HsOn(stream, k, g, out, 1 + w) /\ g.bits = hsd.bits + c
  <2> DEFINE one == 1 + HsHigh(w)
  <2>1. one \in Nat /\ HsOn(stream, k, hsd, out, one) /\ k \in 0 .. Len(stream.tokens)
    BY <1>3, <1>6 DEF n
  <2>2. HsLike(2 ^ stream.window, H!Used(c), g, st)
    BY <1>11, Zenon DEF u, W
  <2> HIDE DEF one
  <2>3. HsOn(stream, k, g, out, one + c) /\ g.bits = hsd.bits + c
    <3>1. one \in Nat
      BY <2>1
    <3>2. c \in Nat
      BY <1>6
    <3>3. k \in 0 .. Len(stream.tokens)
      BY <2>1
    <3>4. HsOn(stream, k, hsd, out, one)
      BY <2>1
    <3> QED BY ONLY HsWorks, <2>2, <3>1, <3>2, <3>3, <3>4, HsUsedOn, Zenon
  <2> QED BY <1>6, <2>3, Zenon DEF one
<1>13. HsAt(stream, k, g, out)
  <2>1. g.state = st
    BY <1>11, Zenon DEF HsLike
  <2>2. CASE l > 8
    <3>1. st = "backref_count_msb"
      BY <1>4, <2>2, Zenon
    <3> QED BY <1>3, <1>11, <1>12, <2>1, <2>2, <3>1, Zenon DEF HsAt, b, w, l
  <2>3. CASE ~ (l > 8)
    <3>1. st = "backref_count_lsb"
      BY <1>4, <2>3, Zenon
    <3>2. HsHigh(l) = 0 /\ HsHighPart(HsNext(stream, k).count - 1, l) = 0
      BY <2>3, Zenon DEF HsHigh, HsHighPart
    <3>3. HsOn(stream, k, g, out, 1 + w + HsHigh(l))
      <4>1. 1 + w + 0 = 1 + w
        BY <1>4
      <4> QED BY <1>12, <3>2, <4>1, Zenon
    <3>4. g.output_count = 0
      <4> DEFINE f == HsWithIndexMore(u, st, x, z)
      <4>1. f.output_count = z
        BY ONLY <1>7, <1>9, HsSetIndexMore
      <4> QED BY <1>10, <4>1, Zenon DEF z
    <3> QED BY <1>3, <1>11, <2>1, <3>1, <3>2, <3>3, <3>4, Zenon DEF HsAt, b, w, l
  <2> QED BY <2>2, <2>3
<1>14. HsHolds(stream, g, out)
  BY <1>6, <1>11, <1>13, HsUsedHolds, Zenon DEF u, W, n
<1> QED BY <1>6, <1>12, <1>14

LEMMA HsCountMsb ==
    ASSUME HsWorks, hsd.state = "backref_count_msb", NEW c, c = lookahead_sz2 - 8, NEW g,
           g = [H!Used(c) EXCEPT !.state = "backref_count_lsb", !.output_count = 256 * H!GetBits(c)]
    PROVE  HsHolds(stream, g, out) /\ g.bits = hsd.bits + c /\ c \in Nat
<1> DEFINE W == 2 ^ stream.window
           w == stream.window
           l == stream.lookahead
           u == H!Used(c)
           st == "backref_count_lsb"
           n == Len(stream.tokens)
<1>2. PICK k \in 0 .. n : HsAt(stream, k, hsd, out)
  BY DEF HsWorks, HsHolds
<1> DEFINE p == HsPos(stream, k)
           v == HsNext(stream, k).count - 1
           x == 256 * H!GetBits(c)
<1>3. /\ HsNext(stream, k).back # 0 /\ l > 8 /\ HsOn(stream, k, hsd, out, 1 + w)
      /\ hsd.output_index = HsNext(stream, k).back
  BY <1>2 DEF HsAt
<1>4. /\ HsStream /\ hsd \in HsDecoders(W) /\ lookahead_sz2 = l /\ l \in 3 .. 18 /\ w \in 4 .. 19
      /\ v \in Nat /\ v < 2 ^ l /\ p \in Nat /\ HsField(stream, p + 1 + w, v, l)
  BY <1>3, HsInCopy, Zenon
<1>5. hsd.bits = p + (1 + w)
  BY <1>3 DEF HsOn
<1> HIDE DEF W, w, u, st, n, p, v, l
<1>6. /\ c \in Nat /\ c = l - 8 /\ l \in 1 .. 19 /\ (1 + w) + c = 1 + w + HsHigh(l)
      /\ p + 1 + w \in Nat /\ 1 + w \in Nat /\ p + 1 + w = p + (1 + w)
  BY <1>3, <1>4 DEF HsHigh
<1>7. x = HsHighPart(v, l)
  <2> DEFINE q == p + 1 + w
  <2>2. q \in Nat /\ hsd.bits = q + 0 /\ HsField(stream, q, v, l)
    BY <1>4, <1>5, <1>6
  <2>3. /\ HsStream /\ v \in Nat /\ l \in 1 .. 19 /\ q \in Nat /\ v < 2 ^ l /\ HsField(stream, q, v, l)
        /\ hsd.bits = q + 0 /\ l > 8
    BY <1>3, <1>4, <1>6, <2>2
  <2> HIDE DEF q
  <2>4. HsReadsField(q, v, l, 0)
    BY <2>3, Zenon DEF HsReadsField
  <2>5. 256 * H!GetBits(l - 8) = HsHighPart(v, l)
    BY ONLY <2>3, <2>4, HsGetsHigh, ZenonT(60)
  <2> QED BY <1>6, <2>5, Zenon
<1>8. x \in Nat
  <2>1. HsHighPart(v, l) \in Nat
    <3> DEFINE y == v \div 256
    <3>1. y \in Nat
      BY <1>4
    <3> HIDE DEF y
    <3>2. 256 * y \in Nat
      BY <3>1
    <3> QED BY <1>3, <3>2, Zenon DEF HsHighPart, y
  <2> QED BY <1>7, <2>1, Zenon
<1>9. u \in HsDecoders(W) /\ st \in HsStates /\ u.output_index = hsd.output_index
  BY <1>4, <1>6, HsUsed DEF u, st, HsStates
<1> HIDE DEF x
<1>10. g = HsWithCount(u, st, x)
  BY Zenon DEF HsWithCount, u, st, x
<1>11. HsLike(W, u, g, st) /\ g.output_count = x /\ g.output_index = HsNext(stream, k).back
  <2> DEFINE f == HsWithCount(u, st, x)
  <2>1. HsLike(W, u, f, st) /\ f.output_count = x /\ f.output_index = u.output_index
    BY ONLY <1>8, <1>9, HsSetCount
  <2> QED BY <1>3, <1>9, <1>10, <2>1, Zenon
<1>12. HsOn(stream, k, g, out, 1 + w + HsHigh(l)) /\ g.bits = hsd.bits + c
  <2> DEFINE one == 1 + w
  <2>1. one \in Nat /\ HsOn(stream, k, hsd, out, one) /\ k \in 0 .. Len(stream.tokens)
    BY <1>3, <1>6 DEF n
  <2>2. HsLike(2 ^ stream.window, H!Used(c), g, st)
    BY <1>11, Zenon DEF u, W
  <2> HIDE DEF one
  <2>3. HsOn(stream, k, g, out, one + c) /\ g.bits = hsd.bits + c
    <3>1. one \in Nat
      BY <2>1
    <3>2. c \in Nat
      BY <1>6
    <3>3. k \in 0 .. Len(stream.tokens)
      BY <2>1
    <3>4. HsOn(stream, k, hsd, out, one)
      BY <2>1
    <3> QED BY ONLY HsWorks, <2>2, <3>1, <3>2, <3>3, <3>4, HsUsedOn, Zenon
  <2> QED BY <1>6, <2>3, Zenon DEF one
<1>13. HsAt(stream, k, g, out)
  <2>2. g.state = "backref_count_lsb"
    BY <1>11, Zenon DEF HsLike, st
  <2> QED BY <1>3, <1>7, <1>11, <1>12, <2>2, Zenon DEF HsAt, v, w, l
<1>14. HsHolds(stream, g, out)
  BY <1>6, <1>11, <1>13, HsUsedHolds, Zenon DEF u, W, n
<1> QED BY <1>6, <1>12, <1>14

\* The bits that have been read end before the padding could be taken for a token.
LEMMA HsPadding ==
    ASSUME HsWorks, NEW x \in Nat, HsPos(stream, Len(stream.tokens)) + x <= 8 * (taken - 1)
    PROVE  x < 8
<1> DEFINE m == HsPos(stream, Len(stream.tokens))
           b == stream.bits
           y == m + 7
           q == y \div 8
<1>1. HsFormat(stream) /\ HsStream /\ taken \in Nat /\ taken <= H!StreamSize
  BY DEF HsWorks, HsStream
<1>2. m \in Nat
  <2>1. Len(stream.tokens) \in 0 .. Len(stream.tokens)
    BY <1>1, HsTokens
  <2> QED BY <1>1, <2>1, HsTape, Zenon
<1>3. Len(b) = m
  BY <1>1, Zenon DEF HsStream, HsPos
<1>4. H!StreamSize = 1 + (Len(stream.bits) + 7) \div 8
  BY DEF H!StreamSize
<1> HIDE DEF m, b
<1>5. H!StreamSize = 1 + q
  BY <1>3, <1>4, Zenon DEF b
<1>6. y \in Nat /\ y = m + 7
  BY <1>2
<1> HIDE DEF y
<1>7. q \in Nat /\ 8 * q <= y
  BY <1>6
<1> HIDE DEF q
<1>8. taken <= 1 + q
  BY <1>1, <1>5, Zenon
<1>9. m + x <= 8 * (taken - 1)
  BY DEF m
<1> QED BY ONLY x \in Nat, <1>1, <1>2, <1>6, <1>7, <1>8, <1>9

LEMMA HsCountLsb ==
    ASSUME HsWorks, hsd.state = "backref_count_lsb", NEW c, c = H!Low(lookahead_sz2), NEW g,
           hsd.bits + c <= 8 * (taken - 1),
           g = [H!Used(c) EXCEPT !.state = "yield_backref", !.output_count = @ + H!GetBits(c) + 1]
    PROVE  HsHolds(stream, g, out) /\ g.bits = hsd.bits + c /\ c \in Nat
<1> DEFINE W == 2 ^ stream.window
           w == stream.window
           l == stream.lookahead
           u == H!Used(c)
           st == "yield_backref"
           n == Len(stream.tokens)
<1>2. PICK k \in 0 .. n : HsAt(stream, k, hsd, out)
  BY DEF HsWorks, HsHolds
<1> DEFINE p == HsPos(stream, k)
           d == HsNext(stream, k).count
           v == HsNext(stream, k).count - 1
           x == H!GetBits(c)
<1>3. /\ HsNext(stream, k).back # 0 /\ HsOn(stream, k, hsd, out, 1 + w + HsHigh(l))
      /\ hsd.output_index = HsNext(stream, k).back
      /\ hsd.output_count = HsHighPart(v, l)
  BY <1>2 DEF HsAt
<1>4. /\ HsStream /\ hsd \in HsDecoders(W) /\ lookahead_sz2 = l /\ l \in 3 .. 18 /\ w \in 4 .. 19
      /\ v \in Nat /\ v < 2 ^ l /\ p \in Nat /\ HsField(stream, p + 1 + w, v, l) /\ d \in Nat
      /\ HsFormat(stream)
  BY <1>3, HsInCopy, Zenon
<1>5. hsd.bits = p + (1 + w + HsHigh(l)) /\ v + 1 = d /\ out = HsData(stream, k)
  BY <1>3, <1>4 DEF HsOn
<1>0. d >= 1 /\ n \in Nat
  <2>1. d \in Nat \ {0}
    BY <1>4, HsNextIs, Zenon
  <2> HIDE DEF d
  <2> QED BY <1>4, <2>1, HsTokens
<1> HIDE DEF W, w, u, st, n, p, v, l, d
<1>6. /\ c \in Nat /\ c = H!Low(l) /\ l \in 1 .. 19 /\ HsHigh(l) \in Nat
      /\ (1 + w + HsHigh(l)) + c = 1 + w + l
      /\ p + 1 + w \in Nat /\ 1 + w + HsHigh(l) \in Nat /\ p + (1 + w + HsHigh(l)) = p + 1 + w + HsHigh(l)
  BY <1>3, <1>4 DEF HsHigh, H!Low
<1>7. HsHighPart(v, l) + x = v /\ x \in Nat
  <2> DEFINE q == p + 1 + w
  <2>2. q \in Nat /\ hsd.bits = q + HsHigh(l) /\ HsField(stream, q, v, l)
    BY <1>4, <1>5, <1>6
  <2>3. /\ HsStream /\ v \in Nat /\ l \in 1 .. 19 /\ q \in Nat /\ v < 2 ^ l /\ HsField(stream, q, v, l)
        /\ hsd.bits = q + HsHigh(l)
    BY <1>4, <1>6, <2>2
  <2> HIDE DEF q
  <2>4. HsReadsField(q, v, l, HsHigh(l))
    BY <2>3, Zenon DEF HsReadsField
  <2>5. HsHighPart(v, l) + H!GetBits(H!Low(l)) = v /\ H!GetBits(H!Low(l)) \in Nat
    BY ONLY <2>4, HsGetsLow, Zenon
  <2> QED BY <1>6, <2>5, Zenon
<1>9. /\ u \in HsDecoders(W) /\ st \in HsStates /\ u.output_index = hsd.output_index
      /\ u.output_count = hsd.output_count
  BY <1>4, <1>6, HsUsed DEF u, st, HsStates
<1> HIDE DEF x
<1>10. g = HsWithCountMore(u, st, x)
  BY Zenon DEF HsWithCountMore, u, st, x
<1>11. HsLike(W, u, g, st) /\ g.output_count = d /\ g.output_index = HsNext(stream, k).back
  <2> DEFINE f == HsWithCountMore(u, st, x)
  <2>1. HsLike(W, u, f, st) /\ f.output_count = u.output_count + x + 1 /\ f.output_index = u.output_index
    BY ONLY <1>7, <1>9, HsSetCountMore
  <2>2. hsd.output_count + x + 1 = d
    <3> DEFINE y == hsd.output_count
    <3>1. y + x = v
      BY <1>3, <1>7
    <3>2. y \in Nat
      BY <1>4 DEF HsDecoders
    <3> HIDE DEF y
    <3>3. y + x + 1 = d
      BY <1>4, <1>5, <1>7, <3>1, <3>2
    <3> QED BY <3>3 DEF y
  <2> QED BY <1>3, <1>9, <1>10, <2>1, <2>2, Zenon
<1>12. HsOn(stream, k, g, out, 1 + w + l) /\ g.bits = hsd.bits + c
  <2> DEFINE one == 1 + w + HsHigh(l)
  <2>1. one \in Nat /\ HsOn(stream, k, hsd, out, one) /\ k \in 0 .. Len(stream.tokens)
    BY <1>3, <1>6 DEF n
  <2>2. HsLike(2 ^ stream.window, H!Used(c), g, st)
    BY <1>11, Zenon DEF u, W
  <2> HIDE DEF one
  <2>3. HsOn(stream, k, g, out, one + c) /\ g.bits = hsd.bits + c
    <3>1. one \in Nat
      BY <2>1
    <3>2. c \in Nat
      BY <1>6
    <3>3. k \in 0 .. Len(stream.tokens)
      BY <2>1
    <3>4. HsOn(stream, k, hsd, out, one)
      BY <2>1
    <3> QED BY ONLY HsWorks, <2>2, <3>1, <3>2, <3>3, <3>4, HsUsedOn, Zenon
  <2> QED BY <1>6, <2>3, Zenon DEF one
<1>13. k < n
  <2>1. ASSUME k = n PROVE FALSE
    <3> DEFINE y == 1 + w + l
    <3>1. y \in Nat /\ y >= 8
      BY <1>4
    <3>2. hsd.bits + c = p + y
      BY <1>4, <1>5, <1>6
    <3> HIDE DEF y
    <3>3. HsPos(stream, Len(stream.tokens)) + y <= 8 * (taken - 1)
      BY <2>1, <3>2, Zenon DEF p, n
    <3>4. y < 8
      BY ONLY HsWorks, <3>1, <3>3, HsPadding
    <3> QED BY <3>1, <3>4
  <2> QED BY <1>0, <2>1
<1>14. Begins(HsData(stream, k), HsData(stream, k + 1)) /\ Len(HsData(stream, k)) = Len(HsData(stream, k + 1)) - d
  <2>1. /\ k + 1 \in 1 .. n /\ k + 1 \in 0 .. n /\ k \in 0 .. n /\ (k + 1) - 1 = k /\ k <= k + 1
    BY <1>0, <1>13
  <2>2. Begins(HsData(stream, k), HsData(stream, k + 1))
    BY <1>4, <2>1, HsOrder, Zenon DEF n
  <2> DEFINE t == stream.tokens[k + 1]
  <2>3. Len(HsData(stream, k + 1)) = Len(HsData(stream, (k + 1) - 1)) + HsCount(t)
    BY <1>4, <2>1, HsTape, Zenon DEF n
  <2>4. t = HsNext(stream, k)
    BY <1>13, Zenon DEF HsNext, n
  <2>5. HsCount(t) = d
    BY <1>3, <2>4, Zenon DEF HsCount, d
  <2>6. Len(HsData(stream, k)) \in Nat
    BY <1>4, <2>1, HsTape, Zenon DEF n
  <2>7. Len(HsData(stream, k + 1)) = Len(HsData(stream, k)) + d
    BY <2>1, <2>3, <2>5, Zenon
  <2>8. Len(HsData(stream, k)) = Len(HsData(stream, k + 1)) - d
    <3> DEFINE a == Len(HsData(stream, k))
               b == Len(HsData(stream, k + 1))
    <3>1. a \in Nat /\ d \in Nat /\ b = a + d
      BY <1>4, <2>6, <2>7
    <3> HIDE DEF a, b
    <3>2. a = b - d
      BY ONLY <3>1
    <3> QED BY <3>2 DEF a, b
  <2> QED BY <2>2, <2>8
<1>15. HsAt(stream, k, g, out)
  <2>1. HsCopies(stream, k, g, out)
    <3>1. g.bits = HsPos(stream, k) + (1 + w + l)
      BY <1>12, Zenon DEF HsOn
    <3>2. d \in 1 .. d
      BY <1>0, <1>4
    <3> QED BY <1>3, <1>5, <1>11, <1>13, <1>14, <3>1, <3>2, Zenon DEF HsCopies, w, l, d, n
  <2>2. g.state = "yield_backref"
    BY <1>11, Zenon DEF HsLike, st
  <2> QED BY <2>1, <2>2, Zenon DEF HsAt
<1>16. HsHolds(stream, g, out)
  BY <1>6, <1>11, <1>15, HsUsedHolds, Zenon DEF u, W, n
<1> QED BY <1>6, <1>12, <1>16

\* Bytes at the head of the window.
LEMMA HsPush ==
    ASSUME NEW W \in Nat \ {0}, H!WindowSize = W, NEW h \in HsDecoders(W), NEW d \in Seq(U8),
           h.head_index = Len(d), HsWindow(h.buffer, W, d),
           NEW q \in Seq(U8), Len(q) <= W, NEW g, g = H!Pushed(h, q)
    PROVE  /\ g \in HsDecoders(W) /\ g.head_index = Len(d \o q) /\ HsWindow(g.buffer, W, d \o q)
           /\ g.bits = h.bits /\ g.state = h.state
           /\ g.output_index = h.output_index /\ g.output_count = h.output_count
<1> DEFINE b == h.buffer
           c == HsWritten(b, W, Len(d), q)
           i == h.head_index + Len(q)
           V == [0 .. W - 1 -> U8]
<1>1. b \in V
  <2>1. h \in [state : HsStates, bits : Nat, output_index : Nat, output_count : Nat, head_index : Nat,
                buffer : V]
    BY DEF HsDecoders
  <2> HIDE DEF V
  <2> QED BY <2>1
<1>2. g = HsWithWindow(h, i, c)
  <2>1. DOMAIN h.buffer = 0 .. W - 1
    BY <1>1 DEF V
  <2>2. g = [h EXCEPT !.head_index = @ + Len(q),
                      !.buffer = [a \in DOMAIN @ |->
                                     IF (a - h.head_index) % W < Len(q)
                                     THEN q[((a - h.head_index) % W) + 1] ELSE @[a]]]
    BY Zenon DEF H!Pushed
  <2> DEFINE e == [a \in DOMAIN h.buffer |->
                      IF (a - h.head_index) % W < Len(q)
                      THEN q[((a - h.head_index) % W) + 1] ELSE h.buffer[a]]
  <2>3. g = HsWithWindow(h, i, e)
    BY <2>2, Zenon DEF HsWithWindow
  <2>4. e = c
    BY <2>1, Zenon DEF HsWritten
  <2> HIDE DEF e, c, i
  <2> QED BY <2>3, <2>4
<1> DEFINE o == d \o q
<1>3. i \in Nat /\ i = Len(o) /\ o \in Seq(U8)
  <2>1. Len(o) = Len(d) + Len(q) /\ Len(d) \in Nat /\ Len(q) \in Nat /\ o \in Seq(U8)
    BY TwoParts
  <2> QED BY <2>1
<1> HIDE DEF i
<1>4. c \in V /\ HsWindow(c, W, o)
  <2> HIDE DEF b
  <2> DEFINE e == c
  <2>1. e = HsWritten(b, W, Len(d), q)
    OBVIOUS
  <2>2. b \in [0 .. W - 1 -> U8] /\ HsWindow(b, W, d)
    BY <1>1 DEF b
  <2> HIDE DEF e
  <2>3. e \in [0 .. W - 1 -> U8] /\ HsWindow(e, W, d \o q)
    BY ONLY W \in Nat \ {0}, d \in Seq(U8), q \in Seq(U8), Len(q) <= W, <2>1, <2>2, HsPushed, Zenon
  <2> QED BY <2>3 DEF e
<1> HIDE DEF c, o, b
<1>5. HsLooksLike(W, h, i, c, HsWithWindow(h, i, c))
  <2>1. c \in [0 .. W - 1 -> U8]
    BY <1>4
  <2> QED BY ONLY h \in HsDecoders(W), <1>3, <2>1, HsSetWindow, Zenon
<1> QED BY <1>2, <1>3, <1>4, <1>5, Zenon DEF o, HsLooksLike

LEMMA HsWindowSize ==
    ASSUME HsWorks
    PROVE  2 ^ stream.window \in Nat \ {0} /\ H!WindowSize = 2 ^ stream.window
<1>1. stream.window \in 0 .. 19 /\ window_sz2 = stream.window
  BY DEF HsWorks, HsAccepts
<1>2. H!WindowSize = 2 ^ window_sz2
  BY DEF H!WindowSize
<1> DEFINE W == 2 ^ stream.window
<1>3. W \in Nat /\ W > 0
  BY <1>1, PowersOfTwo
<1>4. H!WindowSize = W
  BY <1>1, <1>2, Zenon
<1> HIDE DEF W
<1>5. W \in Nat \ {0} /\ H!WindowSize = W
  BY <1>3, <1>4
<1> QED BY <1>5 DEF W

\* Bytes are delivered by a decoder u that is where hsd is.
LEMMA HsYields ==
    ASSUME HsWorks, NEW u \in HsDecoders(2 ^ stream.window),
           u.head_index = hsd.head_index, u.buffer = hsd.buffer,
           NEW q \in Seq(U8), Len(q) <= 2 ^ stream.window, NEW g, g = H!Pushed(u, q),
           NEW k \in 0 .. Len(stream.tokens), HsAt(stream, k, u, out \o q)
    PROVE  HsHolds(stream, g, out \o q) /\ g.bits = u.bits
<1> DEFINE W == 2 ^ stream.window
           o == out \o q
<1>1. W \in Nat \ {0} /\ H!WindowSize = W
  BY HsWindowSize
<1>2. out \in Seq(U8) /\ hsd.head_index = Len(out) /\ HsWindow(hsd.buffer, W, out)
  BY DEF HsWorks, HsHolds
<1>3. u \in HsDecoders(W) /\ u.head_index = Len(out) /\ HsWindow(u.buffer, W, out) /\ Len(q) <= W
      /\ q \in Seq(U8)
  BY <1>2
<1> HIDE DEF W
<1>4. /\ g \in HsDecoders(W) /\ g.head_index = Len(out \o q) /\ HsWindow(g.buffer, W, out \o q)
      /\ g.bits = u.bits /\ g.state = u.state
      /\ g.output_index = u.output_index /\ g.output_count = u.output_count
  BY ONLY g = H!Pushed(u, q), <1>1, <1>2, <1>3, HsPush
<1>5. o \in Seq(U8)
  BY <1>2, TwoParts
<1> HIDE DEF o
<1>6. HsAt(stream, k, g, o)
  <2>1. HsAt(stream, k, u, o)
    BY DEF o
  <2> QED BY <1>4, <2>1, ZenonT(60) DEF HsAt, HsOn, HsCopies
<1> QED BY <1>4, <1>5, <1>6, Zenon DEF HsHolds, W, o

LEMMA HsYieldLiteral ==
    ASSUME HsWorks, hsd.state = "yield_literal", NEW q, q = <<H!GetBits(8)>>, NEW g,
           g = H!Pushed([H!Used(8) EXCEPT !.state = "tag_bit"], q)
    PROVE  HsHolds(stream, g, out \o q) /\ g.bits = hsd.bits + 8 /\ q \in Seq(U8)
<1> DEFINE W == 2 ^ stream.window
           n == Len(stream.tokens)
           c == 8
           v == H!Used(c)
           st == "tag_bit"
           u == [v EXCEPT !.state = st]
<1>1. PICK k \in 0 .. n : HsAt(stream, k, hsd, out)
  BY DEF HsWorks, HsHolds
<1> DEFINE p == HsPos(stream, k)
           t == HsNext(stream, k)
           b == t.byte
<1>2. t.back = 0 /\ HsOn(stream, k, hsd, out, 1)
  BY <1>1 DEF HsAt
<1>3. HsFormat(stream) /\ HsStream /\ hsd \in HsDecoders(W) /\ out \in Seq(U8)
  BY DEF HsWorks, HsStream, HsHolds
<1>4. p \in Nat /\ b \in U8 /\ n \in Nat
  BY <1>3, HsNextIs, HsTokens, Zenon
<1>5. hsd.bits = p + 1 /\ out = HsData(stream, k)
  BY <1>2 DEF HsOn
<1>6. HsField(stream, p + 1, b, 8)
  <2>1. HsTokenAt(stream, p, t)
    BY <1>3, HsReads, Zenon
  <2> HIDE DEF p, t
  <2> QED BY <1>2, <2>1, Zenon DEF HsTokenAt
<1>7. k < n /\ t = stream.tokens[k + 1]
  <2>1. k < n
    <3>1. ASSUME ~ (k < n) PROVE FALSE
      <4>1. t = [back |-> 1, byte |-> 0, count |-> 1]
        BY <3>1, Zenon DEF HsNext
      <4> HIDE DEF t
      <4>2. t.back = 1
        BY <4>1
      <4> QED BY <1>2, <4>2
    <3> QED BY <3>1
  <2> QED BY <2>1, Zenon DEF HsNext
<1> HIDE DEF W, n, p, t, b
<1>8. H!GetBits(8) = b
  <2> DEFINE o == p + 1
  <2>1. o \in Nat /\ hsd.bits = o + 0 /\ HsField(stream, o, b, c) /\ c \in 1 .. 19
    BY <1>4, <1>5, <1>6
  <2>2. b \in Nat /\ b < 2 ^ c
    <3>1. 2 ^ 8 = 256
      BY SMT
    <3>2. b \in Nat /\ b < 256
      BY <1>4 DEF U8
    <3> QED BY <3>1, <3>2, Zenon
  <2>3. HsHigh(c) = 0 /\ HsHighPart(b, c) = 0 /\ H!Low(c) = 8
    BY DEF HsHigh, HsHighPart, H!Low
  <2> HIDE DEF o, c
  <2>4. HsReadsField(o, b, c, HsHigh(c))
    BY <1>3, <2>1, <2>2, <2>3, Zenon DEF HsReadsField
  <2>5. HsHighPart(b, c) + H!GetBits(H!Low(c)) = b /\ H!GetBits(H!Low(c)) \in Nat
    BY ONLY <2>4, HsGetsLow, Zenon
  <2>6. 0 + H!GetBits(8) = b /\ H!GetBits(8) \in Nat
    BY <2>3, <2>5, Zenon
  <2> QED BY <2>6
<1>9. q = <<b>> /\ q \in Seq(U8) /\ Len(q) = 1
  <2>1. q = <<b>>
    BY <1>8, Zenon
  <2> QED BY <1>4, <2>1
<1>10. v \in HsDecoders(W) /\ v.bits = hsd.bits + 8 /\ v.head_index = hsd.head_index /\ v.buffer = hsd.buffer
       /\ st \in HsStates
  <2> DEFINE e == H!Used(c)
  <2>1. c \in Nat /\ e = H!Used(c)
    OBVIOUS
  <2> HIDE DEF c
  <2>2. /\ e \in HsDecoders(W) /\ e.bits = hsd.bits + c /\ e.state = hsd.state
        /\ e.output_index = hsd.output_index /\ e.output_count = hsd.output_count
        /\ e.head_index = hsd.head_index /\ e.buffer = hsd.buffer
    BY <1>3, <2>1, HsUsed
  <2> QED BY <2>2 DEF c, HsStates
<1> HIDE DEF v
<1>11. u \in HsDecoders(W) /\ u.head_index = hsd.head_index /\ u.buffer = hsd.buffer /\ u.state = st
       /\ u.bits = hsd.bits + 8
  <2>1. u = HsWithState(v, st)
    BY Zenon DEF HsWithState
  <2> HIDE DEF u, st
  <2>2. HsLike(W, v, HsWithState(v, st), st)
    BY ONLY <1>10, HsSetState
  <2> QED BY <1>10, <2>1, <2>2, Zenon DEF HsLike
<1> HIDE DEF u
<1> DEFINE j == k + 1
           o == out \o q
<1>12. j \in 0 .. n /\ j \in 1 .. n /\ j - 1 = k
  BY <1>4, <1>7
<1>13. u.bits = HsPos(stream, j) /\ o = HsData(stream, j) /\ HsPos(stream, j) \in Nat
  <2>1. /\ HsPos(stream, j) = HsPos(stream, j - 1) + HsWidth(stream, stream.tokens[j])
        /\ HsData(stream, j) = H!Expand(HsData(stream, j - 1), stream.tokens[j])
        /\ HsPos(stream, j) \in Nat
    BY <1>3, <1>12, HsTape, Zenon DEF n
  <2>2. HsWidth(stream, t) = 9 /\ H!Expand(out, t) = Append(out, b)
    BY <1>2, Zenon DEF HsWidth, H!Expand, b
  <2>3. HsPos(stream, j) = p + 9 /\ HsData(stream, j) = Append(out, b)
    BY <1>5, <1>7, <1>12, <2>1, <2>2, Zenon DEF p
  <2>4. Append(out, b) = out \o <<b>>
    BY <1>3, <1>4
  <2>5. u.bits = p + 9
    BY <1>4, <1>5, <1>11
  <2> QED BY <1>9, <2>1, <2>3, <2>4, <2>5, Zenon
<1>14. HsAt(stream, j, u, o)
  <2>1. HsPos(stream, j) + 0 = HsPos(stream, j)
    BY <1>13
  <2>2. HsOn(stream, j, u, o, 0)
    BY <1>13, <2>1, Zenon DEF HsOn
  <2> QED BY <1>11, <2>2, Zenon DEF HsAt, st
<1>15. Len(q) <= 2 ^ stream.window /\ j \in 0 .. Len(stream.tokens)
       /\ u \in HsDecoders(2 ^ stream.window) /\ g = H!Pushed(u, q)
  <2>1. W \in Nat \ {0}
    BY HsWindowSize DEF W
  <2>2. Len(q) <= W
    BY <1>9, <2>1
  <2>3. g = H!Pushed(u, q)
    BY Zenon DEF u, v, c, st
  <2> QED BY <1>11, <1>12, <2>2, <2>3, Zenon DEF W, n
<1> HIDE DEF j
<1>16. HsHolds(stream, g, out \o q) /\ g.bits = u.bits
  BY ONLY HsWorks, <1>9, <1>11, <1>14, <1>15, HsYields DEF o
<1> QED BY <1>9, <1>11, <1>16, Zenon

\* What a copy delivers are the next bytes of the data.
LEMMA HsCopiedOn ==
    ASSUME HsWorks, NEW k \in 0 .. Len(stream.tokens), HsCopies(stream, k, hsd, out),
           NEW m \in Nat \ {0}, m <= hsd.output_count, NEW q, q = H!Copied(m)
    PROVE  /\ q \in Seq(U8) /\ Len(q) = m /\ m <= 2 ^ stream.window
           /\ Begins(out \o q, HsData(stream, k + 1)) /\ Len(out \o q) = Len(out) + m
           /\ Len(out) + hsd.output_count = Len(HsData(stream, k + 1))
<1> DEFINE W == 2 ^ stream.window
           N == 2 ^ stream.lookahead
           n == Len(stream.tokens)
           t == HsNext(stream, k)
           back == t.back
           count == t.count
           d == HsData(stream, k)
           e == HsData(stream, k + 1)
           o == out
           b == hsd.buffer
           y == hsd.output_count
<1>1. /\ W \in Nat \ {0} /\ H!WindowSize = W
  BY HsWindowSize
<1>2. /\ HsFormat(stream) /\ o \in Seq(U8) /\ hsd.head_index = Len(o) /\ HsWindow(b, W, o)
      /\ stream.window \in 4 .. 15 /\ stream.lookahead \in 3 .. 14 /\ stream.lookahead < stream.window
  BY DEF HsWorks, HsStream, HsHolds, HsAccepts
<1>3. /\ k < n /\ back # 0 /\ hsd.output_index = back /\ y \in 1 .. count
      /\ Begins(o, e) /\ Len(o) = Len(e) - y
  BY DEF HsCopies
<1>4. t.back \in 0 .. W /\ t.count \in 1 .. N /\ N \in Nat /\ n \in Nat /\ t.back \in Nat
      /\ t.count \in Nat \ {0} /\ t.byte \in U8 /\ d \in Seq(U8)
  BY <1>2, HsNextIs, HsTokens, Zenon
<1>5. t = stream.tokens[k + 1]
  BY <1>3, Zenon DEF HsNext
<1>6. N <= W
  <2> DEFINE a == stream.lookahead
             f == stream.window
  <2>1. f \in 4 .. 15 /\ a \in 3 .. 14 /\ a < f
    BY <1>2
  <2> HIDE DEF a, f
  <2>2. a \in 0 .. 19 /\ f \in 0 .. 19 /\ a <= f
    BY ONLY <2>1
  <2>3. 2 ^ a <= 2 ^ f
    BY ONLY <2>2, PowersAscend
  <2> QED BY <2>3 DEF a, f
<1> HIDE DEF W, N, n, t
<1> DEFINE j == k + 1
<1>7. j \in 0 .. n /\ j \in 1 .. n /\ j - 1 = k /\ k \in 0 .. n
  BY <1>3, <1>4 DEF n
<1>8. /\ e \in Seq(U8) /\ Len(e) = Len(d) + HsCount(t) /\ Begins(d, e)
      /\ \A i \in 1 .. count : e[Len(d) + i] = HsByte(d, Len(d) - back + 1 + ((i - 1) % back))
  <2>1. HsData(stream, j) = H!Expand(HsData(stream, j - 1), stream.tokens[j])
    BY <1>2, <1>7, HsTape, Zenon DEF n
  <2>2. e = H!Expand(d, t)
    BY <1>5, <1>7, <2>1, Zenon
  <2> HIDE DEF e, d
  <2> QED BY <1>3, <1>4, <2>2, HsExpand, Zenon
<1>9. HsCount(t) = count
  BY <1>3, Zenon DEF HsCount
<1> HIDE DEF back, count, d, e, o, b, y
<1>10. /\ back \in 1 .. W /\ count \in Nat /\ count <= W /\ y \in 1 .. count /\ m <= y /\ m <= W
       /\ Len(e) \in Nat /\ Len(d) \in Nat /\ Len(o) \in Nat
       /\ Len(e) = Len(d) + count /\ Len(o) = Len(e) - y /\ Len(d) <= Len(o) /\ Len(o) + m <= Len(d) + count
       /\ Len(o) + m <= Len(e) /\ Len(o) + y = Len(e)
  <2>1. Len(e) \in Nat /\ Len(d) \in Nat /\ Len(o) \in Nat
    BY <1>2, <1>4, <1>8, LengthIsNat, Zenon DEF d
  <2>2. back \in 0 .. W /\ count \in 1 .. N /\ m <= y /\ Len(e) = Len(d) + count
    BY <1>4, <1>8, <1>9 DEF back, count, y
  <2> DEFINE le == Len(e)
             ld == Len(d)
             lo == Len(o)
  <2>3. le = ld + count /\ lo = le - y /\ le \in Nat /\ ld \in Nat /\ lo \in Nat
    BY <1>3, <2>1, <2>2
  <2> HIDE DEF le, ld, lo
  <2>4. /\ back \in 1 .. W /\ count \in Nat /\ count <= W /\ m <= W
        /\ ld <= lo /\ lo + m <= ld + count /\ lo + m <= le /\ lo + y = le
    BY <1>1, <1>3, <1>4, <1>6, <2>2, <2>3
  <2> QED BY <1>3, <2>2, <2>3, <2>4, Zenon DEF le, ld, lo
<1>11. ASSUME NEW i \in 1 .. m
       PROVE  b[(Len(o) - back + ((i - 1) % back)) % W] = e[Len(o) + i] /\ e[Len(o) + i] \in U8
  <2>1. i \in Nat \ {0} /\ Len(o) + i <= Len(d) + count
    BY <1>10
  <2>2. b[(Len(o) - back + ((i - 1) % back)) % W] = e[Len(o) + i]
    <3>1. W \in Nat \ {0} /\ d \in Seq(U8) /\ e \in Seq(U8) /\ o \in Seq(U8) /\ HsWindow(b, W, o)
          /\ back \in 1 .. W /\ count \in Nat
      BY <1>1, <1>2, <1>4, <1>8, <1>10 DEF d
    <3>2. Begins(d, e) /\ Begins(o, e) /\ Len(d) <= Len(o) /\ HsCopyOf(d, e, back, count)
      BY <1>3, <1>8, <1>10, Zenon DEF HsCopyOf
    <3>3. HsFound(b, W, o, e, back, i)
      BY ONLY <2>1, <3>1, <3>2, HsCopied
    <3> QED BY <3>3, Zenon DEF HsFound
  <2>3. Len(o) + i \in 1 .. Len(e)
    BY <1>10
  <2> QED BY <1>8, <2>2, <2>3, ElementsIn
<1>12. q = [i \in 1 .. m |-> b[(Len(o) - back + ((i - 1) % back)) % W]]
  <2>1. q = [i \in 1 .. m |->
              hsd.buffer[(hsd.head_index - hsd.output_index + ((i - 1) % hsd.output_index)) % H!WindowSize]]
    BY Zenon DEF H!Copied
  <2> QED BY <1>1, <1>2, <1>3, <2>1, Zenon DEF b
<1>13. q \in Seq(U8) /\ Len(q) = m /\ \A i \in 1 .. m : q[i] = e[Len(o) + i]
  <2>1. \A i \in 1 .. m : q[i] = e[Len(o) + i] /\ q[i] \in U8
    BY <1>11, <1>12
  <2>2. q = [i \in 1 .. m |-> q[i]]
    BY <1>12
  <2>3. q \in [1 .. m -> U8]
    BY <2>1, <2>2
  <2> QED BY <2>1, <2>3
<1>14. Begins(o \o q, e)
  <2>1. o \in Seq(U8) /\ e \in Seq(U8) /\ q \in Seq(U8) /\ Begins(o, e) /\ Len(o) + Len(q) <= Len(e)
        /\ \A i \in 1 .. Len(q) : q[i] = e[Len(o) + i]
    BY <1>2, <1>3, <1>8, <1>10, <1>13
  <2> QED BY ONLY <2>1, BeginsFurther
<1>15. Len(o \o q) = Len(o) + m
  <2>1. Len(o \o q) = Len(o) + Len(q)
    BY ONLY <1>2, <1>13, TwoParts
  <2> QED BY <1>13, <2>1, Zenon
<1> QED BY <1>10, <1>13, <1>14, <1>15, Zenon DEF o, e, W, y

LEMMA HsYieldBackref ==
    ASSUME HsWorks, hsd.state = "yield_backref", NEW m \in Nat \ {0}, m <= hsd.output_count,
           NEW q, q = H!Copied(m), NEW st, st = (IF hsd.output_count = m THEN "tag_bit" ELSE hsd.state),
           NEW g, g = H!Pushed([hsd EXCEPT !.output_count = @ - m, !.state = st], q)
    PROVE  /\ HsHolds(stream, g, out \o q) /\ g.bits = hsd.bits
           /\ q \in Seq(U8) /\ Len(q) = m /\ Len(out \o q) = Len(out) + m
<1> DEFINE W == 2 ^ stream.window
           n == Len(stream.tokens)
           u == [hsd EXCEPT !.output_count = @ - m, !.state = st]
           o == out \o q
<1>1. PICK k \in 0 .. n : HsAt(stream, k, hsd, out)
  BY DEF HsWorks, HsHolds
<1>2. HsCopies(stream, k, hsd, out)
  BY <1>1 DEF HsAt
<1>3. HsFormat(stream) /\ hsd \in HsDecoders(W) /\ out \in Seq(U8) /\ n \in Nat
  BY HsTokens DEF HsWorks, HsStream, HsHolds
<1> DEFINE j == k + 1
           t == HsNext(stream, k)
           y == hsd.output_count
<1>4. /\ q \in Seq(U8) /\ Len(q) = m /\ m <= W
      /\ Begins(out \o q, HsData(stream, k + 1)) /\ Len(out \o q) = Len(out) + m
      /\ Len(out) + hsd.output_count = Len(HsData(stream, k + 1))
  BY ONLY HsWorks, <1>2, HsCopiedOn, k \in 0 .. n, m \in Nat \ {0}, m <= hsd.output_count, q = H!Copied(m)
<1>5. /\ k < n /\ t.back # 0 /\ hsd.bits = HsPos(stream, k) + (1 + stream.window + stream.lookahead)
      /\ hsd.output_index = t.back /\ y \in 1 .. t.count
  BY <1>2 DEF HsCopies
<1>6. j \in 0 .. n /\ j \in 1 .. n /\ j - 1 = k
  <2> HIDE DEF n
  <2>1. n \in Nat /\ k \in 0 .. n /\ k < n
    BY <1>3, <1>5
  <2> QED BY ONLY <2>1
<1>7. st \in HsStates /\ y \in Nat
  <2>1. st \in HsStates
    <3>1. st = "tag_bit" \/ st = "yield_backref"
      BY Zenon
    <3> QED BY <3>1 DEF HsStates
  <2> QED BY <1>3, <2>1 DEF HsDecoders
<1>8. HsLike(W, hsd, u, st) /\ u.output_index = hsd.output_index /\ u.output_count = y - m
  <2>1. u = HsWithLess(hsd, st, m)
    BY Zenon DEF HsWithLess
  <2> DEFINE f == HsWithLess(hsd, st, m)
  <2>2. m \in Nat /\ m <= hsd.output_count /\ hsd \in HsDecoders(W) /\ st \in HsStates
    BY <1>3, <1>7
  <2> HIDE DEF W, u
  <2>3. HsLike(W, hsd, f, st) /\ f.output_index = hsd.output_index /\ f.output_count = hsd.output_count - m
    BY ONLY <2>2, HsSetLess
  <2> QED BY <2>1, <2>3, Zenon
<1> HIDE DEF W, u, n, t
<1> DEFINE e == HsData(stream, j)
<1>9. /\ e \in Seq(U8) /\ Len(e) \in Nat /\ HsPos(stream, j) \in Nat /\ HsPos(stream, k) \in Nat
      /\ HsPos(stream, j) = HsPos(stream, j - 1) + HsWidth(stream, stream.tokens[j])
  BY <1>3, <1>6, HsTape, Zenon DEF n
<1>10. o \in Seq(U8) /\ Len(o) \in Nat /\ Begins(o, e)
  BY <1>3, <1>4, TwoParts, LengthIsNat
<1>11. \E i \in 0 .. n : HsAt(stream, i, u, o)
  <2>1. CASE y = m
    <3>1. st = "tag_bit"
      BY <2>1, Zenon
    <3>2. o = e
      <4>1. Len(o) = Len(e)
        BY <1>4, <2>1, Zenon
      <4> HIDE DEF o, e
      <4> QED BY <1>9, <1>10, <4>1, BeginsWhole
    <3>3. u.bits = HsPos(stream, j) + 0
      <4>1. stream.tokens[j] = t
        BY <1>5, Zenon DEF HsNext, t, n
      <4>2. HsWidth(stream, t) = 1 + stream.window + stream.lookahead
        BY <1>5, Zenon DEF HsWidth
      <4>3. HsPos(stream, j) = hsd.bits
        BY <1>5, <1>6, <1>9, <4>1, <4>2, Zenon
      <4>4. u.bits = hsd.bits
        BY <1>8, Zenon DEF HsLike
      <4>5. HsPos(stream, j) + 0 = HsPos(stream, j)
        BY <1>9
      <4> QED BY <4>3, <4>4, <4>5, Zenon
    <3>4. HsAt(stream, j, u, o)
      BY <1>8, <3>1, <3>2, <3>3, Zenon DEF HsAt, HsOn, HsLike
    <3> QED BY <1>6, <3>4
  <2>2. CASE y # m
    <3>1. st = "yield_backref"
      BY <2>2, Zenon
    <3>2. y - m \in 1 .. t.count /\ Len(o) = Len(e) - (y - m)
      <4> DEFINE le == Len(e)
                 lo == Len(o)
                 la == Len(out)
                 c == t.count
      <4>1. lo = la + m /\ la + y = le /\ lo \in Nat /\ le \in Nat /\ la \in Nat
        BY <1>3, <1>4, <1>9, <1>10, LengthIsNat
      <4>2. c \in Nat /\ y \in 1 .. c /\ m <= y
        <5>1. t.count \in Nat \ {0}
          BY <1>3, HsNextIs, Zenon DEF n, t
        <5> QED BY <1>5, <5>1
      <4> HIDE DEF le, lo, la, c, y
      <4>3. y - m \in 1 .. c /\ lo = le - (y - m)
        BY <2>2, <4>1, <4>2
      <4> QED BY <4>3 DEF le, lo, c
    <3>3. HsCopies(stream, k, u, o)
      <4>1. u.bits = hsd.bits
        BY <1>8, Zenon DEF HsLike
      <4> QED BY <1>5, <1>8, <1>10, <3>2, <4>1, Zenon DEF HsCopies, t, n
    <3>4. HsAt(stream, k, u, o)
      BY <1>8, <3>1, <3>3, Zenon DEF HsAt, HsLike
    <3> QED BY <3>4
  <2> QED BY <2>1, <2>2
<1>12. PICK i \in 0 .. n : HsAt(stream, i, u, o)
  BY <1>11
<1>13. /\ u \in HsDecoders(2 ^ stream.window) /\ u.head_index = hsd.head_index /\ u.buffer = hsd.buffer
       /\ Len(q) <= 2 ^ stream.window /\ i \in 0 .. Len(stream.tokens) /\ g = H!Pushed(u, q)
  <2>1. g = H!Pushed(u, q)
    BY Zenon DEF u
  <2> QED BY <1>4, <1>8, <2>1, Zenon DEF HsLike, W, n
<1>14. HsHolds(stream, g, out \o q) /\ g.bits = u.bits
  BY ONLY HsWorks, <1>4, <1>12, <1>13, HsYields DEF o
<1> QED BY <1>4, <1>8, <1>14, Zenon DEF HsLike

-----------------------------------------------------------------------------
(***************************************************************************)
(* A step of the decoder.                                                  *)
(***************************************************************************)
HsAdvances ==
    /\ UNCHANGED <<stream, fed, taken, window_sz2, lookahead_sz2, decoder, wanted, res, destroyed>>
    /\ HsHolds(stream, hsd', out') /\ hsd'.bits <= 8 * (taken - 1)
    /\ \E q \in Seq(U8) : out' = out \o q /\ got' = got + Len(q) /\ Len(q) <= wanted - got

LEMMA HsReading ==
    ASSUME HsWorks, got \in Nat, wanted \in Nat, got <= wanted, NEW st, NEW c \in Nat, NEW g,
           H!ReadBits(st, c, g), HsHolds(stream, g, out), g.bits = hsd.bits + c
    PROVE  HsAdvances
<1>1. /\ hsd' = g /\ out' = out /\ got' = got
      /\ UNCHANGED <<stream, fed, taken, window_sz2, lookahead_sz2, decoder, wanted, res, destroyed>>
  BY DEF H!ReadBits, H!input, H!header
<1>2. H!HasBits(c)
  BY DEF H!ReadBits
<1> DEFINE b == hsd.bits
<1>3. b \in Nat /\ taken \in Nat
  BY DEF HsWorks, HsHolds, HsDecoders
<1>4. 8 * (taken - 1) - b >= c
  BY <1>2 DEF H!HasBits, H!BitsLeft
<1> HIDE DEF b
<1>5. b + c <= 8 * (taken - 1)
  BY <1>3, <1>4
<1>6. hsd'.bits <= 8 * (taken - 1)
  BY <1>1, <1>5, Zenon DEF b
<1>7. \E q \in Seq(U8) : out' = out \o q /\ got' = got + Len(q) /\ Len(q) <= wanted - got
  <2> DEFINE q == <<>>
             o == out
             k == got
             w == wanted
  <2>1. q \in Seq(U8) /\ Len(q) = 0
    OBVIOUS
  <2>2. o \in Seq(U8) /\ k \in Nat /\ w \in Nat /\ k <= w
    BY DEF HsWorks, HsHolds
  <2>3. o \o q = o
    BY <2>2
  <2> HIDE DEF q, o, k, w
  <2>4. k + Len(q) = k /\ Len(q) <= w - k
    BY <2>1, <2>2
  <2> QED BY <1>1, <2>1, <2>3, <2>4, Zenon DEF o, k, w
<1>8. HsHolds(stream, hsd', out')
  BY <1>1, Zenon
<1> QED BY <1>1, <1>6, <1>7, <1>8, Zenon DEF HsAdvances

LEMMA HsYielding ==
    ASSUME HsWorks, NEW q \in Seq(U8), NEW u, H!Yield(q, u), HsHolds(stream, H!Pushed(u, q), out \o q),
           H!Pushed(u, q).bits <= 8 * (taken - 1), Len(q) <= wanted - got
    PROVE  HsAdvances
  BY Zenon DEF H!Yield, H!input, H!header, HsAdvances

LEMMA HsPoll ==
    ASSUME HsWorks, got \in Nat, wanted \in Nat, got <= wanted, H!Poll
    PROVE  HsAdvances
<1>0. taken \in Nat /\ hsd.bits \in Nat
  BY DEF HsWorks, HsHolds, HsDecoders
<1>1. CASE H!TagBit
  <2> DEFINE c == 1
             g == H!Tagged(H!GetBits(c))
             st == "tag_bit"
  <2>1. H!ReadBits(st, c, g) /\ hsd.state = st
    BY <1>1 DEF H!TagBit, H!ReadBits, H!InState
  <2>2. HsHolds(stream, g, out) /\ g.bits = hsd.bits + c /\ c \in Nat
    BY <2>1, HsTagBit
  <2> HIDE DEF c, g, st
  <2> QED BY <2>1, <2>2, HsReading
<1>2. CASE H!YieldLiteral
  <2> DEFINE q == <<H!GetBits(8)>>
             u == [H!Used(8) EXCEPT !.state = "tag_bit"]
             g == H!Pushed(u, q)
  <2>1. H!Yield(q, u) /\ hsd.state = "yield_literal" /\ H!HasBits(8)
    BY <1>2 DEF H!YieldLiteral, H!InState
  <2>2. HsHolds(stream, g, out \o q) /\ g.bits = hsd.bits + 8 /\ q \in Seq(U8)
    BY <2>1, HsYieldLiteral
  <2>3. g.bits <= 8 * (taken - 1)
    <3> DEFINE b == hsd.bits
    <3>1. 8 * (taken - 1) - b >= 8
      BY <2>1 DEF H!HasBits, H!BitsLeft
    <3> HIDE DEF b, g
    <3>2. b + 8 <= 8 * (taken - 1)
      BY <1>0, <3>1 DEF b
    <3> QED BY <2>2, <3>2, Zenon DEF b
  <2>4. Len(q) <= wanted - got
    <3>1. Len(q) = 1
      OBVIOUS
    <3>2. wanted - got > 0
      BY <2>1 DEF H!Yield, H!Space
    <3> HIDE DEF q
    <3> QED BY <3>1, <3>2
  <2> HIDE DEF q, u
  <2> QED BY <2>1, <2>2, <2>3, <2>4, HsYielding
<1>3. CASE H!IndexMsb
  <2> DEFINE c == window_sz2 - 8
             g == [H!Used(c) EXCEPT !.state = "backref_index_lsb", !.output_index = 256 * H!GetBits(c)]
             st == "backref_index_msb"
  <2>1. H!ReadBits(st, c, g) /\ hsd.state = st
    BY <1>3, Zenon DEF H!IndexMsb, H!ReadBits, H!InState
  <2>2. HsHolds(stream, g, out) /\ g.bits = hsd.bits + c /\ c \in Nat
    BY <2>1, HsIndexMsb, Zenon
  <2> HIDE DEF c, g, st
  <2> QED BY <2>1, <2>2, HsReading
<1>4. CASE H!IndexLsb
  <2> DEFINE c == H!Low(window_sz2)
             sn == IF lookahead_sz2 > 8 THEN "backref_count_msb" ELSE "backref_count_lsb"
             g == [H!Used(c) EXCEPT !.state = sn, !.output_index = @ + H!GetBits(c) + 1, !.output_count = 0]
             st == "backref_index_lsb"
  <2>1. H!ReadBits(st, c, g) /\ hsd.state = st
    BY <1>4, Zenon DEF H!IndexLsb, H!ReadBits, H!InState
  <2>2. HsHolds(stream, g, out) /\ g.bits = hsd.bits + c /\ c \in Nat
    BY <2>1, HsIndexLsb, Zenon
  <2> HIDE DEF c, g, st
  <2> QED BY <2>1, <2>2, HsReading
<1>5. CASE H!CountMsb
  <2> DEFINE c == lookahead_sz2 - 8
             g == [H!Used(c) EXCEPT !.state = "backref_count_lsb", !.output_count = 256 * H!GetBits(c)]
             st == "backref_count_msb"
  <2>1. H!ReadBits(st, c, g) /\ hsd.state = st
    BY <1>5, Zenon DEF H!CountMsb, H!ReadBits, H!InState
  <2>2. HsHolds(stream, g, out) /\ g.bits = hsd.bits + c /\ c \in Nat
    BY <2>1, HsCountMsb, Zenon
  <2> HIDE DEF c, g, st
  <2> QED BY <2>1, <2>2, HsReading
<1>6. CASE H!CountLsb
  <2> DEFINE c == H!Low(lookahead_sz2)
             g == [H!Used(c) EXCEPT !.state = "yield_backref", !.output_count = @ + H!GetBits(c) + 1]
             st == "backref_count_lsb"
  <2>1. H!ReadBits(st, c, g) /\ hsd.state = st
    BY <1>6, Zenon DEF H!CountLsb, H!ReadBits, H!InState
  <2>2. hsd.bits + c <= 8 * (taken - 1)
    <3> DEFINE b == hsd.bits
    <3>1. 8 * (taken - 1) - b >= c
      BY <2>1 DEF H!ReadBits, H!HasBits, H!BitsLeft
    <3>2. c \in Int
      <4>1. lookahead_sz2 \in Int
        BY DEF HsWorks, HsAccepts
      <4> QED BY <4>1 DEF H!Low
    <3> HIDE DEF b, c
    <3>3. b + c <= 8 * (taken - 1)
      BY <1>0, <3>1, <3>2 DEF b
    <3> QED BY <3>3 DEF b, c
  <2>3. HsHolds(stream, g, out) /\ g.bits = hsd.bits + c /\ c \in Nat
    BY <2>1, <2>2, HsCountLsb, Zenon
  <2> HIDE DEF c, g, st
  <2> QED BY <2>1, <2>3, HsReading
<1>7. CASE H!YieldBackref
  <2> DEFINE y == hsd.output_count
             s == wanted - got
             m == IF y < s THEN y ELSE s
             q == H!Copied(m)
             st == IF y = m THEN "tag_bit" ELSE hsd.state
             u == [hsd EXCEPT !.output_count = @ - m, !.state = st]
             g == H!Pushed(u, q)
  <2>1. H!Yield(q, u) /\ hsd.state = "yield_backref"
    BY <1>7, Zenon DEF H!YieldBackref, H!InState, H!Space
  <2>2. s > 0 /\ s \in Nat
    BY <2>1 DEF H!Yield, H!Space
  <2>3. y \in Nat \ {0}
    <3>1. PICK k \in 0 .. Len(stream.tokens) : HsAt(stream, k, hsd, out)
      BY DEF HsWorks, HsHolds
    <3>2. y \in 1 .. HsNext(stream, k).count /\ HsNext(stream, k).back # 0
      BY <2>1, <3>1 DEF HsAt, HsCopies
    <3> DEFINE c == HsNext(stream, k).count
    <3>3. c \in Nat
      BY <3>2, HsInCopy, Zenon
    <3> HIDE DEF y, c
    <3> QED BY <3>2, <3>3 DEF c
  <2>4. m \in Nat \ {0} /\ m <= y /\ m <= s
    <3> HIDE DEF y, s
    <3> QED BY <2>2, <2>3
  <2> HIDE DEF m, s
  <2>5. /\ HsHolds(stream, g, out \o q) /\ g.bits = hsd.bits /\ q \in Seq(U8) /\ Len(q) = m
    BY <2>1, <2>4, HsYieldBackref, Zenon
  <2>6. g.bits <= 8 * (taken - 1)
    BY <2>5, Zenon DEF HsWorks
  <2>7. Len(q) <= wanted - got
    BY <2>4, <2>5, Zenon DEF s
  <2> HIDE DEF q, u
  <2> QED BY <2>1, <2>5, <2>6, <2>7, HsYielding
<1> QED BY <1>1, <1>2, <1>3, <1>4, <1>5, <1>6, <1>7 DEF H!Poll

-----------------------------------------------------------------------------
(***************************************************************************)
(* What has been delivered when the decoder stops.                         *)
(***************************************************************************)
\* The tokens whose bits have all been read.
HsWhole == {k \in 0 .. Len(stream.tokens) : HsPos(stream, k) <= 8 * (taken - 1)}

\* There is one of them that is the last.
LEMMA HsLast ==
    ASSUME HsWorks, NEW j \in HsWhole, j + 1 \notin HsWhole
    PROVE  H!Expected = HsData(stream, j)
<1> DEFINE n == Len(stream.tokens)
           B == 8 * (taken - 1)
           Last(k) == k + 1 \notin HsWhole
           c == CHOOSE k \in HsWhole : Last(k)
<1>1. HsFormat(stream) /\ n \in Nat /\ B \in Int /\ taken # 0
  BY HsTokens DEF HsWorks, HsStream
<1>2. H!Expected = HsData(stream, c)
  <2>1. \A k : HsPos(stream, k) = Len(H!TokensBits(stream)[k])
    BY Zenon DEF HsPos, HsBits
  <2>2. HsWhole = {k \in 0 .. n : Len(H!TokensBits(stream)[k]) <= 8 * (taken - 1)}
    BY <2>1, Zenon DEF HsWhole
  <2>3. H!Expected = H!Data(stream.tokens)[c]
    BY <1>1, <2>2, Zenon DEF H!Expected
  <2> QED BY <2>3, Zenon DEF HsData
<1>3. c \in HsWhole /\ Last(c)
  <2>1. \E k \in HsWhole : Last(k)
    OBVIOUS
  <2> HIDE DEF Last
  <2> QED BY <2>1, Zenon
<1>4. c + 1 \notin HsWhole
  BY <1>3
<1> HIDE DEF c, Last, n, B
<1>5. /\ c \in 0 .. n /\ j \in 0 .. n /\ HsPos(stream, c) <= B /\ HsPos(stream, j) <= B
      /\ \A k \in 0 .. n : HsPos(stream, k) <= B => k \in HsWhole
  BY <1>3 DEF HsWhole, n, B
<1>6. \A k \in 0 .. n : HsPos(stream, k) \in Nat
  BY <1>1, HsTape, Zenon DEF n
<1>7. ASSUME NEW a \in 0 .. n, NEW b \in 0 .. n, HsPos(stream, b) <= B, a < b
      PROVE  a + 1 \in HsWhole
  <2>1. a + 1 \in 0 .. n /\ (a + 1 < b \/ a + 1 = b)
    BY <1>1, <1>7
  <2>2. a + 1 < b => HsPos(stream, a + 1) < HsPos(stream, b)
    BY <1>1, <2>1, HsOrder, Zenon DEF n
  <2>3. HsPos(stream, a + 1) <= B
    <3> DEFINE e == a + 1
               x == HsPos(stream, e)
               y == HsPos(stream, b)
    <3>1. x \in Nat /\ y \in Nat /\ y <= B /\ (x < y \/ x = y)
      <4>1. x \in Nat /\ y \in Nat
        BY <1>6, <2>1
      <4> HIDE DEF e
      <4>2. e < b \/ e = b
        BY <2>1 DEF e
      <4>3. x < y \/ x = y
        BY <2>2, <4>2, Zenon DEF e
      <4> QED BY <1>7, <4>1, <4>3
    <3> HIDE DEF x, y
    <3>2. x <= B
      BY <1>1, <3>1
    <3> QED BY <3>2 DEF x, e
  <2> QED BY <1>5, <2>1, <2>3
<1>8. c = j
  <2>1. ~ (c < j)
    BY <1>4, <1>5, <1>7
  <2>2. ~ (j < c)
    BY <1>5, <1>7
  <2> QED BY <1>1, <1>5, <2>1, <2>2
<1> QED BY <1>2, <1>8, Zenon

\* What is expected is no shorter than the data of the tokens that have been read.
LEMMA HsBehind ==
    ASSUME HsWorks, NEW j \in HsWhole
    PROVE  Len(HsData(stream, j)) <= Len(H!Expected)
<1> DEFINE n == Len(stream.tokens)
           S == {k \in j .. n : k + 1 \notin HsWhole}
<1>1. HsFormat(stream) /\ n \in Nat /\ j \in 0 .. n
  BY HsTokens DEF HsWorks, HsStream, HsWhole
<1>2. n \in S
  <2>1. n + 1 \notin 0 .. n
    BY <1>1
  <2>2. n + 1 \notin HsWhole
    BY <2>1 DEF HsWhole
  <2> HIDE DEF n
  <2>3. n \in j .. n
    BY <1>1
  <2> QED BY <2>2, <2>3
<1>3. S \subseteq Nat
  <2> HIDE DEF n
  <2>1. \A k \in j .. n : k \in Nat
    BY <1>1
  <2> QED BY <2>1
<1>4. PICK m \in S : \A k \in S : m <= k
  <2> HIDE DEF S
  <2> QED BY <1>2, <1>3, LeastElement
<1>5. m \in j .. n /\ m + 1 \notin HsWhole
  BY <1>4
<1> HIDE DEF n
<1>6. m \in HsWhole
  <2>1. CASE m = j
    BY <2>1
  <2>2. CASE m # j
    <3>1. m - 1 \in j .. n /\ ~ (m <= m - 1) /\ (m - 1) + 1 = m
      BY <1>1, <1>5, <2>2
    <3>2. m - 1 \notin S
      BY <1>4, <3>1
    <3>3. (m - 1) + 1 \in HsWhole
      BY <3>1, <3>2
    <3> QED BY <3>1, <3>3, Zenon
  <2> QED BY <2>1, <2>2
<1>7. H!Expected = HsData(stream, m)
  BY <1>5, <1>6, HsLast
<1>8. m \in 0 .. n /\ j <= m
  BY <1>1, <1>5
<1>9. Begins(HsData(stream, j), HsData(stream, m))
  BY <1>1, <1>8, HsOrder, Zenon DEF n
<1> QED BY <1>7, <1>9, Zenon DEF Begins

\* The bits that the decoder needs belong to the token that it is at.
HsNeedIs(k, x, c) ==
    /\ hsd.bits = HsPos(stream, k) + x /\ out = HsData(stream, k)
    /\ H!Needed = c /\ c \in 1 .. 8 /\ x \in Nat /\ x + c <= HsWidth(stream, HsNext(stream, k))

LEMMA HsNeeds ==
    ASSUME HsWorks, hsd.state # "yield_backref", NEW k \in 0 .. Len(stream.tokens),
           HsAt(stream, k, hsd, out)
    PROVE  \E x, c : HsNeedIs(k, x, c)
<1> DEFINE w == stream.window
           l == stream.lookahead
           t == HsNext(stream, k)
           m == HsWidth(stream, t)
<1>1. w \in 4 .. 15 /\ l \in 3 .. 14 /\ window_sz2 = w /\ lookahead_sz2 = l
  BY DEF HsWorks, HsAccepts
<1>2. /\ H!Low(w) \in 1 .. 8 /\ HsHigh(w) \in Nat /\ HsHigh(w) + H!Low(w) = w
      /\ H!Low(l) \in 1 .. 8 /\ HsHigh(l) \in Nat /\ HsHigh(l) + H!Low(l) = l
  <2> HIDE DEF w, l
  <2> QED BY <1>1 DEF H!Low, HsHigh
<1>3. (t.back = 0 => m = 9) /\ (t.back # 0 => m = 1 + w + l)
  BY Zenon DEF HsWidth
<1>4. H!Low(window_sz2) = H!Low(w) /\ H!Low(lookahead_sz2) = H!Low(l)
  BY <1>1, Zenon
<1>5. ASSUME NEW x, NEW c, HsOn(stream, k, hsd, out, x), H!Needed = c,
             c \in 1 .. 8, x \in Nat, x + c <= m
      PROVE  \E a, b : HsNeedIs(k, a, b)
  <2>1. HsNeedIs(k, x, c)
    BY <1>5, Zenon DEF HsOn, HsNeedIs
  <2> QED BY <2>1
<1> HIDE DEF w, l, m, t
<1>6. CASE hsd.state = "tag_bit"
  <2> DEFINE x == 0
             c == 1
  <2>1. HsOn(stream, k, hsd, out, x)
    BY <1>6, Zenon DEF HsAt
  <2>2. H!Needed = c
    BY <1>6, Zenon DEF H!Needed
  <2>3. c \in 1 .. 8 /\ x \in Nat /\ x + c <= m
    BY <1>1, <1>3
  <2> HIDE DEF x, c
  <2> QED BY <1>5, <2>1, <2>2, <2>3
<1>7. CASE hsd.state = "yield_literal"
  <2> DEFINE x == 1
             c == 8
  <2>1. HsOn(stream, k, hsd, out, x) /\ t.back = 0
    BY <1>7, Zenon DEF HsAt, t
  <2>2. H!Needed = c
    BY <1>7, Zenon DEF H!Needed
  <2>3. c \in 1 .. 8 /\ x \in Nat /\ x + c <= m
    BY <1>1, <1>3, <2>1
  <2> HIDE DEF x, c
  <2> QED BY <1>5, <2>1, <2>2, <2>3
<1>8. CASE hsd.state = "backref_index_msb"
  <2> DEFINE x == 1
             c == w - 8
  <2>1. HsOn(stream, k, hsd, out, x) /\ t.back # 0 /\ w > 8
    BY <1>8, Zenon DEF HsAt, t, w
  <2>2. H!Needed = c
    BY <1>1, <1>8, Zenon DEF H!Needed
  <2>3. c \in 1 .. 8 /\ x \in Nat /\ x + c <= m
    BY <1>1, <1>3, <2>1
  <2> HIDE DEF x, c
  <2> QED BY <1>5, <2>1, <2>2, <2>3
<1>9. CASE hsd.state = "backref_index_lsb"
  <2> DEFINE x == 1 + HsHigh(w)
             c == H!Low(w)
  <2>1. HsOn(stream, k, hsd, out, x) /\ t.back # 0
    BY <1>9, Zenon DEF HsAt, t, w
  <2>2. H!Needed = c
    BY <1>4, <1>9, Zenon DEF H!Needed
  <2>3. c \in 1 .. 8 /\ x \in Nat /\ x + c <= m
    <3> DEFINE hi == HsHigh(w)
               lo == H!Low(w)
    <3>1. hi \in Nat /\ lo \in 1 .. 8 /\ hi + lo = w /\ m = 1 + w + l /\ w \in Nat /\ l \in Nat
      BY <1>1, <1>2, <1>3, <2>1
    <3> HIDE DEF hi, lo
    <3>2. lo \in 1 .. 8 /\ 1 + hi \in Nat /\ 1 + hi + lo <= m
      BY ONLY <3>1
    <3> QED BY <3>2, Zenon DEF hi, lo
  <2> HIDE DEF x, c
  <2> QED BY <1>5, <2>1, <2>2, <2>3
<1>10. CASE hsd.state = "backref_count_msb"
  <2> DEFINE x == 1 + w
             c == l - 8
  <2>1. HsOn(stream, k, hsd, out, x) /\ t.back # 0 /\ l > 8
    BY <1>10, Zenon DEF HsAt, t, w, l
  <2>2. H!Needed = c
    BY <1>1, <1>10, Zenon DEF H!Needed
  <2>3. c \in 1 .. 8 /\ x \in Nat /\ x + c <= m
    BY <1>1, <1>3, <2>1
  <2> HIDE DEF x, c
  <2> QED BY <1>5, <2>1, <2>2, <2>3
<1>11. CASE hsd.state = "backref_count_lsb"
  <2> DEFINE x == 1 + w + HsHigh(l)
             c == H!Low(l)
  <2>1. HsOn(stream, k, hsd, out, x) /\ t.back # 0
    BY <1>11, Zenon DEF HsAt, t, w, l
  <2>2. H!Needed = c
    BY <1>4, <1>11, Zenon DEF H!Needed
  <2>3. c \in 1 .. 8 /\ x \in Nat /\ x + c <= m
    <3> DEFINE hi == HsHigh(l)
               lo == H!Low(l)
    <3>0. m = 1 + w + l
      BY <1>3, <2>1, Zenon
    <3>1. hi \in Nat /\ lo \in 1 .. 8 /\ hi + lo = l /\ m = 1 + w + l /\ w \in Nat /\ l \in Nat
      <4>1. hi \in Nat /\ lo \in 1 .. 8 /\ hi + lo = l
        BY <1>2, Zenon
      <4>2. w \in Nat /\ l \in Nat
        BY ONLY <1>1
      <4> QED BY <3>0, <4>1, <4>2, Zenon
    <3> HIDE DEF hi, lo
    <3>2. lo \in 1 .. 8 /\ 1 + w + hi \in Nat /\ 1 + w + hi + lo <= m
      BY ONLY <3>1
    <3> QED BY <3>2, Zenon DEF hi, lo
  <2> HIDE DEF x, c
  <2> QED BY <1>5, <2>1, <2>2, <2>3
<1> QED BY <1>6, <1>7, <1>8, <1>9, <1>10, <1>11, Zenon DEF HsAt

\* The position of the next token.
LEMMA HsAfter ==
    ASSUME HsWorks, NEW k \in 0 .. Len(stream.tokens)
    PROVE  /\ HsPos(stream, k) \in Nat /\ taken \in Nat /\ Len(stream.tokens) \in Nat /\ hsd.bits \in Nat
           /\ k < Len(stream.tokens) =>
                 /\ k + 1 \in 0 .. Len(stream.tokens)
                 /\ HsPos(stream, k + 1) = HsPos(stream, k) + HsWidth(stream, HsNext(stream, k))
                 /\ HsWidth(stream, HsNext(stream, k)) \in Nat
                 /\ Len(HsData(stream, k)) < Len(HsData(stream, k + 1))
                 /\ Len(HsData(stream, k + 1)) \in Nat /\ Len(HsData(stream, k)) \in Nat
<1> DEFINE n == Len(stream.tokens)
           t == HsNext(stream, k)
<1>1. HsFormat(stream) /\ n \in Nat /\ taken \in Nat /\ stream.window \in 4 .. 15
      /\ stream.lookahead \in 3 .. 14 /\ hsd.bits \in Nat
  BY HsTokens DEF HsWorks, HsStream, HsAccepts, HsHolds, HsDecoders
<1>2. \A j \in 0 .. n : HsPos(stream, j) \in Nat /\ Len(HsData(stream, j)) \in Nat
  BY <1>1, HsTape, Zenon
<1>3. ASSUME k < n
      PROVE  /\ k + 1 \in 0 .. n
             /\ HsPos(stream, k + 1) = HsPos(stream, k) + HsWidth(stream, t)
             /\ HsWidth(stream, t) \in Nat
             /\ Len(HsData(stream, k)) < Len(HsData(stream, k + 1))
  <2> DEFINE j == k + 1
  <2>1. k + 1 \in 0 .. n /\ j \in 1 .. n /\ j - 1 = k /\ k < k + 1
    <3> HIDE DEF n
    <3>1. k \in 0 .. n
      BY DEF n
    <3> QED BY <1>1, <1>3, <3>1
  <2>2. t = stream.tokens[j]
    BY <1>3, Zenon DEF HsNext
  <2>3. HsPos(stream, j) = HsPos(stream, j - 1) + HsWidth(stream, stream.tokens[j])
    BY <1>1, <2>1, HsTape, Zenon
  <2>4. Len(HsData(stream, k)) < Len(HsData(stream, k + 1))
    BY <1>1, <2>1, HsOrder, Zenon
  <2>5. HsWidth(stream, t) \in Nat
    <3> DEFINE f == stream.window
               e == stream.lookahead
               a == 1 + f + e
    <3>0. f \in 4 .. 15 /\ e \in 3 .. 14
      BY <1>1
    <3> HIDE DEF f, e
    <3>1. a \in Nat /\ 9 \in Nat
      BY ONLY <3>0
    <3> HIDE DEF t, a
    <3>2. HsWidth(stream, t) = 9 \/ HsWidth(stream, t) = a
      BY Zenon DEF HsWidth, a, f, e
    <3> QED BY <3>1, <3>2, Zenon
  <2> QED BY <2>1, <2>2, <2>3, <2>4, <2>5, Zenon
<1> QED BY <1>1, <1>2, <1>3, Zenon

LEMMA HsDrained ==
    ASSUME HsWorks, ~H!HasBits(H!Needed)
    PROVE  out = H!Expected /\ H!InputSize = 0 /\ hsd.state # "yield_backref"
<1> DEFINE n == Len(stream.tokens)
           B == 8 * (taken - 1)
           b == hsd.bits
<1>1. PICK k \in 0 .. n : HsAt(stream, k, hsd, out)
  BY DEF HsWorks, HsHolds
<1> DEFINE p == HsPos(stream, k)
           m == HsWidth(stream, HsNext(stream, k))
<1>2. /\ p \in Nat /\ B \in Int /\ n \in Nat /\ b \in Nat /\ b <= B
      /\ (k < n => k + 1 \in 0 .. n /\ HsPos(stream, k + 1) = p + m /\ m \in Nat)
  <2>1. /\ p \in Nat /\ taken \in Nat /\ n \in Nat /\ b \in Nat
        /\ (k < n => k + 1 \in 0 .. n /\ HsPos(stream, k + 1) = p + m /\ m \in Nat)
    BY HsAfter, Zenon
  <2>2. B \in Int
    BY <2>1
  <2> QED BY <2>1, <2>2 DEF HsWorks
<1>3. hsd.state # "yield_backref"
  <2>1. ASSUME hsd.state = "yield_backref" PROVE FALSE
    <3>1. H!Needed = 0
      BY <2>1, Zenon DEF H!Needed
    <3>2. ~ (B - b >= 0)
      BY <3>1, Zenon DEF H!HasBits, H!BitsLeft
    <3> HIDE DEF B, b
    <3> QED BY <1>2, <3>2
  <2> QED BY <2>1
<1>4. PICK x, c : HsNeedIs(k, x, c)
  BY <1>1, <1>3, HsNeeds
<1>5. b = p + x /\ out = HsData(stream, k) /\ c \in 1 .. 8 /\ x \in Nat /\ x + c <= m
  BY <1>4, Zenon DEF HsNeedIs
<1>6. ~ (B - b >= c)
  BY <1>4, Zenon DEF H!HasBits, H!BitsLeft, HsNeedIs
<1> HIDE DEF B, b, n, m, p
<1>7. p <= B /\ B - b \in 0 .. 7 /\ (k < n => ~ (HsPos(stream, k + 1) <= B))
  BY <1>2, <1>5, <1>6
<1>8. k \in HsWhole
  BY <1>7 DEF HsWhole, p, B, n
<1>9. k + 1 \notin HsWhole
  <2>1. CASE k < n
    BY <1>7, <2>1 DEF HsWhole, B
  <2>2. CASE ~ (k < n)
    <3>1. k + 1 \notin 0 .. n
      BY <1>2, <2>2
    <3> QED BY <3>1 DEF HsWhole, n
  <2> QED BY <2>1, <2>2
<1>10. out = H!Expected
  BY <1>5, <1>8, <1>9, HsLast
<1>11. H!InputSize = 0
  <2> DEFINE y == B - b
  <2>1. H!InputSize = y \div 8
    BY DEF H!InputSize, H!BitsLeft, B, b
  <2>2. y \in 0 .. 7
    BY <1>7
  <2> HIDE DEF y
  <2>3. y \div 8 = 0
    BY <2>2
  <2> QED BY <2>1, <2>3
<1> QED BY <1>3, <1>10, <1>11

\* With the bits for it, a token that has been decoded is still to be delivered.
LEMMA HsPending ==
    ASSUME HsWorks, H!HasBits(H!Needed), hsd.state \in {"yield_literal", "yield_backref"}
    PROVE  out # H!Expected /\ (hsd.state = "yield_literal" => H!InputSize # 0)
<1> DEFINE n == Len(stream.tokens)
           B == 8 * (taken - 1)
           b == hsd.bits
<1>1. PICK k \in 0 .. n : HsAt(stream, k, hsd, out)
  BY DEF HsWorks, HsHolds
<1> DEFINE p == HsPos(stream, k)
           m == HsWidth(stream, HsNext(stream, k))
           j == k + 1
<1>2. /\ p \in Nat /\ B \in Int /\ n \in Nat /\ b \in Nat /\ b <= B
      /\ (k < n => /\ j \in 0 .. n /\ HsPos(stream, j) = p + m /\ m \in Nat
                   /\ Len(HsData(stream, k)) < Len(HsData(stream, j))
                   /\ Len(HsData(stream, j)) \in Nat /\ Len(HsData(stream, k)) \in Nat)
  <2>1. /\ p \in Nat /\ taken \in Nat /\ n \in Nat /\ b \in Nat
        /\ (k < n => /\ j \in 0 .. n /\ HsPos(stream, j) = p + m /\ m \in Nat
                     /\ Len(HsData(stream, k)) < Len(HsData(stream, j))
                     /\ Len(HsData(stream, j)) \in Nat /\ Len(HsData(stream, k)) \in Nat)
    BY HsAfter, Zenon
  <2>2. B \in Int
    BY <2>1
  <2> QED BY <2>1, <2>2 DEF HsWorks
<1> DEFINE shorter == k < n /\ HsPos(stream, j) <= B /\ Len(out) < Len(HsData(stream, j))
<1>3. ASSUME shorter PROVE out # H!Expected
  <2>1. j \in HsWhole
    BY <1>2, <1>3 DEF HsWhole
  <2> DEFINE x == Len(out)
             y == Len(HsData(stream, j))
             z == Len(H!Expected)
  <2>2. y <= z
    <3> HIDE DEF j
    <3>1. Len(HsData(stream, j)) <= Len(H!Expected)
      BY ONLY HsWorks, <2>1, HsBehind
    <3> QED BY <3>1
  <2>3. x < y /\ y \in Nat
    BY <1>2, <1>3
  <2>4. x \in Nat
    BY LengthIsNat, Zenon DEF HsWorks, HsHolds
  <2> HIDE DEF x, y, z, j
  <2>5. x # z
    <3>1. ASSUME x = z PROVE FALSE
      <4>1. y <= x
        BY <2>2, <3>1, Zenon
      <4> QED BY <2>3, <2>4, <4>1
    <3> QED BY <3>1
  <2> QED BY <2>5, Zenon DEF x, z
<1>4. CASE hsd.state = "yield_literal"
  <2>1. HsNext(stream, k).back = 0 /\ HsOn(stream, k, hsd, out, 1)
    BY <1>1, <1>4, Zenon DEF HsAt
  <2>2. b = p + 1 /\ out = HsData(stream, k)
    BY <2>1, Zenon DEF HsOn
  <2>3. H!Needed = 8
    BY <1>4, Zenon DEF H!Needed
  <2>4. B - b >= 8
    BY <2>3, Zenon DEF H!HasBits, H!BitsLeft
  <2>5. m = 9
    BY <2>1, Zenon DEF HsWidth
  <2>6. k < n
    <3>1. ASSUME ~ (k < n) PROVE FALSE
      <4> DEFINE t == HsNext(stream, k)
      <4>1. t = [back |-> 1, byte |-> 0, count |-> 1]
        BY <3>1, Zenon DEF HsNext
      <4>2. t.back = 0
        BY <2>1
      <4> HIDE DEF t
      <4>3. t.back = 1
        BY <4>1
      <4> QED BY <4>2, <4>3
    <3> QED BY <3>1
  <2>7. shorter
    <3>1. HsPos(stream, j) = p + 9
      BY <1>2, <2>5, <2>6, Zenon
    <3>2. p + 9 <= B
      <4> HIDE DEF p, B, b
      <4> QED BY <1>2, <2>2, <2>4
    <3>3. Len(out) < Len(HsData(stream, j))
      BY <1>2, <2>2, <2>6, Zenon
    <3> QED BY <2>6, <3>1, <3>2, <3>3, Zenon
  <2>8. H!InputSize # 0
    <3> DEFINE y == B - b
    <3>1. H!InputSize = y \div 8
      BY DEF H!InputSize, H!BitsLeft
    <3>2. y \in Nat /\ y >= 8
      <4> HIDE DEF B, b
      <4> QED BY <1>2, <2>4
    <3> HIDE DEF y
    <3>3. y \div 8 # 0
      BY <3>2
    <3> QED BY <3>1, <3>3
  <2> HIDE DEF shorter
  <2> QED BY <1>3, <2>7, <2>8
<1>5. CASE hsd.state = "yield_backref"
  <2>1. HsCopies(stream, k, hsd, out)
    BY <1>1, <1>5, Zenon DEF HsAt
  <2>2. /\ k < n /\ HsNext(stream, k).back # 0 /\ b = p + (1 + stream.window + stream.lookahead)
        /\ hsd.output_count \in 1 .. HsNext(stream, k).count
        /\ Len(out) = Len(HsData(stream, j)) - hsd.output_count
    BY <2>1, Zenon DEF HsCopies
  <2>3. m = 1 + stream.window + stream.lookahead
    BY <2>2, Zenon DEF HsWidth
  <2>4. HsPos(stream, j) = b
    BY <1>2, <2>2, <2>3, Zenon
  <2>5. Len(out) < Len(HsData(stream, j))
    <3> DEFINE x == Len(out)
               y == Len(HsData(stream, j))
               c == hsd.output_count
               d == HsNext(stream, k).count
    <3>1. d \in Nat
      BY <2>2, HsInCopy, Zenon
    <3>2. x = y - c /\ c \in 1 .. d /\ y \in Nat
      BY <1>2, <2>2
    <3> HIDE DEF x, y, c, d
    <3>3. x < y
      BY <3>1, <3>2
    <3> QED BY <3>3 DEF x, y
  <2>6. shorter
    BY <1>2, <2>2, <2>4, <2>5, Zenon
  <2> HIDE DEF shorter
  <2>7. hsd.state # "yield_literal"
    BY <1>5
  <2> QED BY <1>3, <2>6, <2>7
<1> QED BY <1>4, <1>5

-----------------------------------------------------------------------------
(***************************************************************************)
(* The invariant of heatshrink.                                            *)
(***************************************************************************)
HsFresh ==
    /\ window_sz2 = -1 /\ taken = 0 /\ out = <<>> /\ decoder \in {"null", "stale"}
    /\ res # "error" /\ res # "ok"

HsStopped == ~H!HasBits(H!Needed) \/ hsd.state \in {"yield_literal", "yield_backref"}

HsReady ==
    /\ decoder = "ready" /\ HsWorks /\ res # "error"
    /\ wanted = 0 => HsStopped
    /\ res = "more" => out = H!Expected
    /\ destroyed # "no" => (destroyed = "ok" <=> out = H!Expected)

HsRejected ==
    res = "error" /\ ~H!Accepted /\ out = <<>> /\ wanted = 0 /\ decoder \in {"null", "stale"}

HsCall ==
    /\ wanted \in Nat /\ got \in Nat /\ (wanted > 0 <=> res = "again")
    /\ wanted > 0 => got <= wanted /\ got <= Len(out) /\ destroyed = "no"

HsInv ==
    /\ HsStream /\ fed \in Nat /\ taken \in Nat /\ taken <= fed /\ fed <= H!StreamSize
    /\ out \in Seq(U8) /\ Begins(out, stream.data)
    /\ HsCall /\ (HsFresh \/ HsReady \/ HsRejected)

\* To the caller the bytes of a call are delivered when it returns.
HsDelivered == IF wanted > 0 THEN SubSeq(out, 1, Len(out) - got) ELSE out

HsMoves ==
    Moves(stream.data, fed - taken, wanted, HsDelivered, res,
          fed' - taken', wanted', HsDelivered', res')

LEMMA HsKept ==
    ASSUME stream' = stream
    PROVE  (HsStream => HsStream') /\ H!StreamSize' = H!StreamSize /\ (H!Accepted' <=> H!Accepted)
<1>1. HsStream => HsStream'
  BY Zenon DEF HsStream
<1>2. H!StreamSize' = H!StreamSize
  BY Zenon DEF H!StreamSize
<1>3. H!Accepted' <=> H!Accepted
  BY Zenon DEF H!Accepted
<1> QED BY <1>1, <1>2, <1>3

LEMMA HsWorksStill ==
    ASSUME HsStream, HsAccepts(stream), stream' = stream,
           window_sz2' = stream.window, lookahead_sz2' = stream.lookahead,
           taken' \in Nat \ {0}, taken' <= H!StreamSize, hsd'.bits <= 8 * (taken' - 1),
           HsHolds(stream, hsd', out')
    PROVE  HsWorks'
<1>1. HsStream' /\ H!StreamSize' = H!StreamSize
  BY HsKept
<1> QED BY <1>1, Zenon DEF HsWorks

LEMMA HsSame ==
    ASSUME UNCHANGED <<stream, taken, window_sz2, lookahead_sz2, hsd, out>>
    PROVE  /\ HsWorks => HsWorks'
           /\ H!Expected' = H!Expected
           /\ (HsStopped' <=> HsStopped) /\ (H!HasBits(H!Needed)' <=> H!HasBits(H!Needed))
<1>1. (HsStream => HsStream') /\ H!StreamSize' = H!StreamSize
  BY HsKept
<1>2. HsWorks => HsWorks'
  BY <1>1, Zenon DEF HsWorks
<1>3. H!Expected' = H!Expected
  BY DEF H!Expected
<1>4. H!Needed' = H!Needed
  BY Zenon DEF H!Needed
<1>5. H!HasBits(H!Needed)' <=> H!HasBits(H!Needed)
  BY <1>4, Zenon DEF H!HasBits, H!BitsLeft
<1>6. HsStopped' <=> HsStopped
  BY <1>5, Zenon DEF HsStopped
<1> QED BY <1>2, <1>3, <1>5, <1>6

\* What is delivered begins the data.
LEMMA HsDelivers ==
    ASSUME NEW s, HsFormat(s), NEW h, NEW o, HsHolds(s, h, o)
    PROVE  o \in Seq(U8) /\ Begins(o, HsData(s, Len(s.tokens)))
<1> DEFINE n == Len(s.tokens)
           e == HsData(s, n)
<1>1. o \in Seq(U8)
  BY DEF HsHolds
<1>2. n \in Nat
  BY HsTokens
<1>3. PICK k \in 0 .. n : HsAt(s, k, h, o)
  BY DEF HsHolds
<1>4. ASSUME NEW j \in 0 .. n PROVE Begins(HsData(s, j), e) /\ HsData(s, j) \in Seq(U8)
  <2>1. n \in 0 .. n /\ j <= n
    BY <1>2
  <2> QED BY <2>1, HsOrder, HsTape, Zenon
<1>5. e \in Seq(U8)
  <2>1. n \in 0 .. n
    BY <1>2
  <2> QED BY <1>4, <2>1
<1>6. CASE h.state = "yield_backref"
  <2>1. k < n /\ Begins(o, HsData(s, k + 1))
    BY <1>3, <1>6, Zenon DEF HsAt, HsCopies
  <2> HIDE DEF n, e
  <2>2. k + 1 \in 0 .. n
    BY <1>2, <2>1
  <2>3. Begins(HsData(s, k + 1), e) /\ HsData(s, k + 1) \in Seq(U8)
    BY <1>4, <2>2
  <2> DEFINE d == HsData(s, k + 1)
  <2> HIDE DEF d
  <2>4. Begins(o, d) /\ Begins(d, e) /\ d \in Seq(U8)
    BY <2>1, <2>3 DEF d
  <2>5. Begins(o, e)
    BY ONLY <1>1, <1>5, <2>4, BeginsTransitive
  <2> QED BY <1>1, <2>5 DEF e, n
<1>7. CASE h.state # "yield_backref"
  <2>1. o = HsData(s, k)
    BY <1>3, <1>7, Zenon DEF HsAt, HsOn
  <2>2. Begins(o, e)
    BY <1>4, <2>1, Zenon
  <2> QED BY <1>1, <2>2
<1> QED BY <1>6, <1>7

\* The creator's stream.
LEMMA HsSameBits ==
    ASSUME NEW s, NEW u, s.tokens = u.tokens, s.window = u.window, s.lookahead = u.lookahead
    PROVE  H!TokensBits(s) = H!TokensBits(u)
<1>1. \A t : H!TokenBits(s, t) = H!TokenBits(u, t)
  BY Zenon DEF H!TokenBits
<1> DEFINE Is(v, g) == g = [k \in 0 .. Len(v.tokens) |->
                               IF k = 0 THEN <<>> ELSE g[k - 1] \o H!TokenBits(v, v.tokens[k])]
<1>2. H!TokensBits(s) = (CHOOSE g : Is(s, g)) /\ H!TokensBits(u) = (CHOOSE g : Is(u, g))
  BY DEF H!TokensBits
<1>3. \A g : Is(s, g) <=> Is(u, g)
  BY <1>1, Zenon
<1> HIDE DEF Is
<1> QED BY <1>2, <1>3, Zenon

LEMMA HsStreams ==
    ASSUME NEW s \in HeatshrinkStreams,
           stream = [window |-> s.window, lookahead |-> s.lookahead, tokens |-> s.tokens,
                     dynamic |-> s.dynamic, bits |-> H!TokensBits(s)[Len(s.tokens)],
                     data |-> H!Data(s.tokens)[Len(s.tokens)]]
    PROVE  HsStream
<1>1. HsFormat(s)
  BY HsFormats
<1>2. /\ stream.window = s.window /\ stream.lookahead = s.lookahead /\ stream.tokens = s.tokens
      /\ stream.dynamic = s.dynamic /\ stream.bits = H!TokensBits(s)[Len(s.tokens)]
      /\ stream.data = H!Data(s.tokens)[Len(s.tokens)]
  OBVIOUS
<1>3. HsFormat(stream)
  BY <1>1, <1>2, Zenon DEF HsFormat
<1>4. H!TokensBits(stream) = H!TokensBits(s)
  BY <1>2, HsSameBits, Zenon
<1> QED BY <1>2, <1>3, <1>4, Zenon DEF HsStream, HsBits, HsData

LEMMA HsStreamSize ==
    ASSUME HsStream
    PROVE  H!StreamSize \in Nat \ {0} /\ stream.data \in Seq(U8)
<1> DEFINE n == Len(stream.tokens)
           b == stream.bits
           x == Len(b)
<1>1. HsFormat(stream) /\ n \in Nat /\ b = HsBits(stream, n) /\ stream.data = HsData(stream, n)
  BY HsTokens DEF HsStream
<1>2. n \in 0 .. n
  BY <1>1
<1>3. HsPos(stream, n) \in Nat /\ HsData(stream, n) \in Seq(U8)
  BY <1>1, <1>2, HsTape, Zenon
<1>4. x \in Nat
  BY <1>1, <1>3, Zenon DEF HsPos
<1>5. H!StreamSize = 1 + (x + 7) \div 8
  BY DEF H!StreamSize
<1> HIDE DEF x
<1>6. 1 + (x + 7) \div 8 \in Nat \ {0}
  BY <1>4
<1> QED BY <1>1, <1>3, <1>5, <1>6, Zenon

LEMMA HsStarts ==
    ASSUME H!Init
    PROVE  HsInv /\ fed = 0 /\ taken = 0 /\ wanted = 0 /\ out = <<>> /\ res = "none"
<1>1. /\ fed = 0 /\ taken = 0 /\ window_sz2 = -1 /\ decoder = "null" /\ wanted = 0 /\ got = 0
      /\ out = <<>> /\ res = "none" /\ destroyed = "no"
  BY DEF H!Init
<1>2. HsStream
  <2>1. PICK s \in HeatshrinkStreams :
           stream = [window |-> s.window, lookahead |-> s.lookahead, tokens |-> s.tokens,
                     dynamic |-> s.dynamic, bits |-> H!TokensBits(s)[Len(s.tokens)],
                     data |-> H!Data(s.tokens)[Len(s.tokens)]]
    BY DEF H!Init
  <2> QED BY <2>1, HsStreams
<1>3. H!StreamSize \in Nat /\ stream.data \in Seq(U8)
  BY <1>2, HsStreamSize
<1>4. out \in Seq(U8) /\ Begins(out, stream.data)
  <2> DEFINE d == stream.data
             e == <<>>
  <2>1. d \in Seq(U8) /\ e \in Seq(U8) /\ Len(e) = 0 /\ Len(d) \in Nat
    BY <1>3
  <2> HIDE DEF d, e
  <2>2. Len(e) <= Len(d) /\ \A i \in 1 .. Len(e) : e[i] = d[i]
    BY <2>1
  <2>3. Begins(e, d)
    BY <2>1, <2>2, BeginsPointwise
  <2> QED BY <1>1, <2>1, <2>3, Zenon DEF d, e
<1>5. HsCall
  BY <1>1 DEF HsCall
<1>6. HsFresh
  BY <1>1 DEF HsFresh
<1>7. fed \in Nat /\ taken \in Nat /\ taken <= fed /\ fed <= H!StreamSize
  <2> DEFINE z == H!StreamSize
  <2>1. z \in Nat
    BY <1>3
  <2> HIDE DEF z
  <2>2. fed <= z
    BY <1>1, <2>1
  <2> QED BY <1>1, <2>2 DEF z
<1> QED BY <1>1, <1>2, <1>4, <1>5, <1>6, <1>7, Zenon DEF HsInv

\* Between the calls.
LEMMA HsIdle ==
    ASSUME HsInv, ~H!InCall
    PROVE  /\ wanted = 0 /\ res # "again" /\ HsDelivered = out /\ fed - taken \in Nat
           /\ H!StreamSize \in Nat /\ (~H!ChunkAvailable => fed - taken = 0)
<1>1. wanted \in Nat /\ ~ (wanted > 0) /\ fed \in Nat /\ taken \in Nat /\ taken <= fed
      /\ (wanted > 0 <=> res = "again") /\ HsStream
  BY DEF HsInv, HsCall, H!InCall
<1>2. wanted = 0
  BY <1>1
<1>3. HsDelivered = out
  BY <1>1, Zenon DEF HsDelivered
<1>4. H!StreamSize \in Nat
  BY <1>1, HsStreamSize
<1>5. ~H!ChunkAvailable => fed - taken = 0
  BY <1>1 DEF H!ChunkAvailable
<1> QED BY <1>1, <1>2, <1>3, <1>4, <1>5

\* The parts of the invariant that depend on the decoder.
LEMMA HsInvStill ==
    ASSUME HsInv, UNCHANGED <<stream, taken, window_sz2, lookahead_sz2, hsd, out>>,
           fed' \in Nat, fed <= fed', fed' <= H!StreamSize, HsCall', (HsFresh \/ HsReady \/ HsRejected)'
    PROVE  HsInv'
<1>1. HsStream' /\ H!StreamSize' = H!StreamSize
  BY HsKept DEF HsInv
<1>2. taken' \in Nat /\ taken' <= fed'
  BY DEF HsInv
<1>3. out' \in Seq(U8) /\ Begins(out', stream'.data)
  BY Zenon DEF HsInv
<1>4. fed' <= H!StreamSize'
  BY <1>1, Zenon
<1> QED BY <1>1, <1>2, <1>3, <1>4, Zenon DEF HsInv

LEMMA HsFeeds ==
    ASSUME HsInv, H!Feed
    PROVE  HsInv' /\ HsMoves
<1>1. /\ ~H!InCall /\ ~H!ChunkAvailable
      /\ \E n \in 1 .. MaxChunk : fed + n <= H!StreamSize /\ fed' = fed + n
      /\ UNCHANGED <<stream, taken, window_sz2, lookahead_sz2, decoder, hsd, wanted, got, out, res, destroyed>>
  BY DEF H!Feed, H!header
<1>2. /\ wanted = 0 /\ HsDelivered = out /\ fed - taken = 0 /\ H!StreamSize \in Nat /\ fed \in Nat /\ taken \in Nat
  BY <1>1, HsIdle DEF HsInv
<1>3. PICK n \in 1 .. MaxChunk : fed + n <= H!StreamSize /\ fed' = fed + n
  BY <1>1
<1> DEFINE z == H!StreamSize
           f == fed'
<1>4. z \in Nat /\ fed + n <= z /\ f = fed + n /\ n \in Nat /\ n > 0 /\ MaxChunk \in Nat
  BY <1>2, <1>3, StreamsAssumption DEF H!StreamsAssumption
<1> HIDE DEF z, f
<1>5. f \in Nat /\ fed <= f /\ f <= z /\ f - taken \in Nat \ {0}
  BY <1>2, <1>4
<1>6. HsCall'
  BY <1>1, Zenon DEF HsInv, HsCall
<1>7. (HsFresh \/ HsReady \/ HsRejected)'
  <2>1. CASE HsFresh
    BY <1>1, <2>1, Zenon DEF HsFresh
  <2>2. CASE HsReady
    BY <1>1, <2>2, HsSame, Zenon DEF HsReady
  <2>3. CASE HsRejected
    BY <1>1, <2>3, HsKept, Zenon DEF HsRejected
  <2> QED BY <2>1, <2>2, <2>3 DEF HsInv
<1>8. HsInv'
  BY <1>1, <1>5, <1>6, <1>7, HsInvStill DEF f, z
<1>9. HsDelivered' = out' /\ wanted' = wanted /\ out' = out
  <2>1. ~ (wanted' > 0)
    BY <1>1, <1>2
  <2> QED BY <1>1, <2>1, Zenon DEF HsDelivered
<1>10. HsMoves
  <2>1. fed' - taken' \in Nat \ {0}
    BY <1>1, <1>5 DEF f
  <2> QED BY <1>1, <1>2, <1>9, <2>1, Zenon DEF HsMoves, Moves
<1> QED BY <1>8, <1>10

LEMMA HsCalls ==
    ASSUME HsInv, H!Call
    PROVE  HsInv' /\ HsMoves
<1>1. /\ ~H!InCall /\ res # "error" /\ destroyed = "no" /\ wanted' \in 1 .. MaxWanted /\ got' = 0 /\ res' = "again"
      /\ UNCHANGED <<stream, fed, taken, window_sz2, lookahead_sz2, decoder, hsd, out, destroyed>>
  BY DEF H!Call, H!header, H!input
<1>2. /\ wanted = 0 /\ HsDelivered = out /\ fed - taken \in Nat /\ fed \in Nat /\ fed <= H!StreamSize
      /\ out \in Seq(U8)
  BY <1>1, HsIdle DEF HsInv
<1> DEFINE w == wanted'
<1>3. w \in Nat \ {0} /\ w > 0 /\ w # 0
  <2>1. MaxWanted \in Nat /\ w \in 1 .. MaxWanted
    BY <1>1, StreamsAssumption DEF H!StreamsAssumption
  <2> HIDE DEF w
  <2> QED BY <2>1
<1>4. HsCall'
  <2>1. Len(out') \in Nat
    BY <1>1, <1>2
  <2> DEFINE g == got'
             l == Len(out')
  <2>2. g = 0 /\ l \in Nat /\ w \in Nat
    BY <1>1, <1>3, <2>1
  <2> HIDE DEF w, g, l
  <2>3. g \in Nat /\ g <= w /\ g <= l
    BY <2>2
  <2> QED BY <1>1, <1>3, <2>3, Zenon DEF HsCall, w, g, l
<1>5. (HsFresh \/ HsReady \/ HsRejected)'
  <2>1. CASE HsFresh
    BY <1>1, <2>1, Zenon DEF HsFresh
  <2>2. CASE HsReady
    <3>1. HsWorks'
      BY <1>1, <2>2, HsSame, Zenon DEF HsReady
    <3> QED BY <1>1, <1>3, <2>2, <3>1, Zenon DEF HsReady, w
  <2>3. CASE HsRejected
    BY <1>1, <2>3 DEF HsRejected
  <2> QED BY <2>1, <2>2, <2>3 DEF HsInv
<1>6. HsInv'
  <2>1. fed' \in Nat /\ fed <= fed' /\ fed' <= H!StreamSize
    BY <1>1, <1>2
  <2> QED BY <1>1, <1>4, <1>5, <2>1, HsInvStill
<1>7. HsDelivered' = out
  <2>1. HsDelivered' = SubSeq(out', 1, Len(out') - got')
    BY <1>3, Zenon DEF HsDelivered, w
  <2> DEFINE o == out
  <2>2. o \in Seq(U8)
    BY <1>2
  <2> HIDE DEF o
  <2>3. SubSeq(o, 1, Len(o) - 0) = o
    BY <2>2, Full
  <2> QED BY <1>1, <2>1, <2>3, Zenon DEF o
<1>8. HsMoves
  <2>1. w \in Nat \ {0}
    BY <1>3
  <2>2. fed' - taken' = fed - taken
    BY <1>1, Zenon
  <2> QED BY <1>1, <1>2, <1>7, <2>1, <2>2, Zenon DEF HsMoves, Moves, w
<1> QED BY <1>6, <1>8

LEMMA HsDestroys ==
    ASSUME HsInv, H!Destroy
    PROVE  HsInv' /\ HsMoves
<1>1. /\ ~H!InCall /\ destroyed = "no"
      /\ (decoder = "ready" => destroyed' \in H!Finished)
      /\ UNCHANGED <<stream, fed, taken, window_sz2, lookahead_sz2, decoder, hsd, wanted, got, out, res>>
  <2>1. destroyed' \in CASE decoder = "null" -> {"ok"}
                         [] decoder = "ready" -> H!Finished
                         [] decoder = "stale" -> {"ok", "corrupt"}
    BY DEF H!Destroy
  <2>2. decoder = "ready" => destroyed' \in H!Finished
    BY <2>1, Zenon
  <2> QED BY <2>2 DEF H!Destroy, H!header, H!input
<1>2. /\ wanted = 0 /\ HsDelivered = out /\ fed \in Nat /\ fed <= H!StreamSize
  BY <1>1, HsIdle DEF HsInv
<1>3. HsCall'
  <2>1. ~ (wanted' > 0)
    BY <1>1, <1>2
  <2>2. wanted' \in Nat /\ got' \in Nat /\ (wanted' > 0 <=> res' = "again")
    BY <1>1, Zenon DEF HsInv, HsCall
  <2> QED BY <2>1, <2>2, Zenon DEF HsCall
<1>4. ASSUME HsReady PROVE HsReady'
  <2>1. HsWorks' /\ (HsStopped' <=> HsStopped) /\ H!Expected' = H!Expected
    BY <1>1, <1>4, HsSame, Zenon DEF HsReady
  <2>2. HsWorks /\ HsStopped /\ decoder = "ready"
    BY <1>2, <1>4 DEF HsReady
  <2>3. destroyed' = "ok" <=> out = H!Expected
    <3>0. destroyed' \in H!Finished
      BY <1>1, <2>2
    <3>1. CASE ~H!HasBits(H!Needed)
      <4>1. out = H!Expected /\ H!InputSize = 0 /\ hsd.state # "yield_backref"
        BY <2>2, <3>1, HsDrained
      <4>2. H!Finished = {"ok"}
        BY <4>1, Zenon DEF H!Finished
      <4> QED BY <3>0, <4>1, <4>2
    <3>2. CASE H!HasBits(H!Needed)
      <4>1. hsd.state \in {"yield_literal", "yield_backref"}
        BY <2>2, <3>2 DEF HsStopped
      <4>2. out # H!Expected /\ (hsd.state = "yield_literal" => H!InputSize # 0)
        BY <2>2, <3>2, <4>1, HsPending
      <4>3. H!Finished = {"corrupt"}
        BY <4>1, <4>2, Zenon DEF H!Finished
      <4> QED BY <3>0, <4>2, <4>3
    <3> QED BY <3>1, <3>2
  <2> QED BY <1>1, <1>4, <2>1, <2>3, Zenon DEF HsReady
<1>5. (HsFresh \/ HsReady \/ HsRejected)'
  <2>1. CASE HsFresh
    BY <1>1, <2>1, Zenon DEF HsFresh
  <2>2. CASE HsRejected
    BY <1>1, <2>2, HsKept, Zenon DEF HsRejected
  <2> QED BY <1>4, <2>1, <2>2 DEF HsInv
<1>6. HsInv'
  <2>1. fed' \in Nat /\ fed <= fed' /\ fed' <= H!StreamSize
    BY <1>1, <1>2
  <2> QED BY <1>1, <1>3, <1>5, <2>1, HsInvStill
<1>7. HsMoves
  <2>1. HsDelivered' = HsDelivered /\ fed' - taken' = fed - taken
    BY <1>1, Zenon DEF HsDelivered
  <2> QED BY <1>1, <2>1, Zenon DEF HsMoves, Moves
<1> QED BY <1>6, <1>7

\* The reader is dumped and restored.
LEMMA HsRestores ==
    ASSUME HsInv, H!Restore
    PROVE  HsInv' /\ HsMoves
<1>1. /\ ~H!InCall /\ decoder' = IF decoder = "null" THEN "stale" ELSE decoder
      /\ UNCHANGED <<stream, fed, taken, window_sz2, lookahead_sz2, hsd, wanted, got, out, res, destroyed>>
  BY DEF H!Restore, H!RestoredDecoder, H!header, H!input
<1>2. fed \in Nat /\ fed <= H!StreamSize
  BY DEF HsInv
<1>3. HsCall'
  BY <1>1, Zenon DEF HsInv, HsCall
<1>4. (HsFresh \/ HsReady \/ HsRejected)'
  <2>0. decoder \in {"null", "stale"} => decoder' \in {"null", "stale"}
    BY <1>1
  <2>1. CASE HsFresh
    BY <1>1, <2>0, <2>1, Zenon DEF HsFresh
  <2>2. CASE HsReady
    <3>1. decoder' = decoder
      BY <1>1, <2>2 DEF HsReady
    <3> QED BY <1>1, <2>2, <3>1, HsSame, Zenon DEF HsReady
  <2>3. CASE HsRejected
    BY <1>1, <2>0, <2>3, HsKept, Zenon DEF HsRejected
  <2> QED BY <2>1, <2>2, <2>3 DEF HsInv
<1>5. HsInv'
  <2>1. fed' \in Nat /\ fed <= fed' /\ fed' <= H!StreamSize
    BY <1>1, <1>2
  <2> QED BY <1>1, <1>3, <1>4, <2>1, HsInvStill
<1>6. HsMoves
  <2>1. HsDelivered' = HsDelivered /\ fed' - taken' = fed - taken
    BY <1>1, Zenon DEF HsDelivered
  <2> QED BY <1>1, <2>1, Zenon DEF HsMoves, Moves
<1> QED BY <1>5, <1>6

\* In a call.
LEMMA HsInCall ==
    ASSUME HsInv, H!InCall
    PROVE  /\ wanted \in Nat /\ wanted > 0 /\ wanted # 0 /\ res = "again" /\ destroyed = "no" /\ got \in Nat
           /\ got <= wanted /\ got <= Len(out) /\ Len(out) \in Nat /\ out \in Seq(U8) /\ Begins(out, stream.data)
           /\ HsDelivered = SubSeq(out, 1, Len(out) - got)
           /\ fed \in Nat /\ taken \in Nat /\ taken <= fed /\ fed - taken \in Nat
           /\ fed <= H!StreamSize /\ H!StreamSize \in Nat /\ stream.data \in Seq(U8) /\ HsStream
           /\ (HsFresh \/ HsReady)
           /\ (~H!ChunkAvailable => fed - taken = 0)
<1>1. /\ wanted \in Nat /\ wanted > 0 /\ res = "again" /\ destroyed = "no" /\ got \in Nat
      /\ got <= wanted /\ got <= Len(out) /\ out \in Seq(U8) /\ Begins(out, stream.data)
      /\ fed \in Nat /\ taken \in Nat /\ taken <= fed /\ fed <= H!StreamSize /\ HsStream
  BY DEF HsInv, HsCall, H!InCall
<1>2. wanted # 0
  BY <1>1
<1>3. HsDelivered = SubSeq(out, 1, Len(out) - got)
  BY <1>1, Zenon DEF HsDelivered
<1>4. HsFresh \/ HsReady
  BY <1>2 DEF HsInv, HsRejected
<1>5. fed - taken \in Nat /\ (~H!ChunkAvailable => fed - taken = 0) /\ Len(out) \in Nat
  BY <1>1 DEF H!ChunkAvailable
<1>6. H!StreamSize \in Nat /\ stream.data \in Seq(U8)
  BY <1>1, HsStreamSize
<1> QED BY <1>1, <1>2, <1>3, <1>4, <1>5, <1>6

\* The invariant in parts.
LEMMA HsInvIs ==
    ASSUME HsInv, stream' = stream, fed' = fed, taken' \in Nat, taken' <= fed,
           out' \in Seq(U8), Begins(out', stream.data), HsCall', (HsFresh \/ HsReady \/ HsRejected)'
    PROVE  HsInv'
<1>1. HsStream' /\ H!StreamSize' = H!StreamSize
  BY HsKept DEF HsInv
<1>2. fed' \in Nat /\ fed' <= H!StreamSize' /\ taken' <= fed'
  BY <1>1, Zenon DEF HsInv
<1> QED BY <1>1, <1>2, Zenon DEF HsInv

\* The decoder after heatshrink_decoder_reset.
LEMMA HsResets ==
    ASSUME HsStream, HsAccepts(stream), NEW h, h = H!ResetDecoder(stream.window)
    PROVE  HsHolds(stream, h, <<>>) /\ h.bits = 0
<1> DEFINE W == 2 ^ stream.window
           b == [a \in 0 .. W - 1 |-> 0]
           n == Len(stream.tokens)
           o == <<>>
<1>1. HsFormat(stream) /\ n \in Nat /\ HsPos(stream, 0) = 0 /\ HsData(stream, 0) = <<>>
  BY HsTape, HsTokens DEF HsStream
<1>2. W \in Nat /\ W > 0
  <2>1. stream.window \in 0 .. 19
    BY DEF HsAccepts
  <2> QED BY <2>1, PowersOfTwo
<1>3. h = [state |-> "tag_bit", bits |-> 0, output_index |-> 0, output_count |-> 0,
           head_index |-> 0, buffer |-> b]
  BY Zenon DEF H!ResetDecoder
<1>4. b \in [0 .. W - 1 -> U8]
  BY DEF U8
<1>5. ASSUME NEW i \in Int, Len(o) - W < i, i <= Len(o) PROVE b[(i - 1) % W] = HsByte(o, i)
  <2>1. Len(o) = 0
    OBVIOUS
  <2> DEFINE x == i - 1
  <2>2. x \in Int
    OBVIOUS
  <2> HIDE DEF x
  <2>3. x % W \in 0 .. W - 1
    BY <1>2, <2>2, Remainder
  <2> HIDE DEF W
  <2>4. b[x % W] = 0
    BY <2>3
  <2>5. i < 1
    BY <1>5, <2>1
  <2> QED BY <2>4, <2>5, Zenon DEF HsByte, x
<1> HIDE DEF b, W
<1>6. HsWindow(b, W, o)
  BY <1>5 DEF HsWindow
<1>7. /\ h.state = "tag_bit" /\ h.bits = 0 /\ h.head_index = 0 /\ h.buffer = b
      /\ h \in HsDecoders(W)
  BY <1>3, <1>4 DEF HsDecoders, HsStates
<1>8. HsAt(stream, 0, h, o)
  <2>1. 0 + 0 = 0
    OBVIOUS
  <2>2. HsOn(stream, 0, h, o, 0)
    BY <1>1, <1>7, <2>1, Zenon DEF HsOn
  <2> QED BY <1>7, <2>2, Zenon DEF HsAt
<1>9. o \in Seq(U8) /\ Len(o) = 0 /\ 0 \in 0 .. n
  BY <1>1
<1> HIDE DEF o
<1>10. HsHolds(stream, h, o)
  BY <1>6, <1>7, <1>8, <1>9, Zenon DEF HsHolds, W, n
<1> QED BY <1>7, <1>10 DEF o

LEMMA HsHeads ==
    ASSUME HsInv, H!Header
    PROVE  HsInv' /\ HsMoves /\ stream' = stream
<1>1. /\ H!InCall /\ window_sz2 = -1
      /\ UNCHANGED <<stream, fed, got, out, destroyed>>
  BY DEF H!Header, H!input
<1>2. /\ wanted \in Nat /\ wanted > 0 /\ res = "again" /\ destroyed = "no" /\ got \in Nat
      /\ got <= wanted /\ got <= Len(out) /\ out \in Seq(U8) /\ Begins(out, stream.data)
      /\ HsDelivered = SubSeq(out, 1, Len(out) - got)
      /\ fed \in Nat /\ taken \in Nat /\ taken <= fed /\ fed - taken \in Nat
      /\ fed <= H!StreamSize /\ H!StreamSize \in Nat /\ HsStream
      /\ (~H!ChunkAvailable => fed - taken = 0)
  BY <1>1, HsInCall
<1>3. HsFresh
  <2>1. ~HsReady
    <3>1. ASSUME HsReady PROVE FALSE
      <4>1. window_sz2 \in 4 .. 15
        BY <3>1 DEF HsReady, HsWorks, HsAccepts
      <4> QED BY <1>1, <4>1
    <3> QED BY <3>1
  <2> QED BY <1>1, <2>1, HsInCall
<1>4. taken = 0 /\ out = <<>> /\ got = 0 /\ decoder \in {"null", "stale"}
  <2>1. out = <<>> /\ taken = 0 /\ decoder \in {"null", "stale"}
    BY <1>3 DEF HsFresh
  <2>2. Len(out) = 0
    BY <2>1
  <2> QED BY <1>2, <2>1, <2>2
<1>5. HsDelivered = out
  <2>1. HsDelivered = SubSeq(out, 1, Len(out) - 0)
    BY <1>2, <1>4, Zenon
  <2> DEFINE o == out
  <2>2. o \in Seq(U8)
    BY <1>2
  <2> HIDE DEF o
  <2>3. SubSeq(o, 1, Len(o) - 0) = o
    BY <2>2, Full
  <2> QED BY <2>1, <2>3, Zenon DEF o
<1>6. CASE ~H!ChunkAvailable
  <2>1. wanted' = 0 /\ res' = "more" /\ UNCHANGED <<taken, window_sz2, lookahead_sz2, decoder, hsd>>
    BY <1>6 DEF H!Header, H!Return, H!header
  <2>2. HsCall'
    BY <1>1, <1>2, <2>1 DEF HsCall
  <2>3. HsFresh'
    BY <1>1, <1>3, <2>1 DEF HsFresh
  <2>4. HsInv'
    BY <1>1, <1>2, <2>1, <2>2, <2>3, HsInvIs
  <2>5. fed' - taken' = 0 /\ HsDelivered' = out
    <3>1. ~ (wanted' > 0)
      BY <2>1
    <3> QED BY <1>1, <1>2, <1>6, <2>1, <3>1, Zenon DEF HsDelivered
  <2>6. HsMoves
    BY <1>2, <1>5, <2>1, <2>5, Zenon DEF HsMoves, Moves
  <2> QED BY <1>1, <2>4, <2>6
<1>7. CASE H!ChunkAvailable
  <2>1. /\ taken' = taken + 1 /\ window_sz2' = stream.window /\ lookahead_sz2' = stream.lookahead
        /\ IF H!Accepted
           THEN decoder' = "ready" /\ hsd' = H!ResetDecoder(stream.window) /\ UNCHANGED <<wanted, res>>
           ELSE res' = "error" /\ wanted' = 0 /\ UNCHANGED <<decoder, hsd>>
    BY <1>7 DEF H!Header, H!Return, H!header
  <2>2. /\ taken' = 1 /\ taken' \in Nat \ {0} /\ taken' <= fed /\ fed' = fed /\ taken' <= H!StreamSize
        /\ fed' - taken' \in 0 .. fed - taken
    <3>1. taken < fed
      BY <1>7 DEF H!ChunkAvailable
    <3> DEFINE tk == taken'
               f == fed'
               z == H!StreamSize
    <3>2. tk = 1 /\ f = fed /\ taken = 0 /\ z \in Nat /\ fed <= z
      BY <1>1, <1>2, <1>4, <2>1
    <3> HIDE DEF tk, f, z
    <3>3. tk \in Nat \ {0} /\ tk <= fed /\ tk <= z /\ f - tk \in 0 .. fed - taken
      BY <1>2, <3>1, <3>2
    <3> QED BY <3>2, <3>3 DEF tk, f, z
  <2>3. CASE H!Accepted
    <3>1. decoder' = "ready" /\ hsd' = H!ResetDecoder(stream.window) /\ UNCHANGED <<wanted, res>>
      BY <2>1, <2>3
    <3>2. HsAccepts(stream)
      <4> DEFINE f == stream.window
                 e == stream.lookahead
      <4>1. f \in 4 .. 19 /\ e \in 3 .. 18
        BY <1>2 DEF HsStream, HsFormat
      <4>2. (f <= 15 /\ e < f) \/ (f = 8 /\ e = 7)
        BY <2>3, Zenon DEF H!Accepted
      <4> HIDE DEF f, e
      <4>3. f \in 4 .. 15 /\ e \in 3 .. 14 /\ e < f
        BY <4>1, <4>2
      <4> QED BY <4>3 DEF HsAccepts, f, e
    <3> DEFINE h == hsd'
    <3>3. HsHolds(stream, h, <<>>) /\ h.bits = 0
      BY <1>2, <3>1, <3>2, HsResets
    <3>4. hsd'.bits <= 8 * (taken' - 1)
      <4> DEFINE x == h.bits
                 y == taken'
      <4>1. x = 0 /\ y = 1
        BY <2>2, <3>3
      <4> HIDE DEF x, y
      <4>2. x <= 8 * (y - 1)
        BY <4>1
      <4> QED BY <4>2 DEF x, y
    <3>5. HsWorks'
      BY <1>1, <1>2, <1>4, <2>1, <2>2, <3>2, <3>3, <3>4, HsWorksStill, Zenon
    <3>6. HsReady'
      <4>1. wanted' # 0 /\ res' = "again" /\ destroyed' = "no"
        BY <1>1, <1>2, <3>1
      <4> QED BY <3>1, <3>5, <4>1 DEF HsReady
    <3>7. HsCall'
      BY <1>1, <1>2, <3>1, Zenon DEF HsCall
    <3>8. HsInv'
      BY <1>1, <1>2, <2>2, <3>6, <3>7, HsInvIs
    <3>9. HsDelivered' = HsDelivered
      BY <1>1, <3>1, Zenon DEF HsDelivered
    <3>10. HsMoves
      BY <1>2, <2>2, <3>1, <3>9, Zenon DEF HsMoves, Moves
    <3> QED BY <1>1, <3>8, <3>10
  <2>4. CASE ~H!Accepted
    <3>1. res' = "error" /\ wanted' = 0 /\ UNCHANGED <<decoder, hsd>>
      BY <2>1, <2>4
    <3>2. HsRejected'
      BY <1>1, <1>4, <2>4, <3>1, HsKept DEF HsRejected
    <3>3. HsCall'
      BY <1>1, <1>2, <3>1 DEF HsCall
    <3>4. HsInv'
      BY <1>1, <1>2, <2>2, <3>2, <3>3, HsInvIs
    <3>5. HsDelivered' = out
      <4>1. ~ (wanted' > 0)
        BY <3>1
      <4> QED BY <1>1, <4>1, Zenon DEF HsDelivered
    <3>6. HsMoves
      BY <1>2, <1>5, <2>2, <3>1, <3>5, Zenon DEF HsMoves, Moves
    <3> QED BY <1>1, <3>4, <3>6
  <2> QED BY <2>3, <2>4
<1> QED BY <1>6, <1>7

LEMMA HsPolls ==
    ASSUME HsInv, H!Poll
    PROVE  HsInv' /\ HsMoves /\ stream' = stream
<1>1. H!InCall /\ window_sz2 # -1
  BY DEF H!Poll, H!TagBit, H!YieldLiteral, H!IndexMsb, H!IndexLsb, H!CountMsb, H!CountLsb,
         H!YieldBackref, H!ReadBits, H!InState
<1>2. /\ wanted \in Nat /\ wanted > 0 /\ wanted # 0 /\ res = "again" /\ destroyed = "no" /\ got \in Nat
      /\ got <= wanted /\ got <= Len(out) /\ out \in Seq(U8)
      /\ HsDelivered = SubSeq(out, 1, Len(out) - got)
      /\ fed \in Nat /\ taken \in Nat /\ taken <= fed /\ HsStream
      /\ (HsFresh \/ HsReady)
  BY <1>1, HsInCall
<1>3. HsReady /\ HsWorks /\ decoder = "ready"
  BY <1>1, <1>2 DEF HsFresh, HsReady
<1>4. HsAdvances
  BY <1>2, <1>3, HsPoll
<1>5. /\ UNCHANGED <<stream, fed, taken, window_sz2, lookahead_sz2, decoder, wanted, res, destroyed>>
      /\ HsHolds(stream, hsd', out') /\ hsd'.bits <= 8 * (taken - 1)
  BY <1>4 DEF HsAdvances
<1>6. PICK q \in Seq(U8) : out' = out \o q /\ got' = got + Len(q) /\ Len(q) <= wanted - got
  BY <1>4 DEF HsAdvances
<1>7. /\ SubSeq(out', 1, Len(out') - got') = SubSeq(out, 1, Len(out) - got)
      /\ got' <= Len(out')
  BY <1>2, <1>6, HsGrows, Zenon
<1>8. got' \in Nat /\ got' <= wanted
  <2> DEFINE m == Len(q)
             g == got'
  <2>1. m \in Nat /\ m <= wanted - got /\ g = got + m
    BY <1>6
  <2> HIDE DEF m, g
  <2>2. g \in Nat /\ g <= wanted
    BY <1>2, <2>1
  <2> QED BY <2>2 DEF g
<1>9. HsCall'
  BY <1>2, <1>5, <1>7, <1>8, Zenon DEF HsCall
<1>10. out' \in Seq(U8) /\ Begins(out', stream.data)
  <2>1. HsFormat(stream) /\ stream.data = HsData(stream, Len(stream.tokens))
    BY <1>2 DEF HsStream
  <2> DEFINE s == stream
             h == hsd'
             o == out'
  <2>2. HsFormat(s) /\ HsHolds(s, h, o)
    BY <1>5, <2>1
  <2> HIDE DEF s, h, o
  <2>3. o \in Seq(U8) /\ Begins(o, HsData(s, Len(s.tokens)))
    BY <2>2, HsDelivers
  <2> QED BY <2>1, <2>3, Zenon DEF s, o
<1>11. HsWorks'
  <2>1. /\ HsAccepts(stream) /\ window_sz2' = stream.window /\ lookahead_sz2' = stream.lookahead
        /\ taken' \in Nat \ {0} /\ taken' <= H!StreamSize /\ hsd'.bits <= 8 * (taken' - 1)
    BY <1>3, <1>5, Zenon DEF HsWorks
  <2> QED BY <1>2, <1>5, <2>1, HsWorksStill, Zenon
<1>12. HsReady'
  <2>1. wanted' # 0 /\ res' = "again" /\ destroyed' = "no" /\ decoder' = "ready"
    BY <1>2, <1>3, <1>5
  <2> QED BY <1>11, <2>1 DEF HsReady
<1>13. HsInv'
  BY <1>2, <1>5, <1>9, <1>10, <1>12, HsInvIs
<1>14. HsDelivered' = HsDelivered
  BY <1>2, <1>5, <1>7, Zenon DEF HsDelivered
<1>15. HsMoves
  BY <1>5, <1>14, Zenon DEF HsMoves, Moves
<1> QED BY <1>5, <1>13, <1>15

\* A call that returns what it has got.
LEMMA HsReturns ==
    ASSUME HsInv, H!InCall, got # 0, wanted' = 0, res' = "ok",
           out' = out, fed' = fed, taken' = taken
    PROVE  HsMoves
<1>1. /\ wanted \in Nat /\ wanted > 0 /\ res = "again" /\ got \in Nat /\ got <= wanted /\ got <= Len(out)
      /\ Len(out) \in Nat /\ Begins(out, stream.data) /\ HsDelivered = SubSeq(out, 1, Len(out) - got)
      /\ fed - taken \in Nat /\ out \in Seq(U8)
  BY HsInCall
<1> DEFINE o == HsDelivered
           d == stream.data
           l == fed - taken
           x == out
<1>2. Len(x) = Len(o) + got
  <2>1. got <= Len(x) /\ x \in Seq(U8) /\ got \in Nat /\ o = SubSeq(x, 1, Len(x) - got)
    BY <1>1
  <2> HIDE DEF o, x
  <2>2. Len(o) = Len(x) - got
    BY <2>1
  <2> QED BY <2>1, <2>2
<1>3. HsDelivered' = x
  <2>1. ~ (wanted' > 0)
    OBVIOUS
  <2> QED BY <2>1, Zenon DEF HsDelivered
<1>4. got \in 1 .. wanted /\ l \in Nat /\ Begins(x, d) /\ l <= l
  BY <1>1
<1> HIDE DEF o, d, l, x
<1>5. Moves(d, l, wanted, o, "again", l, 0, x, "ok")
  BY <1>1, <1>2, <1>4, MovesDelivering
<1>6. fed' - taken' = l
  BY Zenon DEF l
<1> QED BY <1>1, <1>3, <1>5, <1>6, Zenon DEF HsMoves, o, d, l

LEMMA HsSinks ==
    ASSUME HsInv, H!Sink
    PROVE  HsInv' /\ HsMoves /\ stream' = stream
<1>1. /\ H!InCall /\ window_sz2 # -1
      /\ ~H!HasBits(H!Needed) \/ (hsd.state \in {"yield_literal", "yield_backref"} /\ H!Space = 0)
      /\ UNCHANGED <<stream, fed, window_sz2, lookahead_sz2, decoder, hsd, got, out, destroyed>>
  BY DEF H!Sink, H!Polled, H!input, H!header
<1>2. /\ wanted \in Nat /\ wanted > 0 /\ wanted # 0 /\ res = "again" /\ destroyed = "no" /\ got \in Nat
      /\ got <= wanted /\ got <= Len(out) /\ out \in Seq(U8) /\ Begins(out, stream.data)
      /\ HsDelivered = SubSeq(out, 1, Len(out) - got)
      /\ fed \in Nat /\ taken \in Nat /\ taken <= fed /\ HsStream /\ fed - taken \in Nat
      /\ fed <= H!StreamSize /\ H!StreamSize \in Nat
      /\ (HsFresh \/ HsReady) /\ (~H!ChunkAvailable => fed - taken = 0)
  BY <1>1, HsInCall
<1>3. HsReady /\ HsWorks /\ decoder = "ready"
  BY <1>1, <1>2 DEF HsFresh, HsReady
<1>4. HsStopped
  BY <1>1 DEF HsStopped
<1>5. ASSUME wanted' = 0, res' = "ok", taken' = taken, got # 0 PROVE HsInv' /\ HsMoves /\ stream' = stream
  <2>1. HsWorks' /\ HsStopped'
    BY <1>1, <1>3, <1>4, <1>5, HsSame, Zenon
  <2>2. HsReady'
    BY <1>1, <1>2, <1>3, <1>5, <2>1 DEF HsReady
  <2>3. HsCall'
    BY <1>1, <1>2, <1>5 DEF HsCall
  <2>4. HsInv'
    BY <1>1, <1>2, <1>5, <2>2, <2>3, HsInvIs
  <2>5. HsMoves
    BY <1>1, <1>5, HsReturns
  <2> QED BY <1>1, <2>4, <2>5
<1>6. \/ H!Space = 0 /\ res' = "ok" /\ wanted' = 0 /\ taken' = taken
      \/ H!Space > 0 /\ H!ChunkAvailable /\ taken' = taken + 1 /\ wanted' = wanted /\ res' = res
      \/ H!Space > 0 /\ ~H!ChunkAvailable /\ res' = H!Delivered /\ wanted' = 0 /\ taken' = taken
  BY DEF H!Sink, H!Return
<1>7. CASE H!Space = 0 /\ res' = "ok" /\ wanted' = 0 /\ taken' = taken
  <2>1. got # 0
    BY <1>2, <1>7 DEF H!Space
  <2> QED BY <1>5, <1>7, <2>1
<1>8. CASE H!Space > 0 /\ H!ChunkAvailable /\ taken' = taken + 1 /\ wanted' = wanted /\ res' = res
  <2> DEFINE t == taken'
             b == hsd.bits
             z == H!StreamSize
             f == fed'
  <2>1. /\ t = taken + 1 /\ taken < fed /\ b <= 8 * (taken - 1) /\ z \in Nat /\ fed <= z /\ f = fed
        /\ b \in Nat
    <3>1. hsd.bits \in Nat
      BY <1>3 DEF HsWorks, HsHolds, HsDecoders
    <3> QED BY <1>1, <1>2, <1>3, <1>8, <3>1 DEF H!ChunkAvailable, HsWorks
  <2> HIDE DEF t, b, z, f
  <2>2. t \in Nat \ {0} /\ t <= z /\ b <= 8 * (t - 1) /\ t <= fed /\ f - t \in 0 .. fed - taken
    BY <1>2, <2>1
  <2>3. HsWorks'
    <3>1. /\ HsAccepts(stream) /\ window_sz2' = stream.window /\ lookahead_sz2' = stream.lookahead
          /\ HsHolds(stream, hsd', out') /\ hsd'.bits = b
      BY <1>1, <1>3, Zenon DEF HsWorks, b
    <3> QED BY <1>1, <1>2, <2>2, <3>1, HsWorksStill, Zenon DEF t, z
  <2>4. HsReady'
    BY <1>1, <1>2, <1>3, <1>8, <2>3 DEF HsReady
  <2>5. HsCall'
    BY <1>1, <1>2, <1>8, Zenon DEF HsCall
  <2>6. HsInv'
    <3>1. taken' \in Nat /\ taken' <= fed
      BY <2>2 DEF t
    <3> QED BY <1>1, <1>2, <2>4, <2>5, <3>1, HsInvIs
  <2>7. HsDelivered' = HsDelivered
    BY <1>1, <1>8, Zenon DEF HsDelivered
  <2>8. HsMoves
    BY <1>2, <1>8, <2>2, <2>7, Zenon DEF HsMoves, Moves, t, f
  <2> QED BY <1>1, <2>6, <2>8
<1>9. CASE H!Space > 0 /\ ~H!ChunkAvailable /\ res' = H!Delivered /\ wanted' = 0 /\ taken' = taken
  <2>1. CASE got # 0
    <3>1. res' = "ok"
      BY <1>9, <2>1, Zenon DEF H!Delivered
    <3> QED BY <1>5, <1>9, <2>1, <3>1
  <2>2. CASE got = 0
    <3>1. res' = "more"
      BY <1>9, <2>2, Zenon DEF H!Delivered
    <3>2. ~H!HasBits(H!Needed)
      <4>1. H!Space # 0
        BY <1>2, <1>9 DEF H!Space
      <4> QED BY <1>1, <4>1
    <3>3. out = H!Expected
      BY <1>3, <3>2, HsDrained
    <3>4. HsWorks' /\ HsStopped' /\ H!Expected' = H!Expected
      BY <1>1, <1>3, <1>4, <1>9, HsSame, Zenon
    <3>5. HsReady'
      BY <1>1, <1>2, <1>3, <3>1, <3>3, <3>4 DEF HsReady
    <3>6. HsCall'
      BY <1>1, <1>2, <1>9, <3>1 DEF HsCall
    <3>7. HsInv'
      BY <1>1, <1>2, <1>9, <3>5, <3>6, HsInvIs
    <3>8. HsDelivered = out
      <4>1. HsDelivered = SubSeq(out, 1, Len(out) - 0)
        BY <1>2, <2>2, Zenon
      <4> DEFINE o == out
      <4>2. o \in Seq(U8)
        BY <1>2
      <4> HIDE DEF o
      <4>3. SubSeq(o, 1, Len(o) - 0) = o
        BY <4>2, Full
      <4> QED BY <4>1, <4>3, Zenon DEF o
    <3>9. HsDelivered' = out /\ fed' - taken' = 0
      <4>1. ~ (wanted' > 0)
        BY <1>9
      <4> QED BY <1>1, <1>2, <1>9, <4>1, Zenon DEF HsDelivered
    <3>10. HsMoves
      BY <1>2, <1>9, <3>1, <3>8, <3>9, Zenon DEF HsMoves, Moves
    <3> QED BY <1>1, <3>7, <3>10
  <2> QED BY <2>1, <2>2
<1> QED BY <1>6, <1>7, <1>8, <1>9

LEMMA HsSteps ==
    ASSUME HsInv, H!Next
    PROVE  HsInv' /\ HsMoves /\ stream' = stream
<1>1. CASE H!Feed
  <2>1. stream' = stream
    BY <1>1 DEF H!Feed
  <2> QED BY <1>1, <2>1, HsFeeds
<1>2. CASE H!Call
  <2>1. stream' = stream
    BY <1>2 DEF H!Call, H!input
  <2> QED BY <1>2, <2>1, HsCalls
<1>3. CASE H!Header
  BY <1>3, HsHeads
<1>4. CASE H!Poll
  BY <1>4, HsPolls
<1>5. CASE H!Sink
  BY <1>5, HsSinks
<1>6. CASE H!Destroy
  <2>1. stream' = stream
    BY <1>6 DEF H!Destroy, H!input
  <2> QED BY <1>6, <2>1, HsDestroys
<1> QED BY <1>1, <1>2, <1>3, <1>4, <1>5, <1>6 DEF H!Next

-----------------------------------------------------------------------------
(***************************************************************************)
(* All of the readers: the invariant is that of the one that is selected.  *)
(***************************************************************************)
IInv ==
    \/ compression = "crle" /\ CompressorInv /\ CrleInv /\ pc = No
    \/ compression = "heatshrink" /\ HsInv /\ pc = No /\ res # "out_of_memory"
    \/ compression = "lzma" /\ LzInv /\ pc = No
    \/ /\ compression = "python" /\ CompressorInv /\ PyInv
       /\ fed = 0 /\ res = "none" /\ destroyed = "no"
    \/ compression = "bad" /\ Rejected /\ pc = No

Left == fed - (IF compression = "python" THEN fed ELSE taken)

\* A step of a reader, seen as one of PatchReader.
ReaderMoves ==
    /\ Data' = Data
    /\ Moves(Data, Left, wanted, Delivered, Returned, Left', wanted', Delivered', Returned')

LEMMA Refines ==
    ASSUME ReaderMoves
    PROVE  [Contract!Next]_Contract!vars
<1>1. /\ Data' = Data
      /\ Moves(Data, Left, wanted, Delivered, Returned, Left', wanted', Delivered', Returned')
  BY DEF ReaderMoves
<1> DEFINE l == Left
           l2 == Left'
           o == Delivered
           o2 == Delivered'
           r == Returned
           r2 == Returned'
<1>2. CASE wanted = 0 /\ l = 0 /\ l2 \in Nat \ {0} /\ wanted' = wanted /\ o2 = o /\ r2 = r
  <2>1. Contract!Feed
    BY <1>1, <1>2, Zenon DEF Contract!Feed, Left
  <2> QED BY <2>1, Zenon DEF Contract!Next
<1>3. CASE wanted = 0 /\ r # "error" /\ wanted' \in Nat \ {0} /\ r2 = "again" /\ l2 = l /\ o2 = o
  <2>1. Contract!Call
    BY <1>1, <1>3, Zenon DEF Contract!Call, Left
  <2> QED BY <2>1, Zenon DEF Contract!Next
<1>4. CASE wanted > 0 /\ l2 \in 0 .. l /\ wanted' = wanted /\ o2 = o /\ r2 = r
  <2>1. Contract!Work
    BY <1>1, <1>4, Zenon DEF Contract!Work, Left
  <2> QED BY <2>1, Zenon DEF Contract!Next
<1>5. CASE /\ wanted > 0 /\ wanted' = 0 /\ r2 = "ok" /\ l2 \in 0 .. l
           /\ \E n \in 1 .. wanted : Len(o) + n <= Len(Data) /\ o2 = SubSeq(Data, 1, Len(o) + n)
  <2>1. Contract!Deliver
    BY <1>1, <1>5, Zenon DEF Contract!Deliver, Contract!Return, Left
  <2> QED BY <2>1, Zenon DEF Contract!Next
<1>6. CASE wanted > 0 /\ wanted' = 0 /\ r2 = "more" /\ l2 = 0 /\ o2 = o
  <2>1. Contract!AskForMore
    BY <1>1, <1>6, Zenon DEF Contract!AskForMore, Contract!Return, Left
  <2> QED BY <2>1, Zenon DEF Contract!Next
<1>7. CASE wanted > 0 /\ wanted' = 0 /\ r2 = "error" /\ l2 \in 0 .. l /\ o2 = o
  <2>1. Contract!Fail
    BY <1>1, <1>7, Zenon DEF Contract!Fail, Contract!Return, Left
  <2> QED BY <2>1, Zenon DEF Contract!Next
<1>8. CASE wanted' = wanted /\ l2 = l /\ o2 = o /\ r2 = r
  <2>1. UNCHANGED Contract!vars
    BY <1>1, <1>8, Zenon DEF Contract!vars, Left
  <2> QED BY <2>1, Zenon
<1> QED BY <1>1, <1>2, <1>3, <1>4, <1>5, <1>6, <1>7, <1>8, Zenon DEF Moves

\* What a reader of detools.c returns.
LEMMA ReturnedIs ==
    ASSUME compression # "python", pc = No
    PROVE  Returned = LzReturned(res) /\ (Failed <=> LzFails(res))
<1>1. pc # "error"
  BY DEF No
<1>2. Failed <=> LzFails(res)
  BY <1>1, Zenon DEF Failed, LzFails
<1> QED BY <1>2, Zenon DEF Returned, LzReturned

LEMMA ReturnedPlain ==
    ASSUME NEW r, r # "out_of_memory"
    PROVE  LzReturned(r) = r
  BY DEF LzReturned, LzFails

\* What the Python reader returns.
LEMMA ReturnedPython ==
    ASSUME compression = "python", res = "none", wanted \in Nat
    PROVE  Returned = PyReturned(pc, wanted, out) /\ (Failed <=> pc = "error")
<1>1. Failed <=> pc = "error"
  BY DEF Failed
<1>2. CASE pc = "error"
  BY <1>1, <1>2, Zenon DEF Returned, PyReturned
<1>3. CASE pc # "error" /\ wanted > 0
  <2>1. wanted # 0
    BY <1>3
  <2> QED BY <1>1, <1>3, <2>1, Zenon DEF Returned, PyReturned
<1>4. CASE pc # "error" /\ ~(wanted > 0) /\ out # <<>>
  <2>1. wanted = 0
    BY <1>4
  <2> QED BY <1>1, <1>4, <2>1, Zenon DEF Returned, PyReturned
<1>5. CASE pc # "error" /\ ~(wanted > 0) /\ out = <<>>
  BY <1>1, <1>5, Zenon DEF Returned, PyReturned
<1> QED BY <1>2, <1>3, <1>4, <1>5

LEMMA CrleReads ==
    ASSUME compression = "crle", CompressorInv, CrleInv, pc = No, Crle
    PROVE  IInv' /\ ReaderMoves
<1>1. compression' = "crle" /\ C!Next /\ pc' = No
  BY DEF Crle, python
<1>2. CompressorInv' /\ CrleInv' /\ CrleMoves /\ input' = input
  BY <1>1, CrleSteps
<1>3. res # "out_of_memory" /\ res' # "out_of_memory"
  BY <1>2 DEF CrleInv
<1>4. Returned = res /\ Returned' = res'
  <2>1. Returned = LzReturned(res)
    BY ReturnedIs
  <2>2. Returned' = LzReturned(res')
    <3>1. pc' # "error" /\ compression' # "python"
      BY <1>1 DEF No
    <3> QED BY <3>1, Zenon DEF Returned, Failed, LzReturned, LzFails
  <2> QED BY <1>3, <2>1, <2>2, ReturnedPlain, Zenon
<1>5. Data = input /\ Data' = input' /\ Left = fed - taken /\ Left' = fed' - taken'
  BY <1>1, Zenon DEF Data, Left
<1>6. Delivered = out /\ Delivered' = out'
  BY <1>1, Zenon DEF Delivered
<1>7. ReaderMoves
  BY <1>2, <1>4, <1>5, <1>6, Zenon DEF ReaderMoves, CrleMoves
<1> QED BY <1>1, <1>2, <1>7, Zenon DEF IInv

LEMMA HeatshrinkReads ==
    ASSUME compression = "heatshrink", HsInv, pc = No, pc' = No, compression' = compression,
           res # "out_of_memory", HsInv', HsMoves, stream' = stream
    PROVE  IInv' /\ ReaderMoves
<1>1. res' # "out_of_memory"
  <2>1. res' \in {res, "again", "ok", "more", "error"}
    BY DEF HsMoves, Moves
  <2> QED BY <2>1
<1>2. Returned = res /\ Returned' = res'
  <2>1. Returned = LzReturned(res)
    BY ReturnedIs
  <2>2. Returned' = LzReturned(res')
    <3>1. pc' # "error" /\ compression' # "python"
      BY DEF No
    <3> QED BY <3>1, Zenon DEF Returned, Failed, LzReturned, LzFails
  <2> QED BY <1>1, <2>1, <2>2, ReturnedPlain, Zenon
<1>3. Data = stream.data /\ Data' = stream.data /\ Left = fed - taken /\ Left' = fed' - taken'
  BY Zenon DEF Data, Left
<1>4. Delivered = HsDelivered /\ Delivered' = HsDelivered'
  BY Zenon DEF Delivered, HsDelivered
<1>5. ReaderMoves
  BY <1>2, <1>3, <1>4, Zenon DEF ReaderMoves, HsMoves
<1>6. compression' = "heatshrink"
  OBVIOUS
<1> QED BY <1>1, <1>5, <1>6, Zenon DEF IInv

LEMMA LzmaReads ==
    ASSUME compression = "lzma", LzInv, pc = No, Lzma
    PROVE  IInv' /\ ReaderMoves
<1>1. compression' = "lzma" /\ L!Next /\ pc' = No
  BY DEF Lzma, python
<1>2. LzInv' /\ LzMoves /\ L!Data' = L!Data
  BY <1>1, LzSteps
<1>3. Returned = LzReturned(res) /\ Returned' = LzReturned(res')
  <2>1. Returned = LzReturned(res)
    BY ReturnedIs
  <2>2. pc' # "error" /\ compression' # "python"
    BY <1>1 DEF No
  <2> QED BY <2>1, <2>2, Zenon DEF Returned, Failed, LzReturned, LzFails
<1>4. Data = L!Data /\ Data' = L!Data' /\ Left = fed - taken /\ Left' = fed' - taken'
  BY <1>1, Zenon DEF Data, Left
<1>5. Delivered = out /\ Delivered' = out'
  BY <1>1, Zenon DEF Delivered
<1>6. ReaderMoves
  BY <1>2, <1>3, <1>4, <1>5, Zenon DEF ReaderMoves, LzMoves
<1> QED BY <1>1, <1>2, <1>6, Zenon DEF IInv

LEMMA PythonReads ==
    ASSUME compression = "python", CompressorInv, PyInv, fed = 0, res = "none", destroyed = "no", Python
    PROVE  IInv' /\ ReaderMoves
<1>1. compression' = "python" /\ P!Next /\ UNCHANGED <<fed, res, destroyed>>
  BY DEF Python
<1>2. CompressorInv' /\ PyInv' /\ PyMoves /\ input' = input
  BY <1>1, PySteps
<1>3. Returned = PyReturned(pc, wanted, out)
  <2>1. wanted \in Nat
    BY DEF PyInv
  <2> QED BY <2>1, ReturnedPython
<1>4. Returned' = PyReturned(pc', wanted', out')
  <2>1. /\ Failed' <=> pc' = "error"
        /\ wanted' > 0 => wanted' # 0
        /\ ~(wanted' > 0) => wanted' = 0
    <3>1. wanted' \in Nat
      BY <1>2 DEF PyInv
    <3> QED BY <1>1, <3>1 DEF Failed
  <2>2. CASE pc' = "error"
    BY <1>1, <2>1, <2>2, Zenon DEF Returned, PyReturned
  <2>3. CASE pc' # "error" /\ wanted' > 0
    BY <1>1, <2>1, <2>3, Zenon DEF Returned, PyReturned
  <2>4. CASE pc' # "error" /\ ~(wanted' > 0) /\ out' # <<>>
    BY <1>1, <2>1, <2>4, Zenon DEF Returned, PyReturned
  <2>5. CASE pc' # "error" /\ ~(wanted' > 0) /\ out' = <<>>
    BY <1>1, <2>1, <2>5, Zenon DEF Returned, PyReturned
  <2> QED BY <2>2, <2>3, <2>4, <2>5
<1>5. Data = input /\ Data' = input'
  BY <1>1, Zenon DEF Data
<1>6. Left = 0 /\ Left' = 0
  <2>1. Left = fed - fed /\ Left' = fed - fed
    BY <1>1, Zenon DEF Left
  <2> QED BY <2>1
<1>7. Delivered = out /\ Delivered' = out'
  BY <1>1, Zenon DEF Delivered
<1>8. ReaderMoves
  BY <1>2, <1>3, <1>4, <1>5, <1>6, <1>7, Zenon DEF ReaderMoves, PyMoves
<1>9. fed' = 0 /\ res' = "none" /\ destroyed' = "no"
  BY <1>1
<1> QED BY <1>1, <1>2, <1>8, <1>9, Zenon DEF IInv

\* Nothing happens.
LEMMA StutterReads ==
    ASSUME IInv, UNCHANGED vars
    PROVE  IInv' /\ ReaderMoves
<1>1. /\ UNCHANGED <<compression, stream, fed, taken, wanted, out, res, destroyed>>
      /\ UNCHANGED <<input, given, data, flushing, crle, window_sz2, lookahead_sz2, decoder, hsd, got, lzma>>
      /\ UNCHANGED <<number_of_indata_bytes_left, indata, outdata, number_of_scattered_bytes_left, buf, pc>>
  BY DEF vars, interface, compressor, heatshrink, python
<1>2. ASSUME CompressorInv PROVE CompressorInv'
  BY <1>1, <1>2, Zenon DEF CompressorInv
<1>3. ASSUME CrleInv PROVE CrleInv'
  BY <1>1, <1>3, Zenon DEF CrleInv
<1>4. ASSUME HsInv PROVE HsInv'
  <2>1. HsCall'
    BY <1>1, <1>4, Zenon DEF HsInv, HsCall
  <2>2. (HsFresh \/ HsReady \/ HsRejected)'
    <3>1. CASE HsFresh
      BY <1>1, <3>1, Zenon DEF HsFresh
    <3>2. CASE HsReady
      BY <1>1, <3>2, HsSame, Zenon DEF HsReady
    <3>3. CASE HsRejected
      BY <1>1, <3>3, HsKept, Zenon DEF HsRejected
    <3> QED BY <1>4, <3>1, <3>2, <3>3 DEF HsInv
  <2>3. fed' \in Nat /\ fed <= fed' /\ fed' <= H!StreamSize
    BY <1>1, <1>4 DEF HsInv
  <2> QED BY <1>1, <1>4, <2>1, <2>2, <2>3, HsInvStill
<1>5. ASSUME LzInv PROVE LzInv'
  <2>1. /\ L!InputOf' = L!InputOf /\ LzSize' = LzSize /\ L!Data' = L!Data
        /\ L!StreamSize' = L!StreamSize /\ LzEnd' = LzEnd /\ (L!Good' <=> L!Good)
    BY <1>1, LzKept
  <2> QED BY <1>1, <1>5, <2>1, Zenon DEF LzInv, LzAt, LzTurn, LzResult, LzEnds, LzDone
<1>6. ASSUME PyInv PROVE PyInv'
  <2>1. (P!Eof' <=> P!Eof) /\ (P!Incomplete' <=> P!Incomplete)
    BY <1>1, Zenon DEF P!Eof, P!Incomplete, P!HasSize, P!Body, P!SizeEnd
  <2> QED BY <1>1, <1>6, <2>1, Zenon DEF PyInv
<1>7. IInv'
  <2>1. ASSUME Rejected PROVE Rejected'
    BY <1>1, <2>1 DEF Rejected
  <2> QED BY <1>1, <1>2, <1>3, <1>4, <1>5, <1>6, <2>1, Zenon DEF IInv
<1>8. ReaderMoves
  <2>1. L!Data' = L!Data
    BY <1>1, LzKept
  <2>2. Data' = Data
    BY <1>1, <2>1, Zenon DEF Data
  <2>3. Left' = Left /\ Delivered' = Delivered
    BY <1>1, Zenon DEF Left, Delivered
  <2>4. Returned' = Returned
    BY <1>1, Zenon DEF Returned, Failed
  <2> QED BY <1>1, <2>2, <2>3, <2>4, Zenon DEF ReaderMoves, Moves
<1> QED BY <1>7, <1>8

LEMMA IInvStarts ==
    ASSUME Init
    PROVE  IInv /\ Contract!Init
<1>1. CASE compression = "crle" /\ C!Init /\ NoHeatshrink /\ NoLzma /\ NoPython
  <2>1. CompressorInv /\ CrleInv /\ pc = No /\ fed = 0 /\ taken = 0 /\ wanted = 0 /\ out = <<>> /\ res = "none"
    BY <1>1, CrleStarts DEF NoPython, C!Init
  <2>2. Returned = res
    BY <1>1, <2>1, ReturnedIs, ReturnedPlain
  <2>3. Left = 0 /\ Delivered = out
    BY <1>1, <2>1 DEF Left, Delivered
  <2> QED BY <1>1, <2>1, <2>2, <2>3 DEF IInv, Contract!Init, Left
<1>2. CASE compression = "heatshrink" /\ H!Init /\ NoCompressor /\ NoCrle /\ NoLzma /\ NoPython
  <2>1. HsInv /\ pc = No /\ fed = 0 /\ taken = 0 /\ wanted = 0 /\ out = <<>> /\ res = "none"
    BY <1>2, HsStarts DEF NoPython
  <2>2. Returned = res
    BY <1>2, <2>1, ReturnedIs, ReturnedPlain
  <2>3. Left = 0 /\ Delivered = out
    BY <1>2, <2>1 DEF Left, Delivered
  <2> QED BY <1>2, <2>1, <2>2, <2>3 DEF IInv, Contract!Init, Left
<1>3. CASE compression = "lzma" /\ L!Init /\ NoCompressor /\ NoCrle /\ NoHeatshrink /\ NoPython
  <2>1. LzInv /\ pc = No /\ fed = 0 /\ taken = 0 /\ wanted = 0 /\ out = <<>> /\ res = "none"
    BY <1>3, LzStarts DEF NoPython, L!Init
  <2>2. Returned = res
    BY <1>3, <2>1, ReturnedIs, ReturnedPlain
  <2>3. Left = 0 /\ Delivered = out
    BY <1>3, <2>1 DEF Left, Delivered
  <2> QED BY <1>3, <2>1, <2>2, <2>3 DEF IInv, Contract!Init, Left
<1>4. CASE /\ compression = "python"
           /\ P!Init /\ fed = 0 /\ res = "none" /\ destroyed = "no"
           /\ NoCrle /\ NoHeatshrink /\ NoLzma
  <2>1. /\ CompressorInv /\ PyInv /\ fed = 0 /\ res = "none" /\ destroyed = "no"
        /\ wanted = 0 /\ out = <<>> /\ pc = "new"
    BY <1>4, PyStarts DEF P!Init
  <2>2. Returned = "none"
    <3>1. Returned = PyReturned(pc, wanted, out)
      BY <1>4, <2>1, ReturnedPython
    <3> QED BY <2>1, <3>1 DEF PyReturned
  <2>3. Left = 0 /\ Delivered = out
    BY <1>4, <2>1 DEF Left, Delivered
  <2> QED BY <1>4, <2>1, <2>2, <2>3 DEF IInv, Contract!Init, Left
<1>5. CASE /\ compression = "bad"
           /\ Rejected /\ NoCompressor /\ NoCrle /\ NoHeatshrink /\ NoLzma /\ NoPython
  <2>1. /\ Rejected /\ pc = No /\ fed = 0 /\ taken = 0 /\ wanted = 0 /\ out = <<>> /\ res = "error"
    BY <1>5 DEF NoPython, Rejected
  <2>2. Returned = res
    BY <1>5, <2>1, ReturnedIs, ReturnedPlain
  <2>3. Left = 0 /\ Delivered = out
    BY <1>5, <2>1 DEF Left, Delivered
  <2> QED BY <1>5, <2>1, <2>2, <2>3 DEF IInv, Contract!Init, Left
<1> QED BY <1>1, <1>2, <1>3, <1>4, <1>5 DEF Init

LEMMA IInvNext ==
    ASSUME IInv, [Next]_vars
    PROVE  IInv' /\ ReaderMoves
<1>1. CASE UNCHANGED vars
  BY <1>1, StutterReads
<1>2. CASE Crle
  <2>1. compression = "crle"
    BY <1>2 DEF Crle
  <2>2. CompressorInv /\ CrleInv /\ pc = No
    BY <2>1 DEF IInv
  <2> QED BY <1>2, <2>1, <2>2, CrleReads
<1>3. CASE Heatshrink
  <2>1. compression = "heatshrink" /\ compression' = compression /\ pc' = pc /\ H!Next
    BY <1>3 DEF Heatshrink, python
  <2>2. HsInv /\ pc = No /\ res # "out_of_memory"
    BY <2>1 DEF IInv
  <2>3. HsInv' /\ HsMoves /\ stream' = stream
    BY <2>1, <2>2, HsSteps
  <2> QED BY <2>1, <2>2, <2>3, HeatshrinkReads
<1>4. CASE Lzma
  <2>1. compression = "lzma"
    BY <1>4 DEF Lzma
  <2>2. LzInv /\ pc = No
    BY <2>1 DEF IInv
  <2> QED BY <1>4, <2>1, <2>2, LzmaReads
<1>5. CASE Python
  <2>1. compression = "python"
    BY <1>5 DEF Python
  <2>2. CompressorInv /\ PyInv /\ fed = 0 /\ res = "none" /\ destroyed = "no"
    BY <2>1 DEF IInv
  <2> QED BY <1>5, <2>1, <2>2, PythonReads
<1>6. CASE Restore
  <2>1. CASE compression = "heatshrink" /\ H!Restore
    <3>1. compression' = compression /\ pc' = pc /\ stream' = stream
      BY <1>6, <2>1 DEF Restore, python, H!Restore, H!input
    <3>2. HsInv /\ pc = No /\ res # "out_of_memory"
      BY <2>1 DEF IInv
    <3>3. HsInv' /\ HsMoves
      BY <2>1, <3>2, HsRestores
    <3> QED BY <2>1, <3>1, <3>2, <3>3, HeatshrinkReads
  <2>2. CASE compression = "crle" /\ wanted = 0 /\ UNCHANGED <<interface, heatshrink>>
    <3>1. UNCHANGED vars
      BY <1>6, <2>2 DEF Restore, vars
    <3> QED BY <3>1, StutterReads
  <2> QED BY <1>6, <2>1, <2>2 DEF Restore
<1> QED BY <1>1, <1>2, <1>3, <1>4, <1>5, <1>6 DEF Next

\* The invariant of the reader that is selected, whichever it is.
THEOREM ReadersInvariant == Spec => []IInv
<1>1. Init => IInv
  BY IInvStarts
<1>2. IInv /\ [Next]_vars => IInv'
  BY IInvNext
<1> QED BY <1>1, <1>2, PTL DEF Spec

\* KeepsContract of PatchReaders for all streams, chunks and calls: every reader of
\* detools.c, and the one of apply.py, delivers the data that was compressed from its
\* beginning, at least one byte in a call that succeeds, asks for more only when its
\* chunk is used up, and is not called again after an error (the comment above
\* patch_reader_decompress).
THEOREM KeepsContractAlways == Spec => KeepsContract
<1>1. Init => Contract!Init
  BY IInvStarts
<1>2. IInv /\ [Next]_vars => [Contract!Next]_Contract!vars
  BY IInvNext, Refines
<1> QED BY <1>1, <1>2, ReadersInvariant, PTL DEF Spec, KeepsContract, Contract!Spec

\* Lossless of PatchReaders for all inputs: what CrleCompressor writes stands for what it
\* was given, in order, while it is at work and when it is done (CrleCompressor in crle.py).
THEOREM LosslessAlways == Spec => []Lossless
<1>1. ASSUME IInv PROVE Lossless
  <2> SUFFICES ASSUME compression \in {"crle", "python"}
               PROVE  C!Lossless
    BY DEF Lossless
  <2>1. CompressorInv
    BY <1>1 DEF IInv
  <2> QED BY <2>1, LosslessFollows
<1> QED BY <1>1, ReadersInvariant, PTL

\* NothingWithheld of PatchReaders for all streams, chunks and calls: a reader that asks
\* for more has delivered what it has read, and LZMA decompressed it when it has read all
\* of the stream (patch_reader_decompress, detools.c:1001).
THEOREM NothingWithheldAlways == Spec => []NothingWithheld
<1>1. ASSUME IInv, res = "more" PROVE NothingWithheld
  <2>1. CASE compression = "crle" /\ CompressorInv /\ CrleInv
    <3>1. taken = Len(stream) => out = input
      BY <1>1, <2>1, CrleNothingWithheld
    <3> QED BY <2>1, <3>1, Zenon DEF NothingWithheld
  <2>2. CASE compression = "heatshrink" /\ HsInv
    <3>1. CASE HsFresh
      <4>1. taken = 0 /\ out = <<>>
        BY <3>1 DEF HsFresh
      <4>2. out = H!Expected
        BY <4>1, Zenon DEF H!Expected
      <4> QED BY <2>2, <4>2, Zenon DEF NothingWithheld
    <3>2. CASE HsReady
      <4>1. out = H!Expected
        BY <1>1, <3>2 DEF HsReady
      <4> QED BY <2>2, <4>1, Zenon DEF NothingWithheld
    <3>3. ~HsRejected
      BY <1>1 DEF HsRejected
    <3> QED BY <2>2, <3>1, <3>2, <3>3 DEF HsInv
  <2>3. CASE compression = "lzma" /\ LzInv
    <3>1. taken = L!StreamSize => out \o lzma.output = L!Data
      BY <1>1, <2>3, LzNothingWithheld
    <3>2. Data = L!Data
      BY <2>3, Zenon DEF Data
    <3> QED BY <2>3, <3>1, <3>2, Zenon DEF NothingWithheld
  <2>4. compression # "python" /\ compression # "bad"
    BY <1>1 DEF IInv, Rejected
  <2> QED BY <1>1, <2>1, <2>2, <2>3, <2>4 DEF IInv
<1>2. IInv => NothingWithheld
  BY <1>1 DEF NothingWithheld
<1> QED BY <1>2, ReadersInvariant, PTL

\* ErrorIsDeserved of PatchReaders for all streams, chunks and calls, if no input is so
\* large that its size does not fit in the 28 bits that unpack_usize (detools.c:600) takes
\* for sure: a stream that a creator wrote is found corrupt only if it is not for this
\* reader, and the Python reader raises its error only at the end of the data.
THEOREM ErrorIsDeservedAlways ==
    ASSUME InputsFit
    PROVE  Spec => []ErrorIsDeserved
<1>1. ASSUME IInv PROVE ErrorIsDeserved
  <2>1. res = "error" => \/ compression = "bad"
                         \/ compression = "heatshrink" /\ ~H!Accepted
                         \/ compression = "lzma" /\ ~L!Good
    <3> SUFFICES ASSUME res = "error"
                 PROVE  \/ compression = "bad"
                        \/ compression = "heatshrink" /\ ~H!Accepted
                        \/ compression = "lzma" /\ ~L!Good
      OBVIOUS
    <3>1. ~CrleInv
      BY InputsFit DEF CrleInv
    <3>2. HsInv => ~H!Accepted
      BY DEF HsInv, HsFresh, HsReady, HsRejected
    <3>3. LzInv => ~L!Good
      BY DEF LzInv, LzResult
    <3> QED BY <1>1, <3>1, <3>2, <3>3 DEF IInv
  <2>2. pc = "error" => out \o buf = input /\ P!Eof
    <3> SUFFICES ASSUME pc = "error"
                 PROVE  out \o buf = input /\ P!Eof
      OBVIOUS
    <3>1. pc # No
      BY DEF No
    <3>2. PyInv
      BY <1>1, <3>1 DEF IInv
    <3> QED BY <3>2 DEF PyInv
  <2> QED BY <2>1, <2>2 DEF ErrorIsDeserved
<1> QED BY <1>1, ReadersInvariant, PTL

\* FinishIsExact of PatchReaders for all streams, chunks and calls: destroy finds the
\* patch whole exactly when what has been read of it has been delivered
\* (heatshrink_decoder_finish, and patch_reader_lzma_destroy at detools.c:530).
THEOREM FinishIsExactAlways == Spec => []FinishIsExact
<1>1. ASSUME IInv, destroyed # "no", ~Failed
      PROVE  /\ compression = "heatshrink" /\ decoder = "ready" =>
                    (destroyed = "ok" <=> out = H!Expected)
             /\ compression = "lzma" /\ taken = L!StreamSize =>
                    (destroyed = "ok" <=> out = Data /\ L!Good)
  <2>1. ASSUME compression = "heatshrink", decoder = "ready"
        PROVE  destroyed = "ok" <=> out = H!Expected
    <3>1. HsInv
      BY <1>1, <2>1 DEF IInv
    <3>2. HsReady
      BY <2>1, <3>1 DEF HsInv, HsFresh, HsRejected
    <3> QED BY <1>1, <3>2 DEF HsReady
  <2>2. ASSUME compression = "lzma", taken = L!StreamSize
        PROVE  destroyed = "ok" <=> out = Data /\ L!Good
    <3>1. LzInv
      BY <1>1, <2>2 DEF IInv
    <3>2. ~LzFails(res)
      BY <1>1 DEF Failed, LzFails
    <3>3. destroyed = "ok" <=> out = L!Data /\ L!Good
      BY <1>1, <2>2, <3>1, <3>2, LzFinish
    <3>4. Data = L!Data
      BY <2>2, Zenon DEF Data
    <3> QED BY <3>3, <3>4
  <2> QED BY <2>1, <2>2
<1>2. IInv => FinishIsExact
  BY <1>1 DEF FinishIsExact
<1> QED BY <1>2, ReadersInvariant, PTL

\* EofIsEnd of PatchReaders for all inputs and reads: `eof` of CrleDecompressor is set
\* when, and not before, the Python reader has returned all of the data (apply.py:391).
THEOREM EofIsEndAlways == Spec => []EofIsEnd
<1>1. ASSUME IInv PROVE EofIsEnd
  <2>1. CASE CompressorInv /\ PyInv
    BY <2>1, PyEof
  <2>2. CASE pc = No
    BY <2>2 DEF EofIsEnd, No
  <2> QED BY <1>1, <2>1, <2>2 DEF IInv
<1> QED BY <1>1, ReadersInvariant, PTL
=============================================================================
