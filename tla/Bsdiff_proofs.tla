--------------------------- MODULE Bsdiff_proofs ---------------------------
(***************************************************************************)
(* The properties of the creation of a patch, for all images.  The suffix  *)
(* array is a permutation of the places of the old image that sorts its    *)
(* suffixes (SuffixArraySorts); from that the binary search comes to a     *)
(* longest match, or to one that the end of the old image cuts off         *)
(* (SearchResult).  The scan keeps to the two images (Positions), what the *)
(* records make grows by each of them up to where it ends (Makes), the     *)
(* running score is a signed count (Score), and the buffers that are held  *)
(* are the first ones of an order (Held).                                  *)
(***************************************************************************)
EXTENDS Bsdiff, Foundations, FiniteSetTheorems

\* The two operators of the community modules, for numbers.

LEMMA MinOfTwo ==
    ASSUME NEW a \in Int, NEW b \in Int
    PROVE  Min({a, b}) = IF a <= b THEN a ELSE b
  BY DEF Min

LEMMA MaxOfTwo ==
    ASSUME NEW a \in Int, NEW b \in Int
    PROVE  Max({a, b}) = IF a >= b THEN a ELSE b
  BY DEF Max

\* A set of numbers that is not empty has a least one.
LEMMA MinOfNumbers ==
    ASSUME NEW T \in SUBSET Nat, T # {}
    PROVE  Min(T) \in T /\ \A y \in T : Min(T) <= y
  BY LeastElement DEF Min

\* A gain that is a number for each prefix is greatest for some prefix.
LEMMA BestInRange ==
    ASSUME NEW n \in Nat, NEW gain, \A i \in 0 .. n : gain[i] \in Int
    PROVE  Best(gain, n) \in 0 .. n
<1> DEFINE S == {k \in 0 .. n : \E i \in 0 .. k : \A j \in 0 .. k : gain[j] <= gain[i]}
           T == {i \in 0 .. n : \A j \in 0 .. n : gain[j] <= gain[i]}
<1>1. 0 \in S
  OBVIOUS
<1>2. ASSUME NEW k \in 0 .. n - 1, k \in S PROVE k + 1 \in S
  <2>1. PICK i \in 0 .. k : \A j \in 0 .. k : gain[j] <= gain[i]
    BY <1>2
  <2>2. /\ k + 1 \in 0 .. n /\ gain[k + 1] \in Int
        /\ \A j \in 0 .. k + 1 : j \in 0 .. k \/ j = k + 1
    OBVIOUS
  <2>3. \A j \in 0 .. k + 1 : gain[j] \in Int
    OBVIOUS
  <2>4. CASE gain[k + 1] <= gain[i]
    <3>1. \A j \in 0 .. k + 1 : gain[j] <= gain[i]
      BY <2>1, <2>2, <2>4
    <3> QED BY <2>2, <3>1
  <2>5. CASE ~(gain[k + 1] <= gain[i])
    <3>1. \A j \in 0 .. k + 1 : gain[j] <= gain[k + 1]
      BY <2>1, <2>2, <2>3, <2>5
    <3> QED BY <2>2, <3>1
  <2> QED BY <2>4, <2>5
<1> HIDE DEF S
<1>3. \A k \in 0 .. n : k \in S
  BY <1>1, <1>2, InductionUpTo
<1>4. T # {}
  <2>1. n \in S
    BY <1>3
  <2> QED BY <2>1 DEF S
<1>5. Min(T) \in T
  BY <1>4, MinOfNumbers
<1> QED BY <1>5 DEF Best

\* The number of equal bytes of two pieces is one.
LEMMA EqualType ==
    ASSUME NEW f, NEW t, NEW n \in Int
    PROVE  Equal(f, t, n) \in Nat
<1>1. IsFiniteSet(0 .. n - 1)
  BY FS_Interval
<1>2. IsFiniteSet({k \in 0 .. n - 1 : FromAt(f + k) = ToAt(t + k)})
  BY <1>1, FS_Subset
<1> QED BY <1>2, FS_CardinalityType DEF Equal

-----------------------------------------------------------------------------
(***************************************************************************)
(* The suffix array.                                                       *)
(***************************************************************************)

\* The suffix from f on comes before that from g on as they agree in k bytes.
PrecedesAfter(image, f, g, k) ==
    /\ f + k <= Len(image) /\ g + k < Len(image)
    /\ \A j \in 1 .. k : image[f + j] = image[g + j]
    /\ f + k = Len(image) \/ image[f + k + 1] < image[g + k + 1]

\* The order of two suffixes is decided where they first differ, or where the first one ends.
LEMMA PrecedesWhere ==
    ASSUME NEW image \in Seq(Byte), NEW f \in 0 .. Len(image), NEW g \in 0 .. Len(image)
    PROVE  Precedes(image, f, g) <=> \E k \in Nat : PrecedesAfter(image, f, g, k)
<1> DEFINE n == Len(image)
<1>1. n \in Nat /\ Max({f, g}) = IF f >= g THEN f ELSE g
  BY MaxOfTwo
<1>2. \A k \in Nat : f + k <= n /\ g + k < n => k \in 0 .. n - Max({f, g})
  BY <1>1
<1>3. \A k \in 0 .. n - Max({f, g}) : k \in Nat /\ f + k <= n
  BY <1>1
<1> QED BY <1>1, <1>2, <1>3 DEF Precedes, PrecedesAfter

\* The bytes of an image are numbers.
LEMMA ByteAt ==
    ASSUME NEW image \in Seq(Byte)
    PROVE  Len(image) \in Nat /\ \A k \in 1 .. Len(image) : image[k] \in Int
<1>1. \A k \in 1 .. Len(image) : image[k] \in Byte
  OBVIOUS
<1>2. Byte \subseteq Int
  BY DEF Byte
<1>3. Len(image) \in Nat
  OBVIOUS
<1> QED BY <1>1, <1>2, <1>3

\* The order is strict and total.
LEMMA PrecedesNotItself ==
    ASSUME NEW image \in Seq(Byte), NEW f \in 0 .. Len(image)
    PROVE  ~Precedes(image, f, f)
<1> SUFFICES ASSUME NEW k \in Nat, PrecedesAfter(image, f, f, k) PROVE FALSE
  BY PrecedesWhere
<1>1. f + k + 1 \in 1 .. Len(image) /\ f + k # Len(image)
  BY ByteAt DEF PrecedesAfter
<1>2. image[f + k + 1] \in Int
  BY <1>1, ByteAt
<1> QED BY <1>1, <1>2 DEF PrecedesAfter

\* The order of the suffixes is transitive.
LEMMA PrecedesTransitive ==
    ASSUME NEW image \in Seq(Byte), NEW f \in 0 .. Len(image), NEW g \in 0 .. Len(image),
           NEW h \in 0 .. Len(image), Precedes(image, f, g), Precedes(image, g, h)
    PROVE  Precedes(image, f, h)
<1> DEFINE n == Len(image)
<1>0. n \in Nat /\ \A k \in 1 .. n : image[k] \in Int
  BY ByteAt
<1>1. PICK k \in Nat : PrecedesAfter(image, f, g, k)
  BY PrecedesWhere
<1>2. PICK m \in Nat : PrecedesAfter(image, g, h, m)
  BY PrecedesWhere
<1>3. /\ f + k <= n /\ g + k < n /\ (\A j \in 1 .. k : image[f + j] = image[g + j])
      /\ f + k = n \/ image[f + k + 1] < image[g + k + 1]
  BY <1>1 DEF PrecedesAfter
<1>4. /\ g + m <= n /\ h + m < n /\ (\A j \in 1 .. m : image[g + j] = image[h + j])
      /\ g + m = n \/ image[g + m + 1] < image[h + m + 1]
  BY <1>2 DEF PrecedesAfter
<1> HIDE DEF n
<1>5. CASE k < m
  <2>0. \A j \in 1 .. k : j \in 1 .. m
    BY <1>5
  <2>1. h + k < n /\ k + 1 \in 1 .. m
    BY <1>0, <1>4, <1>5
  <2>5. \A j \in 1 .. k : image[f + j] = image[h + j]
    BY <1>3, <1>4, <2>0
  <2>2. image[g + (k + 1)] = image[h + (k + 1)]
    BY <1>4, <2>1
  <2>3. g + (k + 1) = g + k + 1 /\ h + (k + 1) = h + k + 1
    OBVIOUS
  <2>4. PrecedesAfter(image, f, h, k)
    BY <1>3, <2>1, <2>2, <2>3, <2>5 DEF PrecedesAfter, n
  <2> QED BY <2>4, PrecedesWhere
<1>6. CASE k = m
  <2>1. g + k # n
    BY <1>0, <1>3
  <2>2. \A j \in 1 .. k : image[f + j] = image[h + j]
    BY <1>3, <1>4, <1>6
  <2>3. g + k + 1 \in 1 .. n /\ h + k + 1 \in 1 .. n /\ (f + k # n => f + k + 1 \in 1 .. n)
    BY <1>0, <1>3, <1>4, <1>6
  <2>4. f + k = n \/ image[f + k + 1] < image[h + k + 1]
    BY <1>0, <1>3, <1>4, <1>6, <2>1, <2>3
  <2>5. PrecedesAfter(image, f, h, k)
    BY <1>3, <1>4, <1>6, <2>2, <2>4 DEF PrecedesAfter, n
  <2> QED BY <2>5, PrecedesWhere
<1>7. CASE k > m
  <2>0. \A j \in 1 .. m : j \in 1 .. k
    BY <1>7
  <2>1. g + m # n /\ f + m < n /\ m + 1 \in 1 .. k
    BY <1>0, <1>3, <1>7
  <2>5. \A j \in 1 .. m : image[f + j] = image[h + j]
    BY <1>3, <1>4, <2>0
  <2>2. image[f + (m + 1)] = image[g + (m + 1)]
    BY <1>3, <2>1
  <2>3. f + (m + 1) = f + m + 1 /\ g + (m + 1) = g + m + 1
    OBVIOUS
  <2>4. PrecedesAfter(image, f, h, m)
    BY <1>4, <2>1, <2>2, <2>3, <2>5 DEF PrecedesAfter, n
  <2> QED BY <2>4, PrecedesWhere
<1> QED BY <1>5, <1>6, <1>7

\* Of two suffixes one precedes the other.
LEMMA PrecedesTotal ==
    ASSUME NEW image \in Seq(Byte), NEW f \in 0 .. Len(image), NEW g \in 0 .. Len(image),
           f # g
    PROVE  Precedes(image, f, g) \/ Precedes(image, g, f)
<1> DEFINE n == Len(image)
           T == {k \in Nat : \/ f + k >= n \/ g + k >= n
                             \/ image[f + k + 1] # image[g + k + 1]}
<1>0. n \in Nat /\ \A k \in 1 .. n : image[k] \in Int
  BY ByteAt
<1>1. n \in T
  BY <1>0
<1>2. PICK k \in T : \A j \in T : k <= j
  BY <1>1, LeastElement
<1>3. k \in Nat
  OBVIOUS
<1>4. ASSUME NEW j \in 0 .. k - 1
      PROVE  f + j < n /\ g + j < n /\ image[f + j + 1] = image[g + j + 1]
  <2>1. j \in Nat /\ ~(k <= j)
    BY <1>3
  <2>2. j \notin T
    BY <1>2, <2>1
  <2> QED BY <1>0, <2>1, <2>2
<1>5. f + k <= n /\ g + k <= n
  <2>1. CASE k = 0
    BY <2>1
  <2>2. CASE k > 0
    <3>1. k - 1 \in 0 .. k - 1
      BY <1>3, <2>2
    <3>2. f + (k - 1) < n /\ g + (k - 1) < n
      BY <1>4, <3>1
    <3> QED BY <1>0, <1>3, <3>2
  <2> QED BY <1>3, <2>1, <2>2
<1>6. ASSUME NEW j \in 1 .. k PROVE image[f + j] = image[g + j]
  <2>1. j - 1 \in 0 .. k - 1 /\ f + (j - 1) + 1 = f + j /\ g + (j - 1) + 1 = g + j
    BY <1>3
  <2> QED BY <1>4, <2>1
<1>7. \/ f + k = n \/ g + k = n \/ image[f + k + 1] # image[g + k + 1]
  BY <1>0, <1>2, <1>3, <1>5
<1>8. f + k # n /\ g + k # n => f + k + 1 \in 1 .. n /\ g + k + 1 \in 1 .. n
  BY <1>0, <1>3, <1>5
<1> HIDE DEF n, T
<1>9. \/ f + k <= n /\ g + k < n /\ (f + k = n \/ image[f + k + 1] < image[g + k + 1])
      \/ g + k <= n /\ f + k < n /\ (g + k = n \/ image[g + k + 1] < image[f + k + 1])
  BY <1>0, <1>3, <1>5, <1>7, <1>8
<1>10. PrecedesAfter(image, f, g, k) \/ PrecedesAfter(image, g, f, k)
  BY <1>6, <1>9 DEF PrecedesAfter, n
<1> QED BY <1>3, <1>10, PrecedesWhere

\* The suffixes that come before one, and how many they are.
Preceding(image, f) == {g \in 0 .. Len(image) : Precedes(image, g, f)}
\* How many suffixes precede each one.
RankOf(image) == [f \in 0 .. Len(image) |-> Cardinality(Preceding(image, f))]

\* A rank is one of the indexes of the array.
LEMMA PrecedingFinite ==
    ASSUME NEW image \in Seq(Byte), NEW f \in 0 .. Len(image)
    PROVE  /\ IsFiniteSet(Preceding(image, f))
           /\ Cardinality(Preceding(image, f)) \in 0 .. Len(image)
<1> DEFINE n == Len(image)
           B == Preceding(image, f)
           R == (0 .. n) \ {f}
<1>1. n \in Nat
  OBVIOUS
<1>2. IsFiniteSet(0 .. n) /\ Cardinality(0 .. n) = n + 1
  BY <1>1, FS_Interval
<1>3. IsFiniteSet(R) /\ Cardinality(R) = n
  <2> DEFINE all == 0 .. n
  <2>1. f \in all /\ IsFiniteSet(all) /\ Cardinality(all) = n + 1
    BY <1>2
  <2> HIDE DEF all, n
  <2>2. IsFiniteSet(all \ {f}) /\ Cardinality(all \ {f}) = Cardinality(all) - 1
    BY <2>1, FS_RemoveElement
  <2> QED BY <1>1, <2>1, <2>2 DEF all
<1>4. B \in SUBSET R
  BY PrecedesNotItself DEF Preceding
<1> HIDE DEF B, R
<1>5. IsFiniteSet(B) /\ Cardinality(B) <= n
  BY <1>3, <1>4, FS_Subset
<1>6. Cardinality(B) \in Nat
  BY <1>5, FS_CardinalityType
<1> QED BY <1>1, <1>5, <1>6 DEF B

\* A suffix that comes later has a greater rank.
LEMMA RankGrows ==
    ASSUME NEW image \in Seq(Byte), NEW f \in 0 .. Len(image), NEW g \in 0 .. Len(image),
           Precedes(image, f, g)
    PROVE  RankOf(image)[f] < RankOf(image)[g]
<1> DEFINE A == Preceding(image, f)
           B == Preceding(image, g)
<1>1. A \in SUBSET B
  BY PrecedesTransitive DEF Preceding
<1>2. f \in B /\ f \notin A
  BY PrecedesNotItself DEF Preceding
<1>3. IsFiniteSet(B) /\ Cardinality(A) \in Nat /\ Cardinality(B) \in Nat
  BY PrecedingFinite
<1>4. RankOf(image)[f] = Cardinality(A) /\ RankOf(image)[g] = Cardinality(B)
  BY DEF RankOf
<1> HIDE DEF A, B
<1>5. Cardinality(A) <= Cardinality(B) /\ Cardinality(A) # Cardinality(B)
  BY <1>1, <1>2, <1>3, FS_Subset
<1> QED BY <1>3, <1>4, <1>5

\* The ranks of the suffixes are all different, and so each number is the rank of one.
LEMMA RankIsBijection ==
    ASSUME NEW image \in Seq(Byte)
    PROVE  RankOf(image) \in Bijection(0 .. Len(image), 0 .. Len(image))
<1> DEFINE n == Len(image)
           r == RankOf(image)
           S == 0 .. n
<1>1. r \in [S -> S]
  BY PrecedingFinite DEF RankOf
<1>2. ASSUME NEW f \in S, NEW g \in S, f # g PROVE r[f] # r[g]
  <2>1. r[f] < r[g] \/ r[g] < r[f]
    BY <1>2, PrecedesTotal, RankGrows
  <2>2. r[f] \in Int /\ r[g] \in Int
    BY <1>1
  <2> HIDE DEF r
  <2> QED BY <2>1, <2>2
<1>3. IsFiniteSet(S)
  BY FS_Interval
<1> HIDE DEF r, S
<1>4. r \in Injection(S, S)
  BY <1>1, <1>2 DEF Injection, IsInjective
<1>5. r \in Surjection(S, S)
  BY <1>3, <1>4, FS_Injection
<1> QED BY <1>4, <1>5 DEF Bijection, r, S

\* The array holds every suffix, each in its place.
THEOREM SuffixArraySorts ==
    ASSUME NEW image \in Seq(Byte)
    PROVE  LET n == Len(image)
               a == SuffixArray(image)
           IN  /\ a \in [1 .. n + 1 -> 0 .. n]
               /\ \A f \in 0 .. n : \E k \in 1 .. n + 1 : a[k] = f
               /\ \A j, k \in 1 .. n + 1 : j < k => Precedes(image, a[j], a[k])
<1> DEFINE n == Len(image)
           r == RankOf(image)
           a == [k \in 1 .. n + 1 |-> CHOOSE f \in 0 .. n : r[f] = k - 1]
<1>0. n \in Nat
  OBVIOUS
<1>1. SuffixArray(image) = a
  BY DEF SuffixArray, RankOf, Preceding
<1>2. /\ r \in [0 .. n -> 0 .. n]
      /\ \A k \in 0 .. n : \E f \in 0 .. n : r[f] = k
      /\ \A f, g \in 0 .. n : r[f] = r[g] => f = g
  BY RankIsBijection DEF Bijection, Injection, Surjection, IsInjective
<1> HIDE DEF r, n
<1>3. ASSUME NEW k \in 1 .. n + 1 PROVE a[k] \in 0 .. n /\ r[a[k]] = k - 1
  <2>1. k - 1 \in 0 .. n
    BY <1>0
  <2>2. PICK f \in 0 .. n : r[f] = k - 1
    BY <1>2, <2>1
  <2> QED BY <2>2
<1>4. a \in [1 .. n + 1 -> 0 .. n]
  BY <1>3
<1> HIDE DEF a
<1>5. ASSUME NEW f \in 0 .. n PROVE \E k \in 1 .. n + 1 : a[k] = f
  <2>0. r[f] \in 0 .. n
    BY <1>2
  <2> DEFINE m == r[f]
             k == m + 1
  <2>1. m \in Nat /\ m <= n
    BY <1>0, <2>0
  <2> HIDE DEF m
  <2>2. k \in 1 .. n + 1 /\ k - 1 = m
    BY <1>0, <2>1
  <2> HIDE DEF k
  <2>3. a[k] \in 0 .. n /\ r[a[k]] = r[f]
    BY <1>3, <2>2 DEF m
  <2> QED BY <1>2, <2>2, <2>3
<1>6. ASSUME NEW j \in 1 .. n + 1, NEW k \in 1 .. n + 1, j < k
      PROVE  Precedes(image, a[j], a[k])
  <2>1. /\ a[j] \in 0 .. n /\ r[a[j]] = j - 1 /\ a[k] \in 0 .. n /\ r[a[k]] = k - 1
    BY <1>3
  <2>2. r[a[j]] < r[a[k]] /\ r[a[j]] # r[a[k]] /\ ~(r[a[k]] < r[a[j]])
    BY <1>6, <2>1
  <2>3. ~Precedes(image, a[k], a[j])
    BY <2>1, <2>2, RankGrows DEF r, n
  <2> QED BY <2>1, <2>2, <2>3, PrecedesTotal DEF n
<1> QED BY <1>1, <1>4, <1>5, <1>6 DEF n

-----------------------------------------------------------------------------
(***************************************************************************)
(* The search.                                                             *)
(***************************************************************************)
Images == from \in Seq(Byte) /\ to \in Seq(Byte)

\* The suffix at f of the old image agrees with the new one at t in m bytes.
AgreesIn(f, t, m) ==
    /\ m \in Nat /\ f + m <= from_size /\ t + m <= to_size
    /\ \A k \in 0 .. m - 1 : FromAt(f + k) = ToAt(t + k)

\* matchlen counts bytes that agree, and ends at an end or a difference.
LEMMA MatchlenFacts ==
    ASSUME Images, NEW f \in 0 .. from_size, NEW t \in 0 .. to_size
    PROVE  LET m == matchlen(f, t)
           IN  /\ AgreesIn(f, t, m)
               /\ \/ f + m = from_size \/ t + m = to_size
                  \/ FromAt(f + m) # ToAt(t + m)
<1> DEFINE n == Min({from_size - f, to_size - t})
           D == {k \in 0 .. n - 1 : FromAt(f + k) # ToAt(t + k)}
           m == matchlen(f, t)
<1>0. from_size \in Nat /\ to_size \in Nat
  BY DEF Images, from_size, to_size
<1>1. /\ n \in Nat /\ f + n <= from_size /\ t + n <= to_size
      /\ f + n = from_size \/ t + n = to_size
  BY <1>0, MinOfTwo
<1>2. m = IF D = {} THEN n ELSE Min(D)
  BY DEF matchlen
<1> HIDE DEF n, m
<1>3. CASE D = {}
  <2>1. \A k \in 0 .. n - 1 : FromAt(f + k) = ToAt(t + k)
    BY <1>3
  <2> QED BY <1>1, <1>2, <1>3, <2>1 DEF AgreesIn, m
<1>4. CASE D # {}
  <2>1. D \in SUBSET Nat
    BY <1>1
  <2>2. m \in D /\ \A k \in D : m <= k
    BY <1>2, <1>4, <2>1, MinOfNumbers
  <2>3. m \in 0 .. n - 1 /\ FromAt(f + m) # ToAt(t + m)
    BY <2>2
  <2>4. ASSUME NEW k \in 0 .. m - 1 PROVE FromAt(f + k) = ToAt(t + k)
    <3>1. k \in 0 .. n - 1 /\ ~(m <= k)
      BY <1>1, <2>3
    <3>2. k \notin D
      BY <2>2, <3>1
    <3> QED BY <3>1, <3>2
  <2>5. f + m <= from_size /\ t + m <= to_size /\ m \in Nat
    BY <1>0, <1>1, <2>3
  <2> QED BY <2>3, <2>4, <2>5 DEF AgreesIn, m
<1> QED BY <1>3, <1>4

\* A suffix agrees in no more bytes than matchlen says.
LEMMA MatchlenGreatest ==
    ASSUME Images, NEW f \in 0 .. from_size, NEW t \in 0 .. to_size, NEW k, AgreesIn(f, t, k)
    PROVE  k <= matchlen(f, t)
<1> DEFINE m == matchlen(f, t)
<1>0. from_size \in Nat /\ to_size \in Nat
  BY DEF Images, from_size, to_size
<1>1. /\ AgreesIn(f, t, m)
      /\ \/ f + m = from_size \/ t + m = to_size
         \/ FromAt(f + m) # ToAt(t + m)
  BY MatchlenFacts
<1>2. /\ m \in Nat /\ k \in Nat /\ f + k <= from_size /\ t + k <= to_size
      /\ \A j \in 0 .. k - 1 : FromAt(f + j) = ToAt(t + j)
  BY <1>1 DEF AgreesIn
<1> HIDE DEF m
<1> SUFFICES ASSUME m < k PROVE FALSE
  BY <1>2 DEF m
<1>3. m \in 0 .. k - 1 /\ f + m # from_size /\ t + m # to_size
  BY <1>0, <1>2
<1> QED BY <1>1, <1>2, <1>3

\* The array is sorted, as CreateArray leaves it.
Sorted == sa = SuffixArray(from)

\* What the suffix at index i says of where the longest match is.
Suffix(i) == sa[i + 1]

\* The array holds places of the old image.
LEMMA SuffixType ==
    ASSUME Images, Sorted, NEW i \in 0 .. from_size
    PROVE  Suffix(i) \in 0 .. from_size
<1>0. from_size \in Nat
  BY DEF Images, from_size
<1>1. SuffixArray(from) \in [1 .. from_size + 1 -> 0 .. from_size]
  BY SuffixArraySorts DEF Images, from_size
<1>2. i + 1 \in 1 .. from_size + 1
  BY <1>0
<1> QED BY <1>1, <1>2 DEF Sorted, Suffix

\* The suffixes are in order along the array.
LEMMA SuffixesInOrder ==
    ASSUME Images, Sorted, NEW i \in 0 .. from_size, NEW j \in 0 .. from_size, i < j
    PROVE  Precedes(from, Suffix(i), Suffix(j))
<1>0. from_size \in Nat
  BY DEF Images, from_size
<1>1. \A k, m \in 1 .. from_size + 1 : k < m => Precedes(from, sa[k], sa[m])
  BY SuffixArraySorts DEF Images, from_size, Sorted
<1>2. i + 1 \in 1 .. from_size + 1 /\ j + 1 \in 1 .. from_size + 1 /\ i + 1 < j + 1
  BY <1>0
<1> QED BY <1>1, <1>2 DEF Suffix

\* Every suffix is in the array.
LEMMA SuffixAnywhere ==
    ASSUME Images, Sorted, NEW f \in 0 .. from_size
    PROVE  \E i \in 0 .. from_size : f = Suffix(i)
<1>0. from_size \in Nat
  BY DEF Images, from_size
<1>1. PICK k \in 1 .. from_size + 1 : sa[k] = f
  BY SuffixArraySorts DEF Images, from_size, Sorted
<1>2. k - 1 \in 0 .. from_size /\ k - 1 + 1 = k
  BY <1>0
<1> QED BY <1>1, <1>2 DEF Suffix

\* A suffix that agrees with the new image in more bytes than another one goes on like it.
LEMMA LongerMatch ==
    ASSUME Images, NEW f \in 0 .. from_size, NEW g \in 0 .. from_size,
           NEW t \in 0 .. to_size, matchlen(f, t) > matchlen(g, t)
    PROVE  LET m == matchlen(g, t)
           IN  /\ m \in Nat /\ f + m < from_size /\ t + m < to_size /\ g + m <= from_size
               /\ \A j \in 0 .. m - 1 : FromAt(f + j) = FromAt(g + j)
               /\ FromAt(f + m) = ToAt(t + m)
               /\ g + m = from_size \/ FromAt(g + m) # ToAt(t + m)
<1> DEFINE m == matchlen(g, t)
           p == matchlen(f, t)
<1>0. from_size \in Nat /\ to_size \in Nat
  BY DEF Images, from_size, to_size
<1>1. /\ m \in Nat /\ g + m <= from_size /\ t + m <= to_size
      /\ \A k \in 0 .. m - 1 : FromAt(g + k) = ToAt(t + k)
      /\ g + m = from_size \/ t + m = to_size \/ FromAt(g + m) # ToAt(t + m)
  BY MatchlenFacts DEF AgreesIn
<1>2. /\ p \in Nat /\ f + p <= from_size /\ t + p <= to_size
      /\ \A k \in 0 .. p - 1 : FromAt(f + k) = ToAt(t + k)
  BY MatchlenFacts DEF AgreesIn
<1>3. p > m
  OBVIOUS
<1> HIDE DEF m, p
<1>4. f + m < from_size /\ t + m < to_size /\ m \in 0 .. p - 1
  BY <1>0, <1>1, <1>2, <1>3
<1>5. \A j \in 0 .. m - 1 : j \in 0 .. p - 1
  BY <1>1, <1>2, <1>3
<1>6. \A j \in 0 .. m - 1 : FromAt(f + j) = FromAt(g + j)
  BY <1>1, <1>2, <1>5
<1>7. FromAt(f + m) = ToAt(t + m) /\ t + m # to_size
  BY <1>0, <1>1, <1>2, <1>4
<1> QED BY <1>1, <1>4, <1>6, <1>7 DEF m

\* If it comes before the other one, that one comes after the new image.
LEMMA LongerBefore ==
    ASSUME Images, NEW f \in 0 .. from_size, NEW g \in 0 .. from_size,
           NEW t \in 0 .. to_size, matchlen(f, t) > matchlen(g, t), Precedes(from, f, g)
    PROVE  LET m == matchlen(g, t)
           IN  g + m < from_size /\ FromAt(g + m) > ToAt(t + m)
<1> DEFINE m == matchlen(g, t)
<1>0. from_size \in Nat /\ \A k \in 1 .. from_size : from[k] \in Int
  BY ByteAt DEF Images, from_size
<1>1. /\ m \in Nat /\ f + m < from_size /\ t + m < to_size /\ g + m <= from_size
      /\ \A j \in 0 .. m - 1 : FromAt(f + j) = FromAt(g + j)
      /\ FromAt(f + m) = ToAt(t + m)
      /\ g + m = from_size \/ FromAt(g + m) # ToAt(t + m)
  BY LongerMatch
<1>2. PICK k \in Nat : PrecedesAfter(from, f, g, k)
  BY PrecedesWhere DEF Images, from_size
<1>3. /\ f + k <= from_size /\ g + k < from_size
      /\ \A j \in 1 .. k : from[f + j] = from[g + j]
      /\ f + k = from_size \/ from[f + k + 1] < from[g + k + 1]
  BY <1>2 DEF PrecedesAfter, from_size
<1> HIDE DEF m
<1>4. ~(k < m)
  <2> SUFFICES ASSUME k < m PROVE FALSE
    OBVIOUS
  <2>1. f + k # from_size /\ k \in 0 .. m - 1
    BY <1>0, <1>1
  <2>2. from[f + k + 1] = from[g + k + 1]
    BY <1>1, <2>1 DEF FromAt
  <2>3. f + k + 1 \in 1 .. from_size /\ from[f + k + 1] \in Int
    BY <1>0, <1>3, <2>1
  <2> QED BY <1>3, <2>1, <2>2, <2>3
<1>5. g + m < from_size /\ g + m + 1 \in 1 .. from_size /\ f + m + 1 \in 1 .. from_size
  BY <1>0, <1>1, <1>3, <1>4
<1>6. FromAt(f + m) \in Int /\ FromAt(g + m) \in Int
  BY <1>0, <1>5 DEF FromAt
<1>7. CASE k = m
  <2>1. FromAt(f + m) < FromAt(g + m)
    BY <1>0, <1>1, <1>3, <1>7 DEF FromAt
  <2> QED BY <1>1, <1>5, <1>6, <2>1 DEF m
<1>8. CASE k # m
  <2>1. m + 1 \in 1 .. k /\ f + (m + 1) = f + m + 1 /\ g + (m + 1) = g + m + 1
    BY <1>1, <1>4, <1>8
  <2>2. from[f + (m + 1)] = from[g + (m + 1)]
    BY <1>3, <2>1
  <2>3. FromAt(f + m) = FromAt(g + m)
    BY <2>1, <2>2 DEF FromAt
  <2> QED BY <1>1, <1>5, <2>3 DEF m
<1> QED BY <1>7, <1>8

\* If it comes after the other one, that one ends or comes before the new image.
LEMMA LongerAfter ==
    ASSUME Images, NEW f \in 0 .. from_size, NEW g \in 0 .. from_size,
           NEW t \in 0 .. to_size, matchlen(f, t) > matchlen(g, t), Precedes(from, g, f)
    PROVE  g + matchlen(g, t) = from_size \/ Before(g, t)
<1> DEFINE m == matchlen(g, t)
<1>0. from_size \in Nat /\ \A k \in 1 .. from_size : from[k] \in Int
  BY ByteAt DEF Images, from_size
<1>1. /\ m \in Nat /\ f + m < from_size /\ t + m < to_size /\ g + m <= from_size
      /\ \A j \in 0 .. m - 1 : FromAt(f + j) = FromAt(g + j)
      /\ FromAt(f + m) = ToAt(t + m)
      /\ g + m = from_size \/ FromAt(g + m) # ToAt(t + m)
  BY LongerMatch
<1>2. PICK k \in Nat : PrecedesAfter(from, g, f, k)
  BY PrecedesWhere DEF Images, from_size
<1>3. /\ g + k <= from_size /\ f + k < from_size
      /\ \A j \in 1 .. k : from[g + j] = from[f + j]
      /\ g + k = from_size \/ from[g + k + 1] < from[f + k + 1]
  BY <1>2 DEF PrecedesAfter, from_size
<1>4. Before(g, t) <=> g + m < from_size /\ t + m < to_size /\ FromAt(g + m) < ToAt(t + m)
  BY DEF Before
<1> HIDE DEF m
<1> SUFFICES ASSUME g + m # from_size PROVE FromAt(g + m) < ToAt(t + m)
  BY <1>0, <1>1, <1>4 DEF m
<1>5. g + m < from_size /\ g + m + 1 \in 1 .. from_size /\ f + m + 1 \in 1 .. from_size
  BY <1>0, <1>1
<1>6. FromAt(f + m) \in Int /\ FromAt(g + m) \in Int
  BY <1>0, <1>5 DEF FromAt
<1>7. CASE k < m
  <2>1. g + k # from_size /\ k \in 0 .. m - 1
    BY <1>0, <1>1, <1>7
  <2>2. from[f + k + 1] = from[g + k + 1]
    BY <1>1, <2>1 DEF FromAt
  <2>3. g + k + 1 \in 1 .. from_size /\ from[g + k + 1] \in Int
    BY <1>0, <1>3, <2>1
  <2> QED BY <1>3, <2>1, <2>2, <2>3
<1>8. CASE k = m
  <2>1. FromAt(g + m) < FromAt(f + m)
    BY <1>0, <1>1, <1>3, <1>8 DEF FromAt
  <2> QED BY <1>1, <1>5, <1>6, <2>1
<1>9. CASE k > m
  <2>1. m + 1 \in 1 .. k /\ f + (m + 1) = f + m + 1 /\ g + (m + 1) = g + m + 1
    BY <1>1, <1>9
  <2>2. from[f + (m + 1)] = from[g + (m + 1)]
    BY <1>3, <2>1
  <2>3. FromAt(f + m) = FromAt(g + m)
    BY <2>1, <2>2 DEF FromAt
  <2> QED BY <1>1, <1>5, <2>3
<1> QED BY <1>1, <1>7, <1>8, <1>9

\* A match is as long as any, or ends where the old image does.
Longest(t, found) ==
    \/ \A f \in 0 .. from_size : matchlen(f, t) <= found.len
    \/ found.len > 0 /\ found.pos + found.len = from_size

\* What there is to find for the new image from t on.
Matches(t) == {[pos |-> f, len |-> matchlen(f, t)] : f \in 0 .. from_size}

\* The new image is to be looked for from the suffix at b on and up to that at e.
Bracket(t, b, e) ==
    /\ b \in 0 .. from_size /\ e \in 0 .. from_size /\ (b < e \/ from_size = 0)
    /\ b = 0 \/ Before(Suffix(b), t)
    /\ e = from_size \/ ~Before(Suffix(e), t)

\* The better of two neighbours, between which the new image would be, is a longest match.
LEMMA BetterIsLongest ==
    ASSUME Images, Sorted, NEW t \in 0 .. to_size, NEW b, NEW e, Bracket(t, b, e), e - b < 2
    PROVE  Longest(t, Better(t, b, e))
<1> DEFINE B == Suffix(b)
           E == Suffix(e)
           x == matchlen(B, t)
           y == matchlen(E, t)
           r == Better(t, b, e)
<1>0. from_size \in Nat /\ to_size \in Nat
  BY DEF Images, from_size, to_size
<1>1. /\ b \in 0 .. from_size /\ e \in 0 .. from_size
      /\ e = b + 1 \/ (b = e /\ from_size = 0)
      /\ B \in 0 .. from_size /\ E \in 0 .. from_size
  BY <1>0, SuffixType DEF Bracket
<1>2. x \in Nat /\ y \in Nat /\ E + y <= from_size
  BY <1>1, MatchlenFacts DEF AgreesIn
<1>3. IF x > y THEN r.pos = B /\ r.len = x ELSE r.pos = E /\ r.len = y
  BY DEF Better, Suffix
<1>4. x <= r.len /\ y <= r.len
  BY <1>2, <1>3
<1> HIDE DEF r
<1> SUFFICES ASSUME NEW f \in 0 .. from_size, matchlen(f, t) > r.len
             PROVE  r.len > 0 /\ r.pos + r.len = from_size
  <2>1. r.len \in Nat
    BY <1>2, <1>3
  <2>2. \A f \in 0 .. from_size : matchlen(f, t) \in Nat
    BY MatchlenFacts DEF AgreesIn
  <2> QED BY <2>1, <2>2 DEF Longest, r
<1>5. PICK i \in 0 .. from_size : f = Suffix(i)
  BY SuffixAnywhere
<1>6. matchlen(f, t) \in Nat /\ r.len \in Nat
  BY <1>2, <1>3, MatchlenFacts DEF AgreesIn
<1>7. matchlen(f, t) > x /\ matchlen(f, t) > y
  BY <1>2, <1>4, <1>6
<1>8. f # B /\ f # E
  BY <1>2, <1>6, <1>7
<1>9. i # b /\ i # e
  BY <1>5, <1>8
<1>10. ~(i < b)
  <2> SUFFICES ASSUME i < b PROVE FALSE
    OBVIOUS
  <2>1. Precedes(from, f, B)
    BY <1>1, <1>5, SuffixesInOrder
  <2>2. B + x < from_size /\ FromAt(B + x) > ToAt(t + x)
    BY <1>1, <1>7, <2>1, LongerBefore
  <2>3. FromAt(B + x) < ToAt(t + x)
    <3>1. b # 0
      BY <1>0
    <3> QED BY <3>1 DEF Bracket, Before
  <2>4. FromAt(B + x) \in Int /\ ToAt(t + x) \in Int
    <3>1. t + x < to_size
      BY <1>1, <1>7, LongerMatch
    <3>2. B + x + 1 \in 1 .. from_size /\ t + x + 1 \in 1 .. to_size
      BY <1>0, <1>1, <1>2, <2>2, <3>1
    <3> QED BY <3>2, ByteAt DEF Images, FromAt, ToAt, from_size, to_size
  <2> QED BY <2>2, <2>3, <2>4
<1>11. i > e /\ from_size # 0 /\ b < e
  BY <1>0, <1>1, <1>9, <1>10
<1>12. E + y = from_size
  <2>1. Precedes(from, E, f)
    BY <1>1, <1>5, <1>11, SuffixesInOrder
  <2>2. E + y = from_size \/ Before(E, t)
    BY <1>1, <1>7, <2>1, LongerAfter
  <2>3. ~Before(E, t)
    BY <1>0, <1>11 DEF Bracket
  <2> QED BY <2>2, <2>3
<1>13. Precedes(from, B, E)
  BY <1>1, <1>11, SuffixesInOrder
<1>14. ~(x > y)
  BY <1>0, <1>1, <1>12, <1>13, LongerBefore
<1>15. E < from_size
  <2>1. PICK k \in Nat : PrecedesAfter(from, B, E, k)
    BY <1>1, <1>13, PrecedesWhere DEF Images, from_size
  <2> QED BY <1>0, <1>1, <2>1 DEF PrecedesAfter, from_size
<1> QED BY <1>0, <1>1, <1>2, <1>3, <1>12, <1>14, <1>15

\* The search ends with a match, as long as any or up to the end of the old image.
LEMMA SearchResult ==
    ASSUME Images, Sorted, NEW t \in 0 .. to_size
    PROVE  search(t) \in Matches(t) /\ Longest(t, search(t))
<1> DEFINE n == from_size
           args == (0 .. n) \X (0 .. n)
           stop == {r \in args : r[2] - r[1] < 2}
           base == [r \in args |-> Better(t, r[1], r[2])]
           mid(r) == r[1] + (r[2] - r[1]) \div 2
           next == [r \in args |-> IF r \in stop THEN r
                                  ELSE IF Before(sa[mid(r) + 1], t) THEN <<mid(r), r[2]>>
                                  ELSE <<r[1], mid(r)>>]
           measure == [r \in args |-> IF r[2] > r[1] THEN r[2] - r[1] ELSE 0]
           V == Matches(t)
<1>0. n \in Nat
  BY DEF Images, from_size
<1>1. ASSUME NEW r \in args PROVE r[1] \in 0 .. n /\ r[2] \in 0 .. n /\ r = <<r[1], r[2]>>
  OBVIOUS
<1>2. ASSUME NEW r \in args, r \notin stop
      PROVE  /\ mid(r) \in 0 .. n /\ r[1] < mid(r) /\ mid(r) < r[2]
  BY <1>0, <1>1, <1>2
<1>3. base \in [args -> V]
  <2>1. ASSUME NEW b \in 0 .. n, NEW e \in 0 .. n PROVE Better(t, b, e) \in V
    <3>1. Suffix(b) \in 0 .. n /\ Suffix(e) \in 0 .. n
      BY SuffixType
    <3> QED BY <3>1 DEF Better, Matches, Suffix
  <2> QED BY <1>1, <2>1
<1>4. next \in [args -> args]
  <2>1. ASSUME NEW r \in args PROVE next[r] \in args
    BY <1>1, <1>2
  <2> QED BY <2>1
<1>5. measure \in [args -> 0 .. n]
  BY <1>0, <1>1
<1>6. ASSUME NEW r \in args PROVE r \in stop \/ measure[next[r]] < measure[r]
  <2> SUFFICES ASSUME r \notin stop PROVE measure[next[r]] < measure[r]
    OBVIOUS
  <2> DEFINE m == mid(r)
  <2>1. m \in 0 .. n /\ r[1] < m /\ m < r[2] /\ r[1] \in 0 .. n /\ r[2] \in 0 .. n
    BY <1>1, <1>2
  <2>2. next[r] = <<m, r[2]>> \/ next[r] = <<r[1], m>>
    OBVIOUS
  <2> HIDE DEF m, next
  <2>3. <<m, r[2]>> \in args /\ <<r[1], m>> \in args
    BY <2>1
  <2>4. /\ measure[<<m, r[2]>>] = r[2] - m /\ measure[<<r[1], m>>] = m - r[1]
        /\ measure[r] = r[2] - r[1]
    BY <2>1, <2>3
  <2> QED BY <2>1, <2>2, <2>4
<1>7. Approaches(args, stop, next, measure, n)
  BY <1>4, <1>5, <1>6 DEF Approaches
<1>8. ASSUME NEW F
      PROVE  [r \in args |->
                LET b == r[1]
                    e == r[2]
                    x == b + (e - b) \div 2
                IN  IF e - b < 2 THEN Better(t, b, e)
                    ELSE IF Before(sa[x + 1], t) THEN F[<<x, e>>] ELSE F[<<b, x>>]]
             = [r \in args |-> IF r \in stop THEN base[r] ELSE F[next[r]]]
  <2>1. ASSUME NEW r \in args
        PROVE  (IF r[2] - r[1] < 2 THEN Better(t, r[1], r[2])
                ELSE IF Before(sa[mid(r) + 1], t) THEN F[<<mid(r), r[2]>>]
                ELSE F[<<r[1], mid(r)>>])
               = IF r \in stop THEN base[r] ELSE F[next[r]]
    <3>1. CASE r \in stop
      BY <3>1
    <3>2. CASE r \notin stop
      <4>1. ~(r[2] - r[1] < 2)
        BY <3>2
      <4>2. next[r] = IF Before(sa[mid(r) + 1], t) THEN <<mid(r), r[2]>>
                      ELSE <<r[1], mid(r)>>
        BY <3>2
      <4> HIDE DEF next
      <4> QED BY <3>2, <4>1, <4>2
    <3> QED BY <3>1, <3>2
  <2> QED BY <2>1
<1>9. PICK F : /\ F = [r \in args |->
                         LET b == r[1]
                             e == r[2]
                             x == b + (e - b) \div 2
                         IN  IF e - b < 2 THEN Better(t, b, e)
                             ELSE IF Before(sa[x + 1], t) THEN F[<<x, e>>] ELSE F[<<b, x>>]]
               /\ search(t) = F[<<0, n>>]
  <2>1. \E F : TailRecursion(F, args, stop, base, next)
    <3> HIDE DEF args, stop, base, next, measure, V
    <3> QED BY <1>0, <1>3, <1>7, TailRecursionDefines
  <2>2. PICK G : G = [r \in args |-> IF r \in stop THEN base[r] ELSE G[next[r]]]
    BY <2>1 DEF TailRecursion
  <2>3. G = [r \in args |->
               LET b == r[1]
                   e == r[2]
                   x == b + (e - b) \div 2
               IN  IF e - b < 2 THEN Better(t, b, e)
                   ELSE IF Before(sa[x + 1], t) THEN G[<<x, e>>] ELSE G[<<b, x>>]]
    BY <1>8, <2>2
  <2> QED BY <2>3 DEF search
<1>10. TailRecursion(F, args, stop, base, next)
  BY <1>8, <1>9 DEF TailRecursion
<1>11. <<0, n>> \in args
  BY <1>0
<1>12. F[<<0, n>>] \in V
  <2> HIDE DEF args, stop, base, next, measure, V
  <2> QED BY <1>0, <1>3, <1>7, <1>10, <1>11, TailRecursionValue
<1> DEFINE Right(k) == \A r \in args : measure[r] <= k /\ Bracket(t, r[1], r[2])
                                          => Longest(t, F[r])
           S == {k \in 0 .. n : Right(k)}
<1>13. ASSUME NEW r \in args PROVE F[r] = IF r \in stop THEN base[r] ELSE F[next[r]]
  BY <1>10 DEF TailRecursion
<1>14. ASSUME NEW r \in args, r \in stop, Bracket(t, r[1], r[2]) PROVE Longest(t, F[r])
  <2>1. F[r] = Better(t, r[1], r[2]) /\ r[2] - r[1] < 2
    BY <1>13, <1>14
  <2> QED BY <1>14, <2>1, BetterIsLongest
<1>15. ASSUME NEW r \in args, r \notin stop, Bracket(t, r[1], r[2])
       PROVE  Bracket(t, next[r][1], next[r][2])
  <2> DEFINE m == mid(r)
  <2>1. m \in 0 .. n /\ r[1] < m /\ m < r[2] /\ r[1] \in 0 .. n /\ r[2] \in 0 .. n
    BY <1>1, <1>2, <1>15
  <2>2. next[r] = IF Before(Suffix(m), t) THEN <<m, r[2]>> ELSE <<r[1], m>>
    BY <1>15 DEF Suffix
  <2> HIDE DEF m, next
  <2>3. CASE Before(Suffix(m), t)
    <3>1. next[r][1] = m /\ next[r][2] = r[2]
      BY <2>2, <2>3
    <3> QED BY <1>15, <2>1, <2>3, <3>1 DEF Bracket
  <2>4. CASE ~Before(Suffix(m), t)
    <3>1. next[r][1] = r[1] /\ next[r][2] = m
      BY <2>2, <2>4
    <3> QED BY <1>15, <2>1, <2>4, <3>1 DEF Bracket
  <2> QED BY <2>3, <2>4
<1> HIDE DEF args, stop, base, next, measure, V
<1>16. 0 \in S
  <2>1. ASSUME NEW r \in args, measure[r] <= 0 PROVE r \in stop
    <3>1. next[r] \in args
      BY <1>4
    <3>2. measure[next[r]] \in 0 .. n /\ measure[r] \in 0 .. n
      BY <1>5, <3>1
    <3> QED BY <1>6, <2>1, <3>2
  <2> QED BY <1>0, <1>14, <2>1
<1>17. ASSUME NEW k \in 0 .. n - 1, k \in S PROVE k + 1 \in S
  <2>1. ASSUME NEW r \in args, measure[r] <= k + 1, Bracket(t, r[1], r[2])
        PROVE  Longest(t, F[r])
    <3>1. CASE r \in stop
      BY <1>14, <2>1, <3>1
    <3>2. CASE r \notin stop
      <4>1. next[r] \in args /\ measure[next[r]] < measure[r]
        BY <1>4, <1>6, <3>2
      <4>2. measure[next[r]] \in 0 .. n /\ measure[r] \in 0 .. n
        BY <1>5, <4>1
      <4>3. measure[next[r]] <= k
        BY <2>1, <4>1, <4>2
      <4>4. Longest(t, F[next[r]])
        BY <1>15, <1>17, <2>1, <3>2, <4>1, <4>3
      <4> QED BY <1>13, <3>2, <4>4
    <3> QED BY <3>1, <3>2
  <2>2. k + 1 \in 0 .. n
    BY <1>0
  <2> QED BY <2>1, <2>2
<1> HIDE DEF S
<1>18. \A k \in 0 .. n : k \in S
  BY <1>0, <1>16, <1>17, InductionUpTo
<1>19. Right(n)
  BY <1>0, <1>18 DEF S
<1>20. Bracket(t, 0, n)
  BY <1>0 DEF Bracket
<1>21. Longest(t, F[<<0, n>>])
  <2> DEFINE r == <<0, n>>
  <2>1. r[1] = 0 /\ r[2] = n /\ measure[r] <= n
    BY <1>0, <1>5, <1>11
  <2> HIDE DEF r
  <2> QED BY <1>11, <1>19, <1>20, <2>1 DEF r
<1> QED BY <1>9, <1>12, <1>21 DEF V

-----------------------------------------------------------------------------
(***************************************************************************)
(* The records.                                                            *)
(***************************************************************************)

\* The image and the place after one more record.
AfterRecord(b, r) ==
    [pos |-> b.pos + Len(r.diff) + r.adjust,
     to |-> b.to \o [j \in 1 .. Len(r.diff) |-> (from[b.pos + j] + r.diff[j]) % 256]
                 \o r.extra]

\* Building is what its recursive definition says.
LEMMA BuildingSteps ==
    ASSUME NEW records, Len(records) \in Nat
    PROVE  LET B == Building(from, records)
           IN  /\ B[0] = [pos |-> 0, to |-> <<>>]
               /\ \A k \in 1 .. Len(records) : B[k] = AfterRecord(B[k - 1], records[k])
<1> DEFINE n == Len(records)
           begin == [pos |-> 0, to |-> <<>>]
           Built(g, m) == g = [k \in 0 .. m |-> IF k = 0 THEN begin
                                                ELSE AfterRecord(g[k - 1], records[k])]
           S == {m \in 0 .. n : \E g : Built(g, m)}
           B == Building(from, records)
<1> HIDE DEF n, begin
<1>0. n \in Nat
  BY DEF n
<1>1. 0 \in S
  <2> DEFINE g == [k \in 0 .. 0 |-> begin]
  <2>1. \A k \in 0 .. 0 : begin = IF k = 0 THEN begin ELSE AfterRecord(g[k - 1], records[k])
    OBVIOUS
  <2>2. Built(g, 0)
    BY <2>1
  <2> HIDE DEF g
  <2> QED BY <1>0, <2>2
<1>2. ASSUME NEW m \in 0 .. n - 1, m \in S PROVE m + 1 \in S
  <2>1. PICK g : Built(g, m)
    BY <1>2
  <2> DEFINE v == AfterRecord(g[m], records[m + 1])
             h == [k \in 0 .. m + 1 |-> IF k <= m THEN g[k] ELSE v]
  <2> HIDE DEF v
  <2>2. /\ \A k \in 0 .. m : h[k] = g[k]
        /\ h[m + 1] = v /\ h = [k \in 0 .. m + 1 |-> h[k]]
    OBVIOUS
  <2> HIDE DEF h
  <2>3. ASSUME NEW k \in 0 .. m + 1
        PROVE  h[k] = IF k = 0 THEN begin ELSE AfterRecord(h[k - 1], records[k])
    <3>1. CASE k \in 0 .. m
      <4>1. g[k] = IF k = 0 THEN begin ELSE AfterRecord(g[k - 1], records[k])
        BY <2>1, <3>1
      <4>2. k # 0 => k - 1 \in 0 .. m
        BY <3>1
      <4> QED BY <2>2, <3>1, <4>1, <4>2
    <3>2. CASE k = m + 1
      <4>1. k - 1 = m /\ m \in 0 .. m
        BY <3>2
      <4>2. h[k - 1] = g[m]
        BY <2>2, <4>1
      <4> QED BY <2>2, <3>2, <4>2 DEF v
    <3> QED BY <3>1, <3>2
  <2>4. Built(h, m + 1)
    BY <2>2, <2>3
  <2>5. m + 1 \in 0 .. n
    BY <1>0
  <2> HIDE DEF Built
  <2> QED BY <2>4, <2>5
<1> HIDE DEF S
<1>3. \A m \in 0 .. n : m \in S
  BY <1>0, <1>1, <1>2, InductionUpTo
<1>4. n \in S
  BY <1>0, <1>3
<1>5. PICK g : Built(g, n)
  BY <1>4 DEF S
<1>6. Built(B, n)
  BY <1>5 DEF Building, AfterRecord, n, begin
<1> HIDE DEF B
<1> QED BY <1>0, <1>6 DEF n, begin, B

\* What records make is not changed by those that follow them.
LEMMA BuildingAppend ==
    ASSUME NEW R, NEW records \in Seq(R), NEW r \in R
    PROVE  LET n == Len(records)
               B == Building(from, records)
               C == Building(from, Append(records, r))
           IN  /\ \A k \in 0 .. n : C[k] = B[k]
               /\ C[n + 1] = AfterRecord(B[n], r)
<1> DEFINE n == Len(records)
           more == Append(records, r)
           B == Building(from, records)
           C == Building(from, more)
           S == {k \in 0 .. n : C[k] = B[k]}
<1>1. n \in Nat /\ Len(more) = n + 1 /\ more[n + 1] = r /\ \A k \in 1 .. n : more[k] = records[k]
  BY AppendProperties
<1>2. B[0] = C[0] /\ \A k \in 1 .. n : B[k] = AfterRecord(B[k - 1], records[k])
  BY <1>1, BuildingSteps
<1>3. \A k \in 1 .. n + 1 : C[k] = AfterRecord(C[k - 1], more[k])
  <2>1. Len(more) = n + 1 /\ n + 1 \in Nat
    BY <1>1
  <2>2. \A k \in 1 .. Len(more) : C[k] = AfterRecord(C[k - 1], more[k])
    BY <2>1, BuildingSteps
  <2> HIDE DEF C, more, n
  <2> QED BY <2>1, <2>2
<1> HIDE DEF n, more, B, C
<1>4. 0 \in S
  BY <1>1, <1>2
<1>5. ASSUME NEW k \in 0 .. n - 1, k \in S PROVE k + 1 \in S
  <2>1. k + 1 \in 1 .. n /\ k + 1 \in 1 .. n + 1 /\ k + 1 - 1 = k
    BY <1>1
  <2>2. B[k + 1] = AfterRecord(B[k], records[k + 1])
    BY <1>2, <2>1
  <2>3. C[k + 1] = AfterRecord(C[k], more[k + 1])
    BY <1>3, <2>1
  <2> QED BY <1>1, <1>5, <2>1, <2>2, <2>3
<1> HIDE DEF S
<1>6. \A k \in 0 .. n : k \in S
  BY <1>1, <1>4, <1>5, InductionUpTo
<1>7. C[n + 1] = AfterRecord(C[n], r)
  <2>1. n + 1 \in 1 .. n + 1 /\ n + 1 - 1 = n
    BY <1>1
  <2> QED BY <1>1, <1>3, <2>1
<1>8. \A k \in 0 .. n : C[k] = B[k]
  BY <1>6 DEF S
<1>9. C[n + 1] = AfterRecord(B[n], r)
  BY <1>1, <1>7, <1>8
<1> QED BY <1>8, <1>9 DEF n, more, B, C

-----------------------------------------------------------------------------
(***************************************************************************)
(* The scan.                                                               *)
(***************************************************************************)

\* Where the scan and the last record are in the two images.
Positions ==
    /\ Images /\ slack \in Nat
    /\ scan \in 0 .. to_size /\ pos \in 0 .. from_size /\ len \in Nat
    /\ last_scan \in 0 .. scan /\ last_pos \in 0 .. from_size
    /\ loop \in {"next", "cut"} /\ scan < to_size => scan + len <= to_size
    /\ loop = "scan" => scan < to_size
    /\ loop = "cut" => last_scan < to_size
    /\ loop \in {"next", "returned"} /\ scan = to_size => last_scan = to_size
    /\ loop = "scan" => last_scan < to_size
    /\ loop = "returned" => scan = to_size
    /\ loop \in {"parse_args", "next", "scan", "cut"} => Sorted
    /\ loop \in {"suffix_array", "parse_args"} => scan = 0 /\ len = 0

\* The records are made of bytes.
Records == [diff : Seq(Byte), extra : Seq(Byte), adjust : Int]

\* What they make is the new image, and none but the last comes to its end.
Makes ==
    LET B == Building(from, chunks)
    IN  /\ chunks \in Seq(Records)
        /\ B[Len(chunks)] = [pos |-> last_pos, to |-> SubSeq(to, 1, last_scan)]
        /\ \A k \in 0 .. Len(chunks) - 1 : Len(B[k].to) < to_size

\* The match of the last record goes on in both images, and not beyond scan.
LEMMA ForwardBounds ==
    ASSUME Positions
    PROVE  /\ Forward \in Nat /\ last_scan + Forward <= scan
           /\ last_pos + Forward <= from_size
<1> DEFINE n == Min({scan - last_scan, from_size - last_pos})
           gain == [i \in 0 .. n |-> 2 * Equal(last_pos, last_scan, i) - i]
<1>0. /\ from_size \in Nat /\ to_size \in Nat /\ scan \in Nat /\ last_scan \in Nat
      /\ last_pos \in Nat /\ last_scan <= scan /\ last_pos <= from_size
  BY DEF Positions, Images, from_size, to_size
<1>1. n \in Nat /\ last_scan + n <= scan /\ last_pos + n <= from_size
  BY <1>0, MinOfTwo
<1>2. Forward = Best(gain, n)
  BY DEF Forward
<1> HIDE DEF n
<1>3. \A i \in 0 .. n : gain[i] \in Int
  <2> SUFFICES ASSUME NEW i \in 0 .. n PROVE gain[i] \in Int
    OBVIOUS
  <2>1. Equal(last_pos, last_scan, i) \in Nat
    BY EqualType
  <2> QED BY <2>1
<1> HIDE DEF gain
<1>4. Forward \in 0 .. n
  BY <1>1, <1>2, <1>3, BestInRange
<1> QED BY <1>0, <1>1, <1>4

\* The new match begins in both images, and not before the last record.
LEMMA BackwardBounds ==
    ASSUME Positions
    PROVE  /\ Backward \in Nat /\ last_scan + Backward <= scan /\ Backward <= pos
           /\ scan = to_size => Backward = 0
<1> DEFINE n == IF scan < to_size THEN Min({scan - last_scan, pos}) ELSE 0
           gain == [i \in 0 .. n |-> 2 * Equal(pos - i, scan - i, i) - i]
<1>0. /\ to_size \in Nat /\ scan \in Nat /\ last_scan \in Nat
      /\ pos \in Nat /\ last_scan <= scan
  BY DEF Positions, Images, to_size
<1>1. n \in Nat /\ last_scan + n <= scan /\ n <= pos /\ (scan = to_size => n = 0)
  BY <1>0, MinOfTwo
<1>2. Backward = Best(gain, n)
  BY DEF Backward
<1> HIDE DEF n
<1>3. \A i \in 0 .. n : gain[i] \in Int
  <2> SUFFICES ASSUME NEW i \in 0 .. n PROVE gain[i] \in Int
    OBVIOUS
  <2>1. Equal(pos - i, scan - i, i) \in Nat
    BY EqualType
  <2> QED BY <2>1
<1> HIDE DEF gain
<1>4. Backward \in 0 .. n
  BY <1>1, <1>2, <1>3, BestInRange
<1> QED BY <1>0, <1>1, <1>4

\* The part that the last record keeps is one of the overlap.
LEMMA SplitBounds ==
    ASSUME NEW diff_size, NEW lenb, NEW overlap \in Nat
    PROVE  Split(diff_size, lenb, overlap) \in 0 .. overlap
<1> DEFINE t == scan - lenb
           gain == [i \in 0 .. overlap |->
                       Equal(last_pos + diff_size - overlap, t, i) - Equal(pos - lenb, t, i)]
<1>1. Split(diff_size, lenb, overlap) = Best(gain, overlap)
  BY DEF Split
<1>2. \A i \in 0 .. overlap : gain[i] \in Int
  <2> SUFFICES ASSUME NEW i \in 0 .. overlap PROVE gain[i] \in Int
    OBVIOUS
  <2>1. /\ Equal(last_pos + diff_size - overlap, t, i) \in Nat
        /\ Equal(pos - lenb, t, i) \in Nat
    BY EqualType
  <2> QED BY <2>1
<1> HIDE DEF gain
<1> QED BY <1>1, <1>2, BestInRange

\* A record takes bytes of the old image that there are, and the next one begins in
\* the match.
LEMMA CutBounds ==
    ASSUME Positions
    PROVE  /\ Cut.diff \in Nat /\ Cut.lenb \in Nat
           /\ last_pos + Cut.diff <= from_size /\ Cut.lenb <= pos
           /\ last_scan + Cut.diff <= scan - Cut.lenb
           /\ scan = to_size => Cut.lenb = 0
<1> DEFINE overlap == (last_scan + Forward) - (scan - Backward)
           lens == Split(Forward, Backward, overlap)
<1>0. /\ from_size \in Nat /\ to_size \in Nat /\ scan \in Nat /\ last_scan \in Nat
      /\ last_pos \in Nat /\ pos \in Nat
  BY DEF Positions, Images, from_size, to_size
<1>1. /\ Forward \in Nat /\ last_scan + Forward <= scan /\ last_pos + Forward <= from_size
      /\ Backward \in Nat /\ last_scan + Backward <= scan /\ Backward <= pos
      /\ scan = to_size => Backward = 0
  BY ForwardBounds, BackwardBounds
<1>2. overlap \in Int
  BY <1>0, <1>1
<1>3. CASE overlap > 0
  <2>1. lens \in 0 .. overlap
    BY <1>2, <1>3, SplitBounds
  <2>2. Cut.diff = Forward + lens - overlap /\ Cut.lenb = Backward - lens
    BY <1>3 DEF Cut
  <2> HIDE DEF lens
  <2> QED BY <1>0, <1>1, <1>3, <2>1, <2>2
<1>4. CASE ~(overlap > 0)
  <2>1. Cut.diff = Forward /\ Cut.lenb = Backward
    BY <1>4 DEF Cut
  <2> QED BY <1>0, <1>1, <1>4, <2>1
<1> QED BY <1>3, <1>4

\* A difference of bytes gives back the one when it is added to the other.
LEMMA ByteDifference ==
    ASSUME NEW a \in Byte, NEW b \in Byte
    PROVE  (a - b) % 256 \in Byte /\ (b + ((a - b) % 256)) % 256 = a
  BY SMT DEF Byte

\* The d bytes after the first m ones.
LEMMA SubSeqFrom ==
    ASSUME NEW S, NEW s, NEW m \in Nat, NEW d \in Nat, \A i \in m + 1 .. m + d : s[i] \in S
    PROVE  LET r == SubSeq(s, m + 1, m + d)
           IN  r \in Seq(S) /\ Len(r) = d /\ \A j \in 1 .. d : r[j] = s[m + j]
<1> DEFINE a == m + 1
           z == m + d
           r == SubSeq(s, a, z)
<1>1. a \in Int /\ z \in Int /\ \A i \in a .. z : s[i] \in S
  OBVIOUS
<1>2. /\ z - a + 1 = d /\ (IF a <= z THEN z - a + 1 ELSE 0) = d
      /\ \A j \in 1 .. d : a + j - 1 = m + j
  OBVIOUS
<1> HIDE DEF a, z
<1>3. /\ r \in Seq(S) /\ Len(r) = IF a <= z THEN z - a + 1 ELSE 0
      /\ \A j \in 1 .. z - a + 1 : r[j] = s[a + j - 1]
  BY <1>1, SubSeqProperties
<1> HIDE DEF r
<1>4. r \in Seq(S) /\ Len(r) = d /\ \A j \in 1 .. d : r[j] = s[m + j]
  BY <1>2, <1>3
<1> QED BY <1>4 DEF a, z, r

\* The record of a cut, applied where the last one ended, makes the new image up to
\* where the next one begins.
LEMMA ChunkMakes ==
    ASSUME Positions
    PROVE  /\ Chunk(Cut) \in Records
           /\ AfterRecord([pos |-> last_pos, to |-> SubSeq(to, 1, last_scan)], Chunk(Cut))
                = [pos |-> pos - Cut.lenb, to |-> SubSeq(to, 1, scan - Cut.lenb)]
<1> DEFINE d == Cut.diff
           e == Cut.lenb
           diff == [k \in 1 .. d |-> (to[last_scan + k] - from[last_pos + k]) % 256]
           extra == SubSeq(to, last_scan + d + 1, scan - e)
           sum == [j \in 1 .. Len(diff) |-> (from[last_pos + j] + diff[j]) % 256]
           adjust == (pos - e) - (last_pos + d)
<1>0. /\ from \in Seq(Byte) /\ to \in Seq(Byte)
      /\ from_size \in Nat /\ to_size \in Nat
      /\ Len(from) = from_size /\ Len(to) = to_size
  BY DEF Positions, Images, from_size, to_size
<1>1. /\ d \in Nat /\ e \in Nat /\ last_pos + d <= from_size /\ e <= pos
      /\ last_scan + d <= scan - e
  BY CutBounds
<1>2. /\ scan \in Nat /\ scan <= to_size /\ last_scan \in Nat /\ last_pos \in Nat
      /\ pos \in Nat
  BY <1>0 DEF Positions
<1>3. Chunk(Cut) = [diff |-> diff, extra |-> extra, adjust |-> adjust]
  BY DEF Chunk
<1> HIDE DEF d, e
<1>4. ASSUME NEW k \in 1 .. d
      PROVE  to[last_scan + k] \in Byte /\ from[last_pos + k] \in Byte
  <2>1. last_scan + k \in 1 .. Len(to) /\ last_pos + k \in 1 .. Len(from)
    BY <1>0, <1>1, <1>2
  <2> QED BY <1>0, <2>1, ElementOfSeq
<1>5. diff \in Seq(Byte) /\ Len(diff) = d
  <2>1. \A k \in 1 .. d : diff[k] \in Byte
    BY <1>4, ByteDifference
  <2> QED BY <1>1, <2>1, IsASeq
<1>6. \A k \in last_scan + d + 1 .. scan - e : to[k] \in Byte
  BY <1>0, <1>1, <1>2, ElementOfSeq
<1>7. extra \in Seq(Byte)
  BY <1>1, <1>2, <1>6, SubSeqProperties
<1>8. sum = SubSeq(to, last_scan + 1, last_scan + d)
  <2> DEFINE s == SubSeq(to, last_scan + 1, last_scan + d)
  <2>1. ASSUME NEW i \in last_scan + 1 .. last_scan + d PROVE to[i] \in Byte
    <3>1. i \in 1 .. Len(to)
      BY <1>0, <1>1, <1>2
    <3> QED BY <1>0, <3>1, ElementOfSeq
  <2>2. /\ s \in Seq(Byte) /\ Len(s) = d
        /\ \A j \in 1 .. d : s[j] = to[last_scan + j]
    BY <1>1, <1>2, <2>1, SubSeqFrom
  <2> HIDE DEF s
  <2>3. ASSUME NEW j \in 1 .. d PROVE sum[j] = s[j]
    <3> DEFINE x == to[last_scan + j]
               y == from[last_pos + j]
               z == diff[j]
    <3>1. sum[j] = (y + z) % 256
      BY <1>5
    <3>2. z = (x - y) % 256
      OBVIOUS
    <3>3. x \in Byte /\ y \in Byte
      BY <1>4
    <3> HIDE DEF x, y, z, sum
    <3>4. sum[j] = x
      BY <3>1, <3>2, <3>3, SMT DEF Byte
    <3>5. sum[j] = to[last_scan + j]
      BY <3>4 DEF x
    <3> QED BY <2>2, <3>5
  <2>4. sum \in Seq(Byte) /\ Len(sum) = d
    <3>1. sum = [j \in 1 .. d |-> (from[last_pos + j] + diff[j]) % 256]
      BY <1>5
    <3>2. \A j \in 1 .. d : sum[j] \in Byte
      BY <2>2, <2>3, ElementOfSeq
    <3>3. sum = [j \in 1 .. d |-> sum[j]]
      BY <3>1
    <3> HIDE DEF sum
    <3> QED BY <1>1, <3>2, <3>3, IsASeq
  <2> HIDE DEF sum
  <2>5. sum = s
    BY <2>2, <2>3, <2>4, SeqEqual
  <2> QED BY <2>5 DEF s
<1> HIDE DEF sum
<1>9. SubSeq(to, 1, last_scan) \o sum \o extra = SubSeq(to, 1, scan - e)
  <2>1. /\ 1 \in 1 .. Len(to) + 1 /\ last_scan \in 1 - 1 .. Len(to)
        /\ last_scan + d \in last_scan .. Len(to)
        /\ last_scan + d \in 1 - 1 .. Len(to)
        /\ scan - e \in last_scan + d .. Len(to)
    BY <1>0, <1>1, <1>2
  <2>2. SubSeq(to, 1, last_scan) \o SubSeq(to, last_scan + 1, last_scan + d)
          = SubSeq(to, 1, last_scan + d)
    BY <1>0, <2>1, ConcatAdjacentSubSeq
  <2>3. SubSeq(to, 1, last_scan + d) \o SubSeq(to, last_scan + d + 1, scan - e)
          = SubSeq(to, 1, scan - e)
    BY <1>0, <2>1, ConcatAdjacentSubSeq
  <2> QED BY <1>8, <2>2, <2>3
<1>10. Chunk(Cut) \in Records
  <2>1. adjust \in Int
    BY <1>1, <1>2
  <2> HIDE DEF diff, extra, adjust
  <2> QED BY <1>3, <1>5, <1>7, <2>1 DEF Records
<1>11. last_pos + Len(diff) + adjust = pos - e
  <2> HIDE DEF diff
  <2> QED BY <1>1, <1>2, <1>5
<1> HIDE DEF diff, extra, adjust
<1>12. AfterRecord([pos |-> last_pos, to |-> SubSeq(to, 1, last_scan)], Chunk(Cut))
         = [pos |-> last_pos + Len(diff) + adjust,
            to |-> SubSeq(to, 1, last_scan) \o sum \o extra]
  BY <1>3 DEF AfterRecord, sum
<1> QED BY <1>9, <1>10, <1>11, <1>12 DEF d, e

\* The images and the array do not change once the array is there.
LEMMA SameImages ==
    ASSUME UNCHANGED images
    PROVE  /\ from_size' = from_size /\ to_size' = to_size /\ Images' = Images
           /\ slack' = slack /\ Sorted' = Sorted
  BY DEF images, case, from_size, to_size, Images, Sorted

\* The case is one of images, and the scan begins at 0.
LEMMA PositionsInit ==
    ASSUME Init
    PROVE  Positions
<1>1. PICK c \in Cases : from = c.from /\ to = c.to /\ slack = c.slack
  BY DEF Init
<1>2. Images /\ slack \in Nat
  BY <1>1, CasesAssumption DEF Images
<1>3. from_size \in Nat /\ to_size \in Nat
  BY <1>2 DEF Images, from_size, to_size
<1> QED BY <1>2, <1>3 DEF Init, Positions

\* A failure leaves the positions alone.
LEMMA PositionsGiveUp ==
    ASSUME Positions, NEW order, GiveUp(order)
    PROVE  Positions'
<1>1. UNCHANGED images /\ UNCHANGED <<scan, pos, len, last_scan, last_pos>> /\ loop' = "failed"
  BY DEF GiveUp, match, last
<1> QED BY <1>1, SameImages DEF Positions

\* A search finds a match in both images.
LEMMA PositionsSearch ==
    ASSUME Positions, Search
    PROVE  Positions'
<1> DEFINE found == search(scan)
           taken == Taken(found, from_score + Scored(scan + found.len))
<1>1. /\ loop = "scan" /\ len' = found.len /\ pos' = found.pos
      /\ UNCHANGED <<images, last_scan, last_pos>>
      /\ \/ loop' = "cut" /\ scan' = scan
         \/ scan' = scan + 1 /\ loop' = IF scan' < to_size THEN "scan" ELSE "cut"
  BY DEF Search, last
<1>2. Images /\ Sorted /\ scan \in 0 .. to_size /\ scan < to_size /\ last_scan \in 0 .. scan
      /\ last_scan < to_size /\ slack \in Nat /\ last_pos \in 0 .. from_size
  BY <1>1 DEF Positions
<1>3. from_size \in Nat /\ to_size \in Nat
  BY <1>2 DEF Images, from_size, to_size
<1>4. found \in Matches(scan)
  BY <1>2, SearchResult
<1>5. PICK f \in 0 .. from_size : found = [pos |-> f, len |-> matchlen(f, scan)]
  BY <1>4 DEF Matches
<1>6. AgreesIn(f, scan, matchlen(f, scan))
  BY <1>2, MatchlenFacts
<1> HIDE DEF found
<1>7. pos' \in 0 .. from_size /\ len' \in Nat /\ scan + len' <= to_size
  BY <1>1, <1>5, <1>6 DEF AgreesIn
<1>8. CASE loop' = "cut" /\ scan' = scan
  BY <1>1, <1>2, <1>3, <1>7, <1>8, SameImages DEF Positions
<1>9. CASE scan' = scan + 1 /\ loop' = IF scan' < to_size THEN "scan" ELSE "cut"
  BY <1>1, <1>2, <1>3, <1>7, <1>9, SameImages DEF Positions
<1> QED BY <1>1, <1>8, <1>9

\* The next record begins in both images.
LEMMA PositionsWriteChunk ==
    ASSUME Positions, WriteChunk
    PROVE  Positions'
<1>1. loop = "cut" /\ loop' = "next" /\ UNCHANGED <<images, scan, pos, len>>
  BY DEF WriteChunk, match
<1>2. /\ from_size \in Nat /\ to_size \in Nat /\ scan \in 0 .. to_size
      /\ pos \in 0 .. from_size /\ last_scan \in 0 .. scan
  BY DEF Positions, Images, from_size, to_size
<1>3. CASE len # from_score \/ scan = to_size
  <2>1. last_scan' = scan - Cut.lenb /\ last_pos' = pos - Cut.lenb
    BY <1>3 DEF WriteChunk
  <2>2. /\ Cut.lenb \in Nat /\ Cut.lenb <= pos /\ Cut.lenb <= scan
        /\ scan = to_size => Cut.lenb = 0
    BY <1>2, CutBounds
  <2>3. /\ last_scan' \in 0 .. scan /\ last_pos' \in 0 .. from_size
        /\ scan = to_size => last_scan' = to_size
    BY <1>2, <2>1, <2>2
  <2> QED BY <1>1, <1>2, <2>3, SameImages DEF Positions
<1>4. CASE ~(len # from_score \/ scan = to_size)
  <2>1. UNCHANGED <<last_scan, last_pos>>
    BY <1>4 DEF WriteChunk, last
  <2> QED BY <1>1, <1>2, <1>4, <2>1, SameImages DEF Positions
<1> QED BY <1>3, <1>4

\* The scan goes on where the match ends.
LEMMA PositionsNextMatch ==
    ASSUME Positions, NextMatch
    PROVE  Positions'
<1>1. /\ loop = "next" /\ scan < to_size /\ scan' = scan + len
      /\ loop' = IF scan' < to_size THEN "scan" ELSE "cut"
      /\ UNCHANGED <<images, pos, len, last_scan, last_pos>>
  BY DEF NextMatch, last
<1>2. /\ from_size \in Nat /\ to_size \in Nat /\ scan \in 0 .. to_size /\ len \in Nat
      /\ last_scan \in 0 .. scan /\ scan + len <= to_size /\ Sorted
  BY <1>1 DEF Positions, Images, from_size, to_size
<1>3. scan' \in 0 .. to_size /\ last_scan \in 0 .. scan' /\ last_scan < to_size
  BY <1>1, <1>2
<1> QED BY <1>1, <1>2, <1>3, SameImages DEF Positions

\* Before the scan: the array is made, and the arguments are got.
LEMMA PositionsBefore ==
    ASSUME Positions, CreateArray \/ ParseArgs
    PROVE  Positions'
<1> DEFINE kept == UNCHANGED case /\ UNCHANGED <<scan, pos, len, last_scan, last_pos>>
<1>1. CASE \E order \in {ArrayBuffers, PatchBuffers} : GiveUp(order)
  BY <1>1, PositionsGiveUp
<1>2. CASE kept /\ UNCHANGED <<sa, loop>>
  <2>1. UNCHANGED images
    BY <1>2 DEF images
  <2> QED BY <1>2, <2>1, SameImages DEF Positions
<1>3. CASE kept /\ loop = "suffix_array" /\ sa' = SuffixArray(from) /\ loop' = "parse_args"
  <2>1. from_size' = from_size /\ to_size' = to_size /\ Images' = Images /\ Sorted'
    BY <1>3 DEF case, from_size, to_size, Images, Sorted
  <2> QED BY <1>3, <2>1 DEF case, Positions
<1>4. CASE kept /\ UNCHANGED sa /\ loop = "parse_args" /\ loop' = "next"
  <2>1. UNCHANGED images
    BY <1>4 DEF images
  <2>2. to_size \in Nat /\ scan = 0 /\ len = 0 /\ last_scan = 0 /\ Sorted
    BY <1>4 DEF Positions, Images, to_size
  <2> QED BY <1>4, <2>1, <2>2, SameImages DEF Positions
<1> QED
  BY <1>1, <1>2, <1>3, <1>4
     DEF CreateArray, ParseArgs, GetBuffer, images, match, last

\* The scan keeps to the images.
LEMMA PositionsStep ==
    ASSUME Positions, [Next]_vars
    PROVE  Positions'
<1>1. CASE CreateArray \/ ParseArgs
  BY <1>1, PositionsBefore
<1>2. CASE NextMatch
  BY <1>2, PositionsNextMatch
<1>3. CASE Search
  BY <1>3, PositionsSearch
<1>4. CASE WriteChunk
  BY <1>4, PositionsWriteChunk
<1>5. CASE AppendFails
  BY <1>5, PositionsGiveUp DEF AppendFails
<1>6. CASE Return
  <2>1. /\ loop = "next" /\ scan >= to_size /\ loop' = "returned" /\ UNCHANGED images
        /\ UNCHANGED <<scan, pos, len, last_scan, last_pos>>
    BY <1>6 DEF Return, match, last
  <2>2. scan = to_size
    BY <2>1 DEF Positions, Images, to_size
  <2> QED BY <2>1, <2>2, SameImages DEF Positions
<1>7. CASE UNCHANGED vars
  <2>1. UNCHANGED <<images, scan, pos, len, last_scan, last_pos, loop>>
    BY <1>7 DEF vars, match, last
  <2> QED BY <2>1, SameImages DEF Positions
<1>8. Idle => UNCHANGED vars
  BY DEF Idle
<1> QED BY <1>1, <1>2, <1>3, <1>4, <1>5, <1>6, <1>7, <1>8 DEF Next

\* No records make nothing.
LEMMA MakesInit ==
    ASSUME Init
    PROVE  Makes
<1> DEFINE B == Building(from, chunks)
<1>1. chunks = <<>> /\ last_scan = 0 /\ last_pos = 0
  BY DEF Init
<1>2. chunks \in Seq(Records) /\ Len(chunks) = 0
  BY <1>1, EmptySeq
<1>3. B[0] = [pos |-> 0, to |-> <<>>]
  <2>1. Len(chunks) \in Nat
    BY <1>2
  <2> QED BY <2>1, BuildingSteps
<1>4. SubSeq(to, 1, 0) = <<>>
  BY SubSeqEmpty
<1> HIDE DEF B
<1>5. \A k \in 0 .. Len(chunks) - 1 : Len(B[k].to) < to_size
  BY <1>2
<1>6. B[Len(chunks)] = [pos |-> last_pos, to |-> SubSeq(to, 1, last_scan)]
  BY <1>1, <1>2, <1>3, <1>4
<1> QED BY <1>2, <1>5, <1>6 DEF Makes, B

\* A record makes the new image from where the last one ended to where the next one begins.
LEMMA MakesWriteChunk ==
    ASSUME Positions, Makes, WriteChunk, len # from_score \/ scan = to_size
    PROVE  Makes'
<1> DEFINE n == Len(chunks)
           r == Chunk(Cut)
           B == Building(from, chunks)
           C == Building(from, Append(chunks, r))
<1>1. /\ chunks' = Append(chunks, r) /\ UNCHANGED images
      /\ last_scan' = scan - Cut.lenb /\ last_pos' = pos - Cut.lenb /\ loop = "cut"
  BY DEF WriteChunk
<1>2. /\ chunks \in Seq(Records)
      /\ B[n] = [pos |-> last_pos, to |-> SubSeq(to, 1, last_scan)]
      /\ \A k \in 0 .. n - 1 : Len(B[k].to) < to_size
  BY DEF Makes
<1>3. /\ r \in Records
      /\ AfterRecord([pos |-> last_pos, to |-> SubSeq(to, 1, last_scan)], r)
           = [pos |-> last_pos', to |-> SubSeq(to, 1, last_scan')]
  BY <1>1, ChunkMakes
<1> HIDE DEF r
<1>4. (\A k \in 0 .. n : C[k] = B[k]) /\ C[n + 1] = AfterRecord(B[n], r)
  BY <1>2, <1>3, BuildingAppend
<1>5. n \in Nat /\ Append(chunks, r) \in Seq(Records) /\ Len(Append(chunks, r)) = n + 1
  BY <1>2, <1>3, AppendProperties
<1>6. Len(B[n].to) < to_size
  <2>1. last_scan \in Nat /\ last_scan < to_size /\ to \in Seq(Byte) /\ to_size = Len(to)
    BY <1>1 DEF Positions, Images, to_size
  <2> DEFINE built == SubSeq(to, 1, last_scan)
  <2>2. Len(built) = last_scan
    <3>1. \A i \in 0 + 1 .. 0 + last_scan : to[i] \in Byte
      BY <2>1, ElementOfSeq
    <3>2. Len(SubSeq(to, 0 + 1, 0 + last_scan)) = last_scan
      BY <2>1, <3>1, SubSeqFrom
    <3>3. 0 + 1 = 1 /\ 0 + last_scan = last_scan
      BY <2>1
    <3> QED BY <3>2, <3>3
  <2>3. B[n].to = built
    <3> HIDE DEF B, n, built
    <3>1. B[n] = [pos |-> last_pos, to |-> built]
      BY <1>2 DEF built
    <3> QED BY <3>1
  <2> QED BY <2>1, <2>2, <2>3
<1>7. from' = from /\ to' = to /\ to_size' = to_size
  BY <1>1 DEF images, case, to_size
<1> HIDE DEF n, B
<1>8. ASSUME NEW k \in 0 .. n + 1 - 1 PROVE Len(C[k].to) < to_size
  <2>1. k \in 0 .. n /\ (k = n \/ k \in 0 .. n - 1)
    BY <1>5
  <2> HIDE DEF C
  <2>2. C[k] = B[k]
    BY <1>4, <2>1
  <2> QED BY <1>2, <1>6, <2>1, <2>2
<1>9. C[n + 1] = [pos |-> last_pos', to |-> SubSeq(to, 1, last_scan')]
  BY <1>2, <1>3, <1>4
<1>10. C = Building(from', chunks') /\ n + 1 = Len(chunks')
  BY <1>1, <1>5, <1>7
<1> HIDE DEF C
<1> QED BY <1>1, <1>5, <1>7, <1>8, <1>9, <1>10 DEF Makes

\* No other step changes the records.
LEMMA MakesStep ==
    ASSUME Positions, Makes, [Next]_vars
    PROVE  Makes'
<1>1. CASE WriteChunk /\ (len # from_score \/ scan = to_size)
  BY <1>1, MakesWriteChunk
<1>2. CASE UNCHANGED <<case, chunks, last>>
  BY <1>2 DEF case, last, Makes, to_size
<1>3. ASSUME NEW order, GiveUp(order) PROVE UNCHANGED <<case, chunks, last>>
  BY <1>3 DEF GiveUp, images
<1>4. CASE CreateArray \/ ParseArgs
  <2>1. UNCHANGED <<case, chunks, last>>
    BY <1>3, <1>4 DEF CreateArray, ParseArgs, GetBuffer, images
  <2> QED BY <1>2, <2>1
<1>5. CASE NextMatch \/ Search \/ AppendFails \/ Return \/ UNCHANGED vars
  <2>1. UNCHANGED <<case, chunks, last>>
    BY <1>3, <1>5 DEF NextMatch, Search, AppendFails, Return, vars, images
  <2> QED BY <1>2, <2>1
<1>6. CASE WriteChunk /\ ~(len # from_score \/ scan = to_size)
  <2>1. UNCHANGED <<case, chunks, last>>
    BY <1>6 DEF WriteChunk, images
  <2> QED BY <1>2, <2>1
<1> QED BY <1>1, <1>4, <1>5, <1>6 DEF Next, Idle

-----------------------------------------------------------------------------
(***************************************************************************)
(* What the creator promises of its records.                               *)
(***************************************************************************)

\* The scan is in the images, and the records make what is scanned.
LEMMA RecordsInvariant == Spec => [](Positions /\ Makes)
<1>1. Init => Positions /\ Makes
  BY PositionsInit, MakesInit
<1>2. Positions /\ Makes /\ [Next]_vars => Positions' /\ Makes'
  BY PositionsStep, MakesStep
<1> QED BY <1>1, <1>2, PTL DEF Spec

\* ChunksMakeImage holds for all images, whatever the searches find and however often
\* the scan was cut: the sizes, bytes and adjustments of the records (bsdiff.c,
\* create_patch_loop) fit together.
THEOREM ChunksMakeImageAlways == Spec => []ChunksMakeImage
<1>1. Makes => ChunksMakeImage
  BY DEF Makes, ChunksMakeImage
<1> QED BY <1>1, RecordsInvariant, PTL

\* ReturnsWhole holds for all images: the records that are returned make the new image,
\* and none but the last comes to its end.
THEOREM ReturnsWholeAlways == Spec => []ReturnsWhole
<1>1. ASSUME Positions, Makes, loop = "returned"
      PROVE  /\ ImageOf(from, chunks) = to
             /\ \A k \in 0 .. Len(chunks) - 1 : Len(Building(from, chunks)[k].to) < to_size
  <2>1. last_scan = to_size /\ to \in Seq(Byte)
    BY <1>1 DEF Positions, Images
  <2>2. SubSeq(to, 1, to_size) = to
    BY <2>1, SubSeqFull DEF to_size
  <2> DEFINE b == Building(from, chunks)[Len(chunks)]
  <2>3. b = [pos |-> last_pos, to |-> SubSeq(to, 1, last_scan)]
    BY <1>1 DEF Makes
  <2>4. ImageOf(from, chunks) = b.to
    BY DEF ImageOf
  <2> HIDE DEF b
  <2>5. ImageOf(from, chunks) = to
    BY <2>1, <2>2, <2>3, <2>4
  <2> QED BY <1>1, <2>5 DEF Makes
<1>2. Positions /\ Makes => ReturnsWhole
  BY <1>1 DEF ReturnsWhole
<1> QED BY <1>2, RecordsInvariant, PTL

-----------------------------------------------------------------------------
(***************************************************************************)
(* The buffers.                                                            *)
(***************************************************************************)

\* The first n of the buffers.
Got(order, n) == {order[k] : k \in 1 .. n}

\* The orders in which buffers are got.
Orders == {ArrayBuffers, PatchBuffers}

\* The buffers that are held are the first ones in the order in which they are got.
Held ==
    /\ loop = "suffix_array" => /\ \E n \in 0 .. 2 : views = Got(ArrayBuffers, n)
                                /\ list = "none"
    /\ loop = "parse_args" => /\ \E n \in 0 .. 4 : views = Got(PatchBuffers, n)
                              /\ list = "none"
    /\ loop \in {"next", "scan", "cut"} => views = Got(PatchBuffers, 4) /\ list = "held"
    /\ BuffersReleased

\* The first n of different buffers are n.
LEMMA GotSize ==
    ASSUME NEW order, NEW N \in Nat,
           \A j, k \in 1 .. N : order[j] = order[k] => j = k
    PROVE  \A n \in 0 .. N : Cardinality(Got(order, n)) = n
<1> DEFINE S == {n \in 0 .. N : IsFiniteSet(Got(order, n)) /\ Cardinality(Got(order, n)) = n}
<1>1. 0 \in S
  <2>1. Got(order, 0) = {}
    BY DEF Got
  <2> QED BY <2>1, FS_EmptySet
<1>2. ASSUME NEW n \in 0 .. N - 1, n \in S PROVE n + 1 \in S
  <2>1. Got(order, n + 1) = Got(order, n) \cup {order[n + 1]}
    BY DEF Got
  <2>2. order[n + 1] \notin Got(order, n)
    <3>1. n + 1 \in 1 .. N /\ \A k \in 1 .. n : k \in 1 .. N /\ k # n + 1
      OBVIOUS
    <3> QED BY <3>1 DEF Got
  <2>3. /\ IsFiniteSet(Got(order, n) \cup {order[n + 1]})
        /\ Cardinality(Got(order, n) \cup {order[n + 1]}) = Cardinality(Got(order, n)) + 1
    BY <1>2, <2>2, FS_AddElement
  <2>4. Cardinality(Got(order, n)) = n /\ n + 1 \in 0 .. N
    BY <1>2
  <2> QED BY <2>1, <2>3, <2>4
<1> HIDE DEF S
<1>3. \A n \in 0 .. N : n \in S
  BY <1>1, <1>2, InductionUpTo
<1> QED BY <1>3 DEF S

\* As many buffers are held as were got, and all there are in the end.
LEMMA GotFacts ==
    ASSUME NEW order \in Orders
    PROVE  /\ Len(order) \in Nat /\ Range(order) = Got(order, Len(order))
           /\ \A n \in 0 .. Len(order) : Cardinality(Got(order, n)) = n
<1>1. CASE order = ArrayBuffers
  <2>1. Len(order) = 2 /\ DOMAIN order = 1 .. 2
    BY <1>1 DEF ArrayBuffers
  <2>2. \A j, k \in 1 .. 2 : order[j] = order[k] => j = k
    BY <1>1 DEF ArrayBuffers
  <2>3. \A m \in 0 .. 2 : Cardinality(Got(order, m)) = m
    BY <2>2, GotSize
  <2>4. Range(order) = Got(order, 2)
    BY <2>1 DEF Range, Got
  <2> QED BY <2>1, <2>3, <2>4
<1>2. CASE order = PatchBuffers
  <2>1. Len(order) = 4 /\ DOMAIN order = 1 .. 4
    BY <1>2 DEF PatchBuffers
  <2>2. \A j, k \in 1 .. 4 : order[j] = order[k] => j = k
    BY <1>2 DEF PatchBuffers
  <2>3. \A m \in 0 .. 4 : Cardinality(Got(order, m)) = m
    BY <2>2, GotSize
  <2>4. Range(order) = Got(order, 4)
    BY <2>1 DEF Range, Got
  <2> QED BY <2>1, <2>3, <2>4
<1> QED BY <1>1, <1>2 DEF Orders

\* A failure releases what is held.
LEMMA HeldGiveUp ==
    ASSUME NEW order \in Orders, NEW n \in 0 .. Len(order), views = Got(order, n),
           list \in {"none", "held"}, GiveUp(order)
    PROVE  Held'
<1>1. /\ loop' = "failed" /\ views' = Released(order, Cardinality(views))
      /\ list' = IF list = "held" THEN "freed" ELSE list
  BY DEF GiveUp
<1>2. Cardinality(views) = n
  BY GotFacts
<1>3. views' = {}
  BY <1>1, <1>2 DEF Released, Got
<1> QED BY <1>1, <1>3 DEF Held, BuffersReleased

\* One more buffer is the next one of the order.
LEMMA HeldGetBuffer ==
    ASSUME NEW order \in Orders, NEW n \in 0 .. Len(order), views = Got(order, n),
           GetBuffer(order), ~GiveUp(order)
    PROVE  /\ \E m \in 0 .. Len(order) : views' = Got(order, m)
           /\ UNCHANGED <<loop, list>>
<1>1. /\ n < Len(order) /\ views' = views \cup {order[n + 1]}
      /\ UNCHANGED <<loop, list>>
  BY GotFacts DEF GetBuffer
<1>2. n + 1 \in 0 .. Len(order)
  BY <1>1, GotFacts
<1>3. Got(order, n) \cup {order[n + 1]} = Got(order, n + 1)
  BY <1>2 DEF Got
<1> QED BY <1>1, <1>2, <1>3

\* Every step keeps to the order.
LEMMA HeldStep ==
    ASSUME Held, [Next]_vars
    PROVE  Held'
<1>0. /\ ArrayBuffers \in Orders /\ Len(ArrayBuffers) = 2
      /\ PatchBuffers \in Orders /\ Len(PatchBuffers) = 4
  BY DEF Orders, ArrayBuffers, PatchBuffers
<1>1. CASE CreateArray
  <2>1. /\ loop = "suffix_array" /\ list = "none"
        /\ \E n \in 0 .. Len(ArrayBuffers) : views = Got(ArrayBuffers, n)
    BY <1>0, <1>1 DEF CreateArray, Held
  <2>2. CASE GiveUp(ArrayBuffers)
    BY <1>0, <2>1, <2>2, HeldGiveUp
  <2>3. CASE GetBuffer(ArrayBuffers) /\ ~GiveUp(ArrayBuffers)
    <3>1. /\ UNCHANGED <<loop, list>>
          /\ \E m \in 0 .. 2 : views' = Got(ArrayBuffers, m)
      BY <1>0, <2>1, <2>3, HeldGetBuffer
    <3> QED BY <2>1, <3>1 DEF Held, BuffersReleased
  <2>4. CASE views' = {} /\ loop' = "parse_args" /\ UNCHANGED list
    <3>1. views' = Got(PatchBuffers, 0) /\ 0 \in 0 .. 4
      BY <2>4 DEF Got
    <3> QED BY <2>1, <2>4, <3>1 DEF Held, BuffersReleased
  <2> QED BY <1>1, <2>2, <2>3, <2>4 DEF CreateArray
<1>2. CASE ParseArgs
  <2>1. /\ loop = "parse_args" /\ list = "none"
        /\ \E n \in 0 .. Len(PatchBuffers) : views = Got(PatchBuffers, n)
    BY <1>0, <1>2 DEF ParseArgs, Held
  <2>2. CASE GiveUp(PatchBuffers)
    BY <1>0, <2>1, <2>2, HeldGiveUp
  <2>3. CASE GetBuffer(PatchBuffers) /\ ~GiveUp(PatchBuffers)
    <3>1. /\ UNCHANGED <<loop, list>>
          /\ \E m \in 0 .. 4 : views' = Got(PatchBuffers, m)
      BY <1>0, <2>1, <2>3, HeldGetBuffer
    <3> QED BY <2>1, <3>1 DEF Held, BuffersReleased
  <2>4. CASE views = Range(PatchBuffers) /\ list' = "held" /\ loop' = "next" /\ UNCHANGED views
    <3>1. views' = Got(PatchBuffers, 4)
      BY <1>0, <2>4, GotFacts
    <3> QED BY <2>4, <3>1 DEF Held, BuffersReleased
  <2> QED BY <1>2, <2>2, <2>3, <2>4 DEF ParseArgs
<1>3. CASE AppendFails
  <2>1. views = Got(PatchBuffers, 4) /\ list = "held" /\ GiveUp(PatchBuffers)
    BY <1>3 DEF AppendFails, Held
  <2>2. 4 \in 0 .. Len(PatchBuffers)
    BY <1>0
  <2> QED BY <1>0, <2>1, <2>2, HeldGiveUp
<1>4. CASE NextMatch \/ Search \/ WriteChunk
  <2>1. /\ loop \in {"next", "scan", "cut"} /\ loop' \in {"next", "scan", "cut"}
        /\ UNCHANGED <<views, list>>
    BY <1>4 DEF NextMatch, Search, WriteChunk, python
  <2> QED BY <2>1 DEF Held, BuffersReleased
<1>5. CASE Return
  BY <1>5 DEF Return, Held, BuffersReleased
<1>6. CASE UNCHANGED vars
  BY <1>6 DEF vars, python, Held, BuffersReleased
<1>7. Idle => UNCHANGED vars
  BY DEF Idle
<1> QED BY <1>1, <1>2, <1>3, <1>4, <1>5, <1>6, <1>7 DEF Next

\* BuffersReleased holds wherever a call to Python fails: the labels of the clean-up
\* (bsdiff.c, suffix_array.c) release what was got, and nothing is released that was not.
THEOREM BuffersReleasedAlways == Spec => []BuffersReleased
<1>1. Init => Held
  <2>1. Got(ArrayBuffers, 0) = {} /\ 0 \in 0 .. 2
    BY DEF Got
  <2> QED BY <2>1 DEF Init, Held, BuffersReleased
<1>2. Held /\ [Next]_vars => Held'
  BY HeldStep
<1>3. Held => BuffersReleased
  BY DEF Held
<1> QED BY <1>1, <1>2, <1>3, PTL DEF Spec

-----------------------------------------------------------------------------
(***************************************************************************)
(* The score.                                                              *)
(***************************************************************************)

\* The bytes of the new image from a up to b that the last offset gives.
Agreeing(a, b) == Cardinality({k \in a .. b - 1 : Agree(k + last_offset, k)})

\* The same as a signed count: backwards, it is negative.
Signed(a, b) == Agreeing(a, b) - Agreeing(b, a)

\* A count is a number, and that of no bytes is 0.
LEMMA AgreeingType ==
    ASSUME NEW a \in Int, NEW b \in Int
    PROVE  /\ IsFiniteSet({k \in a .. b - 1 : Agree(k + last_offset, k)})
           /\ Agreeing(a, b) \in Nat
           /\ b <= a => Agreeing(a, b) = 0
<1> DEFINE S == {k \in a .. b - 1 : Agree(k + last_offset, k)}
<1>1. IsFiniteSet(S)
  <2>1. IsFiniteSet(a .. b - 1)
    BY FS_Interval
  <2> QED BY <2>1, FS_Subset
<1>2. b <= a => S = {}
  OBVIOUS
<1>3. Agreeing(a, b) = Cardinality(S)
  BY DEF Agreeing
<1> HIDE DEF S
<1>4. Cardinality(S) \in Nat /\ (S = {} => Cardinality(S) = 0)
  BY <1>1, FS_CardinalityType, FS_EmptySet
<1> QED BY <1>1, <1>2, <1>3, <1>4 DEF S

\* Counts of adjacent parts add up.
LEMMA AgreeingAdds ==
    ASSUME NEW a \in Int, NEW b \in Int, NEW c \in Int, a <= b, b <= c
    PROVE  Agreeing(a, c) = Agreeing(a, b) + Agreeing(b, c)
<1> DEFINE S == {k \in a .. b - 1 : Agree(k + last_offset, k)}
           T == {k \in b .. c - 1 : Agree(k + last_offset, k)}
<1>1. IsFiniteSet(S) /\ IsFiniteSet(T)
  BY AgreeingType
<1>2. /\ {k \in a .. c - 1 : Agree(k + last_offset, k)} = S \cup T
      /\ S \cap T = {}
  OBVIOUS
<1>3. /\ Agreeing(a, c) = Cardinality(S \cup T)
      /\ Agreeing(a, b) = Cardinality(S) /\ Agreeing(b, c) = Cardinality(T)
  BY <1>2 DEF Agreeing
<1> HIDE DEF S, T
<1>4. Cardinality(S \cup T) = Cardinality(S) + Cardinality(T) - Cardinality(S \cap T)
  BY <1>1, FS_Union
<1>5. Cardinality(S) \in Nat /\ Cardinality(T) \in Nat /\ Cardinality(S \cap T) = 0
  BY <1>1, <1>2, FS_CardinalityType, FS_EmptySet
<1> QED BY <1>3, <1>4, <1>5

\* Signed counts add up, whichever the order of the places.
LEMMA SignedAdds ==
    ASSUME NEW a \in Int, NEW b \in Int, NEW c \in Int
    PROVE  Signed(a, c) = Signed(a, b) + Signed(b, c) /\ Signed(a, c) \in Int
<1>1. /\ Agreeing(a, b) \in Nat /\ Agreeing(b, c) \in Nat /\ Agreeing(a, c) \in Nat
      /\ Agreeing(b, a) \in Nat /\ Agreeing(c, b) \in Nat /\ Agreeing(c, a) \in Nat
  BY AgreeingType
<1>2. /\ b <= a => Agreeing(a, b) = 0
      /\ c <= b => Agreeing(b, c) = 0
      /\ c <= a => Agreeing(a, c) = 0
      /\ a <= b => Agreeing(b, a) = 0
      /\ b <= c => Agreeing(c, b) = 0
      /\ a <= c => Agreeing(c, a) = 0
  BY AgreeingType
<1>3. /\ a <= b /\ b <= c => Agreeing(a, c) = Agreeing(a, b) + Agreeing(b, c)
      /\ a <= c /\ c <= b => Agreeing(a, b) = Agreeing(a, c) + Agreeing(c, b)
      /\ b <= a /\ a <= c => Agreeing(b, c) = Agreeing(b, a) + Agreeing(a, c)
      /\ b <= c /\ c <= a => Agreeing(b, a) = Agreeing(b, c) + Agreeing(c, a)
      /\ c <= a /\ a <= b => Agreeing(c, b) = Agreeing(c, a) + Agreeing(a, b)
      /\ c <= b /\ b <= a => Agreeing(c, a) = Agreeing(c, b) + Agreeing(b, a)
  BY AgreeingAdds
<1> QED BY <1>1, <1>2, <1>3 DEF Signed

\* One byte counts if the last offset gives it.
LEMMA SignedOne ==
    ASSUME NEW a \in Int
    PROVE  Signed(a, a + 1) = IF Agree(a + last_offset, a) THEN 1 ELSE 0
<1> DEFINE S == {k \in a .. a + 1 - 1 : Agree(k + last_offset, k)}
<1>1. S = IF Agree(a + last_offset, a) THEN {a} ELSE {}
  <2>1. a .. a + 1 - 1 = {a}
    OBVIOUS
  <2> QED BY <2>1
<1>2. Agreeing(a, a + 1) = Cardinality(S)
  BY DEF Agreeing
<1> HIDE DEF S
<1>3. Cardinality(S) = IF Agree(a + last_offset, a) THEN 1 ELSE 0
  BY <1>1, FS_EmptySet, FS_Singleton
<1>4. Agreeing(a + 1, a) = 0
  <2>1. a + 1 \in Int /\ a <= a + 1
    OBVIOUS
  <2> QED BY <2>1, AgreeingType
<1> QED BY <1>2, <1>3, <1>4 DEF Signed

\* In the scan, from_score is the signed count from scan to scsc; when a match is taken
\* it covers the match.
Score ==
    /\ scsc \in Nat
    /\ loop = "scan" => from_score = Signed(scan, scsc)
    /\ loop = "cut" /\ scan < to_size =>
          /\ scan + len <= scsc
          /\ from_score = Agreeing(scan, scsc)
          /\ from_score = len \/ len > from_score + slack

\* The counts in the next state, of the same images and the same last record.
LEMMA CountsAfter ==
    ASSUME UNCHANGED <<images, last>>, NEW a, NEW b, scan' = a, scsc' = b
    PROVE  Signed(scan, scsc)' = Signed(a, b) /\ Agreeing(scan, scsc)' = Agreeing(a, b)
<1>1. UNCHANGED <<from, to, last_offset>> /\ from_size' = from_size
  BY DEF images, case, last, from_size
<1>2. Agreeing(scan, scsc)' = Agreeing(a, b)
  BY <1>1 DEF Agreeing, Agree, FromAt, ToAt
<1>3. Agreeing(scsc, scan)' = Agreeing(b, a)
  BY <1>1 DEF Agreeing, Agree, FromAt, ToAt
<1> QED BY <1>2, <1>3 DEF Signed

\* After a match, the count begins anew.
LEMMA ScoreNextMatch ==
    ASSUME Positions, Score, NextMatch
    PROVE  Score'
<1> DEFINE end == scan + len
<1>1. /\ scan' = end /\ scsc' = end /\ from_score' = 0
      /\ UNCHANGED <<images, last>> /\ loop' = IF scan' < to_size THEN "scan" ELSE "cut"
  BY DEF NextMatch
<1>2. end \in Nat /\ to_size' = to_size
  BY <1>1, SameImages DEF Positions
<1> HIDE DEF end
<1>3. Signed(end, end) = 0
  <2>1. end \in Int
    BY <1>2
  <2>2. Agreeing(end, end) \in Nat
    BY <2>1, AgreeingType
  <2> QED BY <2>2 DEF Signed
<1>4. Signed(scan, scsc)' = 0
  BY <1>1, <1>3, CountsAfter
<1> QED BY <1>1, <1>2, <1>4 DEF Score

\* A search counts what its match adds, and takes off the byte that is passed over.
LEMMA ScoreSearch ==
    ASSUME Positions, Score, Search
    PROVE  Score'
<1> DEFINE found == search(scan)
           end == scan + found.len
           score == from_score + Scored(end)
           far == Max({scsc, end})
<1>1. /\ loop = "scan" /\ len' = found.len /\ scsc' = far /\ UNCHANGED <<images, last>>
      /\ \/ /\ Taken(found, score) /\ from_score' = score /\ loop' = "cut" /\ scan' = scan
         \/ /\ from_score' = Passed(score) /\ scan' = scan + 1
            /\ loop' = IF scan' < to_size THEN "scan" ELSE "cut"
  BY DEF Search
<1>2. Positions' /\ to_size' = to_size /\ slack' = slack /\ Images
  BY <1>1, PositionsSearch, SameImages DEF Positions
<1>3. /\ scan \in Nat /\ scan < to_size /\ scsc \in Nat /\ to_size \in Nat
      /\ from_score = Signed(scan, scsc)
  BY <1>1 DEF Positions, Score, Images, to_size
<1>4. found.len \in Nat
  BY <1>1, <1>2 DEF Positions
<1>5. end \in Nat /\ Scored(end) = Agreeing(scsc, end)
  BY <1>3, <1>4 DEF Scored, Agreeing
<1> HIDE DEF found
<1>6. far \in Nat /\ far = IF scsc >= end THEN scsc ELSE end
  BY <1>3, <1>5, MaxOfTwo
<1> HIDE DEF far, end
<1>0. scan \in Int /\ scan + 1 \in Int /\ scsc \in Int /\ end \in Int /\ far \in Int
  BY <1>3, <1>5, <1>6
<1>7. Agreeing(scsc, end) = Signed(scsc, far)
  <2>1. CASE scsc >= end
    <3>1. far = scsc /\ end <= scsc
      BY <1>0, <1>6, <2>1
    <3>2. Agreeing(scsc, end) = 0 /\ Agreeing(scsc, scsc) \in Nat
      BY <1>0, <3>1, AgreeingType
    <3> QED BY <3>1, <3>2 DEF Signed
  <2>2. CASE ~(scsc >= end)
    <3>1. far = end /\ scsc <= end
      BY <1>0, <1>6, <2>2
    <3>2. Agreeing(end, scsc) = 0 /\ Agreeing(scsc, end) \in Nat
      BY <1>0, <3>1, AgreeingType
    <3> QED BY <3>1, <3>2 DEF Signed
  <2> QED BY <2>1, <2>2
<1>8. score = Signed(scan, far) /\ score \in Int
  <2>1. Signed(scan, far) = Signed(scan, scsc) + Signed(scsc, far) /\ Signed(scan, far) \in Int
    BY <1>0, SignedAdds
  <2> QED BY <1>3, <1>5, <1>7, <2>1
<1>9. CASE /\ Taken(found, score) /\ from_score' = score /\ loop' = "cut" /\ scan' = scan
  <2>1. scan + len' <= far
    BY <1>1, <1>3, <1>4, <1>6 DEF end
  <2>2. score = Agreeing(scan, far)
    <3>1. scan <= far
      BY <1>3, <1>4, <1>6 DEF end
    <3>2. Agreeing(far, scan) = 0 /\ Agreeing(scan, far) \in Nat
      BY <1>0, <3>1, AgreeingType
    <3> HIDE DEF score
    <3> QED BY <1>8, <3>2 DEF Signed
  <2>3. Agreeing(scan, scsc)' = Agreeing(scan, far)
    BY <1>1, <1>9, CountsAfter
  <2>4. len' = score \/ len' > score + slack
    BY <1>1, <1>9 DEF Taken
  <2> HIDE DEF score
  <2> QED BY <1>1, <1>2, <1>6, <1>9, <2>1, <2>2, <2>3, <2>4 DEF Score
<1>10. CASE /\ from_score' = Passed(score) /\ scan' = scan + 1
            /\ loop' = IF scan' < to_size THEN "scan" ELSE "cut"
  <2>1. /\ Signed(scan, far) = Signed(scan, scan + 1) + Signed(scan + 1, far)
        /\ Signed(scan + 1, far) \in Int
    BY <1>0, SignedAdds
  <2>2. Signed(scan, scan + 1) = IF Agree(scan + last_offset, scan) THEN 1 ELSE 0
    BY <1>3, SignedOne
  <2>3. Passed(score) = IF Agree(scan + last_offset, scan) THEN score - 1 ELSE score
    BY DEF Passed
  <2> HIDE DEF score
  <2>4. from_score' = Signed(scan + 1, far)
    BY <1>8, <1>10, <2>1, <2>2, <2>3
  <2>5. Signed(scan, scsc)' = Signed(scan + 1, far)
    BY <1>1, <1>10, CountsAfter
  <2>6. loop' = "cut" => ~(scan' < to_size)
    BY <1>10
  <2> QED BY <1>1, <1>2, <1>6, <1>10, <2>4, <2>5, <2>6 DEF Score
<1> QED BY <1>1, <1>9, <1>10

\* No other step touches the score while it is in use.
LEMMA ScoreStep ==
    ASSUME Positions, Score, [Next]_vars
    PROVE  Score'
<1>1. CASE NextMatch
  BY <1>1, ScoreNextMatch
<1>2. CASE Search
  BY <1>2, ScoreSearch
<1>3. ASSUME NEW order, GiveUp(order) PROVE UNCHANGED scsc /\ loop' = "failed"
  BY <1>3 DEF GiveUp, match
<1>4. CASE CreateArray \/ ParseArgs
  <2>1. UNCHANGED scsc /\ loop' \notin {"scan", "cut"}
    BY <1>3, <1>4 DEF CreateArray, ParseArgs, GetBuffer, match
  <2> QED BY <2>1 DEF Score
<1>5. CASE WriteChunk \/ AppendFails \/ Return
  <2>1. UNCHANGED scsc /\ loop' \notin {"scan", "cut"}
    BY <1>3, <1>5 DEF WriteChunk, AppendFails, Return, match
  <2> QED BY <2>1 DEF Score
<1>6. CASE UNCHANGED vars
  <2>1. UNCHANGED <<images, last>> /\ UNCHANGED <<scan, scsc, len, from_score, loop>>
    BY <1>6 DEF vars, match
  <2>2. Signed(scan, scsc)' = Signed(scan, scsc) /\ Agreeing(scan, scsc)' = Agreeing(scan, scsc)
    BY <2>1, CountsAfter
  <2> QED BY <2>1, <2>2, SameImages DEF Score
<1>7. Idle => UNCHANGED vars
  BY DEF Idle
<1> QED BY <1>1, <1>2, <1>4, <1>5, <1>6, <1>7 DEF Next

\* The score is exact in every state.
LEMMA ScoreInvariant == Spec => [](Positions /\ Makes /\ Score)
<1>1. Init => Score
  BY DEF Init, Score
<1>2. Positions /\ Score /\ [Next]_vars => Score'
  BY ScoreStep
<1> QED BY <1>1, <1>2, RecordsInvariant, PTL DEF Spec

\* ScoreIsExact holds for all images: the running score (bsdiff.c, create_patch_loop) is
\* what a count from anew would give, though matches overlap and are passed.
THEOREM ScoreIsExactAlways == Spec => []ScoreIsExact
<1>1. Score => ScoreIsExact
  BY DEF Score, ScoreIsExact, Signed, Agreeing
<1> QED BY <1>1, ScoreInvariant, PTL

\* CutsForGain holds for all images: before the end of the image, a record is written only
\* for a match that gives more than slack bytes that the last offset does not.
THEOREM CutsForGainAlways == Spec => CutsForGain
<1> DEFINE agreed == Cardinality({k \in scan .. scan + len - 1 : Agree(k + last_offset, k)})
<1>1. ASSUME Positions, Score, [Next]_vars, chunks' # chunks, scan < to_size
      PROVE  len > slack + agreed
  <2>1. WriteChunk /\ (len # from_score \/ scan = to_size)
    BY <1>1 DEF Next, CreateArray, ParseArgs, GetBuffer, GiveUp, NextMatch, Search,
                WriteChunk, AppendFails, Return, Idle, vars
  <2>2. /\ loop = "cut" /\ len # from_score /\ scan \in Nat /\ len \in Nat
        /\ scsc \in Nat /\ scan + len <= scsc /\ from_score = Agreeing(scan, scsc)
        /\ len > from_score + slack /\ slack \in Nat
    <3>1. scan # to_size /\ loop = "cut"
      BY <1>1, <2>1 DEF WriteChunk, Positions, Images, to_size
    <3> QED BY <1>1, <2>1, <3>1 DEF Positions, Score
  <2> DEFINE end == scan + len
  <2>3. agreed = Agreeing(scan, end)
    <3>1. scan + len - 1 = end - 1
      BY <2>2
    <3> QED BY <3>1 DEF Agreeing
  <2>4. scan \in Int /\ end \in Int /\ scsc \in Int /\ scan <= end /\ end <= scsc
    BY <2>2
  <2> HIDE DEF end
  <2>5. /\ Agreeing(scan, scsc) = Agreeing(scan, end) + Agreeing(end, scsc)
        /\ Agreeing(scan, end) \in Nat /\ Agreeing(end, scsc) \in Nat
    BY <2>4, AgreeingAdds, AgreeingType
  <2> HIDE DEF agreed
  <2> QED BY <2>2, <2>3, <2>4, <2>5
<1>2. Positions /\ Score /\ [Next]_vars
        => [chunks' # chunks /\ scan < to_size => len > slack + agreed]_vars
  BY <1>1
<1> QED BY <1>2, ScoreInvariant, PTL DEF Spec, CutsForGain

\* Max is the greatest number of a set.
LEMMA MaxIsGreatest ==
    ASSUME NEW S \in SUBSET Int, NEW m \in S, \A y \in S : y <= m
    PROVE  m = Max(S)
<1> DEFINE c == CHOOSE x \in S : \A y \in S : x >= y
<1>1. \A y \in S : m >= y
  OBVIOUS
<1>2. c \in S /\ \A y \in S : c >= y
  BY <1>1
<1>3. c = Max(S)
  BY DEF Max
<1> HIDE DEF c
<1>4. c \in Int /\ m \in Int /\ c >= m /\ m >= c
  BY <1>1, <1>2
<1> QED BY <1>3, <1>4

\* SearchFinds holds for all images: the binary search (bsdiff.c, search) comes to a
\* longest match, though memcmp over the shorter length does not order the suffixes, or to
\* one that the end of the old image cuts off.
THEOREM SearchFindsAlways == Spec => SearchFinds
<1> DEFINE lengths == {matchlen(f, scan) : f \in 0 .. from_size}
<1>1. ASSUME Positions, [Next]_vars, ~UNCHANGED vars, loop = "scan"
      PROVE  len' = Max(lengths) \/ (len' > 0 /\ pos' + len' = from_size)
  <2> DEFINE found == search(scan)
  <2>1. Search
    BY <1>1 DEF Next, CreateArray, ParseArgs, NextMatch, WriteChunk, AppendFails, Return, Idle
  <2>2. len' = found.len /\ pos' = found.pos
    BY <2>1 DEF Search
  <2>3. Images /\ Sorted /\ scan \in 0 .. to_size
    BY <1>1 DEF Positions
  <2>4. found \in Matches(scan) /\ Longest(scan, found)
    BY <2>3, SearchResult
  <2> HIDE DEF found
  <2>5. CASE found.len > 0 /\ found.pos + found.len = from_size
    BY <2>2, <2>5
  <2>6. CASE \A f \in 0 .. from_size : matchlen(f, scan) <= found.len
    <3>1. found.len \in lengths /\ \A y \in lengths : y <= found.len
      BY <2>4, <2>6 DEF Matches
    <3>2. lengths \in SUBSET Int
      BY <2>3, MatchlenFacts DEF AgreesIn
    <3> HIDE DEF lengths
    <3>3. found.len = Max(lengths)
      BY <3>1, <3>2, MaxIsGreatest
    <3> QED BY <2>2, <3>3
  <2> QED BY <2>4, <2>5, <2>6 DEF Longest
<1>2. Positions /\ [Next]_vars
        => [loop = "scan" => \/ len' = Max(lengths)
                             \/ len' > 0 /\ pos' + len' = from_size]_vars
  BY <1>1
<1> QED BY <1>2, ScoreInvariant, PTL DEF Spec, SearchFinds
=============================================================================
