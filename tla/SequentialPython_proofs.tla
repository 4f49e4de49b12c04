----------------------- MODULE SequentialPython_proofs -----------------------
(***************************************************************************)
(* The sequential applier in Python: for all images, all faults, chunks of *)
(* any size, and all sections; with the data format, for all images whose  *)
(* segments fit and whose addresses are low.                               *)
(***************************************************************************)
EXTENDS SequentialPython, Foundations, FiniteSetTheorems

-----------------------------------------------------------------------------
(***************************************************************************)
(* The data format.                                                        *)
(***************************************************************************)
\* How many elements of S have a smaller key.
Smaller(S, key, x) == {y \in S : key[y] < key[x]}

\* Each element has its place in the order, and each place its element.
LEMMA InOrderLists ==
    ASSUME NEW S, IsFiniteSet(S), NEW key \in [S -> Int],
           \A x, y \in S : key[x] = key[y] => x = y
    PROVE  /\ Cardinality(S) \in Nat
           /\ InOrder(S, key) \in [1 .. Cardinality(S) -> S]
           /\ \A x \in S : \E i \in 1 .. Cardinality(S) : InOrder(S, key)[i] = x
<1> DEFINE n == Cardinality(S)
           places == 0 .. n - 1
           rank == [x \in S |-> Cardinality(Smaller(S, key, x))]
           order == [i \in 1 .. n |-> CHOOSE x \in S : Cardinality(Smaller(S, key, x)) = i - 1]
<1>0. InOrder(S, key) = order
  BY DEF InOrder, Smaller
<1>1. n \in Nat
  BY FS_CardinalityType
<1>2. IsFiniteSet(places) /\ Cardinality(places) = n
  <2>1. 0 \in Int /\ n - 1 \in Int /\ n = IF 0 > n - 1 THEN 0 ELSE (n - 1) - 0 + 1
    <3> HIDE DEF n
    <3> QED BY <1>1
  <2> QED BY Zenon, <2>1, FS_Interval
<1>3. ASSUME NEW x \in S
      PROVE  IsFiniteSet(Smaller(S, key, x)) /\ Cardinality(Smaller(S, key, x)) \in places
  <2> DEFINE B == Smaller(S, key, x)
             R == S \ {x}
  <2>1. IsFiniteSet(R) /\ Cardinality(R) = n - 1
    BY FS_RemoveElement
  <2>2. B \in SUBSET R
    BY DEF Smaller
  <2> HIDE DEF B, R
  <2>3. IsFiniteSet(B) /\ Cardinality(B) <= n - 1
    BY <2>1, <2>2, FS_Subset
  <2>4. Cardinality(B) \in Nat
    BY <2>3, FS_CardinalityType
  <2> HIDE DEF n
  <2> QED BY <1>1, <2>3, <2>4 DEF B
<1>4. ASSUME NEW x \in S, NEW y \in S, key[x] < key[y] PROVE rank[x] < rank[y]
  <2> DEFINE A == Smaller(S, key, x)
             B == Smaller(S, key, y)
  <2>1. A \in SUBSET B /\ x \in B /\ x \notin A
    BY <1>4 DEF Smaller
  <2>2. IsFiniteSet(B) /\ Cardinality(A) \in Int /\ Cardinality(B) \in Int
    BY <1>3
  <2>3. rank[x] = Cardinality(A) /\ rank[y] = Cardinality(B)
    OBVIOUS
  <2> HIDE DEF A, B, rank
  <2>4. Cardinality(A) <= Cardinality(B) /\ Cardinality(A) # Cardinality(B)
    BY <2>1, <2>2, FS_Subset
  <2> QED BY <2>2, <2>3, <2>4
<1>5. rank \in [S -> places] /\ \A x \in S : rank[x] = Cardinality(Smaller(S, key, x))
  BY <1>3
<1> HIDE DEF rank
<1>8. ASSUME NEW x \in S, NEW y \in S, x # y PROVE rank[x] # rank[y]
  <2>1. key[x] < key[y] \/ key[y] < key[x]
    BY <1>8
  <2>2. rank[x] \in Int /\ rank[y] \in Int
    BY <1>5
  <2> QED BY <1>4, <2>1, <2>2
<1> HIDE DEF places
<1>9. rank \in Injection(S, places)
  BY <1>5, <1>8 DEF Injection, IsInjective
<1>10. rank \in Surjection(S, places)
  BY <1>2, <1>9, FS_Injection
<1>11. ASSUME NEW i \in 1 .. n PROVE order[i] \in S /\ rank[order[i]] = i - 1
  <2>1. i - 1 \in places
    BY <1>1 DEF places
  <2>2. \E x \in S : Cardinality(Smaller(S, key, x)) = i - 1
    BY <1>5, <1>10, <2>1 DEF Surjection
  <2>3. order[i] \in S /\ Cardinality(Smaller(S, key, order[i])) = i - 1
    BY <2>2
  <2> QED BY <1>5, <2>3
<1>12. order \in [1 .. n -> S]
  BY <1>11
<1> HIDE DEF order
<1>13. ASSUME NEW x \in S PROVE \E i \in 1 .. n : order[i] = x
  <2>1. rank[x] \in Nat /\ rank[x] <= n - 1
    BY <1>1, <1>5 DEF places
  <2>2. rank[x] + 1 \in 1 .. n /\ (rank[x] + 1) - 1 = rank[x]
    BY <1>1, <2>1
  <2>3. PICK i \in 1 .. n : i - 1 = rank[x]
    BY <2>2
  <2> QED BY <1>8, <1>11, <2>3
<1> QED BY <1>0, <1>1, <1>12, <1>13

\* The addresses that a finite set holds, in order.
LEMMA SortedLists ==
    ASSUME NEW S \in SUBSET Int, IsFiniteSet(S)
    PROVE  Sorted(S) \in Seq(S)
<1> DEFINE key == [a \in S |-> a]
<1>1. key \in [S -> Int] /\ \A x, y \in S : key[x] = key[y] => x = y
  OBVIOUS
<1> HIDE DEF key
<1>2. InOrder(S, key) \in [1 .. Cardinality(S) -> S] /\ Cardinality(S) \in Nat
  BY <1>1, InOrderLists
<1>3. InOrder(S, key) \in Seq(S)
  BY <1>2
<1> QED BY <1>3 DEF Sorted, key

-----------------------------------------------------------------------------
(* Words *)

Byte == 0 .. 255
Short == {x \in Nat : x < 65536}

LEMMA Powers ==
    /\ 2^0 = 1 /\ 2^1 = 2 /\ 2^2 = 4 /\ 2^4 = 16 /\ 2^5 = 32 /\ 2^6 = 64 /\ 2^8 = 256 /\ 2^10 = 1024
    /\ 2^11 = 2048 /\ 2^12 = 4096 /\ 2^13 = 8192 /\ 2^14 = 16384 /\ 2^16 = 65536
    /\ 2^21 = 2097152 /\ 2^22 = 4194304 /\ 2^23 = 8388608 /\ 2^24 = 16777216 /\ 2^25 = 33554432
  BY SMT

\* The bits that are used, as numbers.
LEMMA Bits24_1 == \A x \in Int : Bits(x, 24, 1) = (x \div 16777216) % 2
  BY SMT, Powers DEF Bits
LEMMA Bits23_1 == \A x \in Int : Bits(x, 23, 1) = (x \div 8388608) % 2
  BY SMT, Powers DEF Bits
LEMMA Bits22_1 == \A x \in Int : Bits(x, 22, 1) = (x \div 4194304) % 2
  BY SMT, Powers DEF Bits
LEMMA Bits21_1 == \A x \in Int : Bits(x, 21, 1) = (x \div 2097152) % 2
  BY SMT, Powers DEF Bits
LEMMA Bits16_6 == \A x \in Int : Bits(x, 16, 6) = (x \div 65536) % 64
  BY SMT, Powers DEF Bits
LEMMA Bits11_10 == \A x \in Int : Bits(x, 11, 10) = (x \div 2048) % 1024
  BY SMT, Powers DEF Bits
LEMMA Bits5_11 == \A x \in Int : Bits(x, 5, 11) = (x \div 32) % 2048
  BY SMT, Powers DEF Bits
LEMMA Bits1_4 == \A x \in Int : Bits(x, 1, 4) = (x \div 2) % 16
  BY SMT, Powers DEF Bits
LEMMA Bits10_1 == \A x \in Int : Bits(x, 10, 1) = (x \div 1024) % 2
  BY SMT, Powers DEF Bits
LEMMA Bits12_1 == \A x \in Int : Bits(x, 12, 1) = (x \div 4096) % 2
  BY SMT, Powers DEF Bits
LEMMA Bits6_4 == \A x \in Int : Bits(x, 6, 4) = (x \div 64) % 16
  BY SMT, Powers DEF Bits
LEMMA Bits13_1 == \A x \in Int : Bits(x, 13, 1) = (x \div 8192) % 2
  BY SMT, Powers DEF Bits
LEMMA Bits11_1 == \A x \in Int : Bits(x, 11, 1) = (x \div 2048) % 2
  BY SMT, Powers DEF Bits
LEMMA Bits11_5 == \A x \in Int : Bits(x, 11, 5) = (x \div 2048) % 32
  BY SMT, Powers DEF Bits
LEMMA Bits14_2 == \A x \in Int : Bits(x, 14, 2) = (x \div 16384) % 4
  BY SMT, Powers DEF Bits
LEMMA Bits0_1 == \A x \in Int : Bits(x, 0, 1) = x % 2
  BY SMT, Powers DEF Bits
LEMMA Bits0_11 == \A x \in Int : Bits(x, 0, 11) = x % 2048
  BY SMT, Powers DEF Bits
LEMMA Bits0_6 == \A x \in Int : Bits(x, 0, 6) = x % 64
  BY SMT, Powers DEF Bits
LEMMA Bits0_10 == \A x \in Int : Bits(x, 0, 10) = x % 1024
  BY SMT, Powers DEF Bits

RawBw(t, cond, imm11, imm6, j1, j2, s) ==
    t + 2 * cond + 32 * imm11 + 65536 * imm6 + 4194304 * j1 + 8388608 * j2 + 16777216 * s
RawBl(imm11, imm10, i2, i1, s) ==
    imm11 + 2048 * imm10 + 2097152 * i2 + 4194304 * i1 + 8388608 * s

FieldsBw(t, cond, imm11, imm6, j1, j2, s) ==
    /\ t \in 0 .. 1 /\ cond \in 0 .. 15 /\ imm11 \in 0 .. 2047 /\ imm6 \in 0 .. 63
    /\ j1 \in 0 .. 1 /\ j2 \in 0 .. 1 /\ s \in 0 .. 1
FieldsBl(imm11, imm10, i2, i1, s) ==
    /\ imm11 \in 0 .. 2047 /\ imm10 \in 0 .. 1023
    /\ i2 \in 0 .. 1 /\ i1 \in 0 .. 1 /\ s \in 0 .. 1

\* What the fields of a branch make of its two halves, and back.
LEMMA FieldsOfBw ==
    ASSUME NEW t, NEW cond, NEW imm11, NEW imm6, NEW j1, NEW j2, NEW s, NEW v \in Int,
           FieldsBw(t, cond, imm11, imm6, j1, j2, s),
           v = RawBw(t, cond, imm11, imm6, j1, j2, s)
    PROVE  /\ Bits(v, 24, 1) = s /\ Bits(v, 1, 4) = cond /\ Bits(v, 16, 6) = imm6
           /\ Bits(v, 22, 1) = j1 /\ Bits(v, 0, 1) = t /\ Bits(v, 23, 1) = j2
           /\ Bits(v, 5, 11) = imm11
<1>0. /\ t \in 0 .. 1 /\ cond \in 0 .. 15 /\ imm11 \in 0 .. 2047 /\ imm6 \in 0 .. 63
      /\ j1 \in 0 .. 1 /\ j2 \in 0 .. 1 /\ s \in 0 .. 1
  BY DEF FieldsBw
<1> USE <1>0 DEF RawBw
<1>1. v \div 16777216 = s
  BY SMT
<1>2. v \div 8388608 = j2 + 2 * s
  BY SMT
<1>3. PICK r \in Nat : r = j1 + 2 * (j2 + 2 * s)
  BY SMT
<1>4. v \div 4194304 = r
  BY SMT, <1>3
<1>5. PICK q \in Nat : q = imm6 + 64 * r
  BY SMT
<1>6. v \div 65536 = q
  BY SMT, <1>3, <1>5
<1>7. PICK p \in Nat : p = imm11 + 2048 * q
  BY SMT
<1>8. v \div 32 = p
  BY SMT, <1>3, <1>5, <1>7
<1>9. v \div 2 = cond + 16 * p /\ v % 2 = t
  BY SMT, <1>3, <1>5, <1>7
<1>10. (j2 + 2 * s) % 2 = j2
  BY SMT
<1>11. r % 2 = j1
  BY SMT, <1>3
<1>12. q % 64 = imm6
  BY SMT, <1>5
<1>13. p % 2048 = imm11
  BY SMT, <1>7
<1>14. (cond + 16 * p) % 16 = cond
  BY SMT
<1>15. s % 2 = s /\ v \div 1 = v
  BY SMT, <1>3
<1> HIDE <1>0 DEF RawBw
<1>16. Bits(v, 24, 1) = s
  BY SMT, <1>1, <1>15, Bits24_1
<1>17. Bits(v, 23, 1) = j2
  BY SMT, <1>2, <1>10, Bits23_1
<1>18. Bits(v, 22, 1) = j1
  BY SMT, <1>4, <1>11, Bits22_1
<1>19. Bits(v, 16, 6) = imm6
  BY SMT, <1>6, <1>12, Bits16_6
<1>20. Bits(v, 5, 11) = imm11
  BY SMT, <1>8, <1>13, Bits5_11
<1>21. Bits(v, 1, 4) = cond
  BY SMT, <1>9, <1>14, Bits1_4
<1>22. Bits(v, 0, 1) = t
  BY SMT, <1>9, Bits0_1
<1> QED BY <1>16, <1>17, <1>18, <1>19, <1>20, <1>21, <1>22

LEMMA FieldsOfBl ==
    ASSUME NEW imm11, NEW imm10, NEW i2, NEW i1, NEW s, NEW v \in Int,
           FieldsBl(imm11, imm10, i2, i1, s),
           v = RawBl(imm11, imm10, i2, i1, s)
    PROVE  /\ Bits(v, 23, 1) = s /\ Bits(v, 22, 1) = i1 /\ Bits(v, 21, 1) = i2
           /\ Bits(v, 11, 10) = imm10 /\ Bits(v, 0, 11) = imm11
<1>0. /\ imm11 \in 0 .. 2047 /\ imm10 \in 0 .. 1023
      /\ i2 \in 0 .. 1 /\ i1 \in 0 .. 1 /\ s \in 0 .. 1
  BY DEF FieldsBl
<1> USE <1>0 DEF RawBl
<1>1. v \div 8388608 = s
  BY SMT
<1>2. v \div 4194304 = i1 + 2 * s /\ (i1 + 2 * s) % 2 = i1
  BY SMT
<1>3. PICK r \in Nat : r = i2 + 2 * (i1 + 2 * s)
  BY SMT
<1>4. v \div 2097152 = r
  BY SMT, <1>3
<1>5. r % 2 = i2
  BY SMT, <1>3
<1>6. PICK q \in Nat : q = imm10 + 1024 * r
  BY SMT, <1>3
<1>7. v \div 2048 = q /\ v % 2048 = imm11
  BY SMT, <1>3, <1>6
<1>8. q % 1024 = imm10
  BY SMT, <1>6
<1>9. s % 2 = s /\ v \div 1 = v
  BY SMT
<1> HIDE <1>0 DEF RawBl
<1>10. Bits(v, 23, 1) = s
  BY SMT, <1>1, <1>9, Bits23_1
<1>11. Bits(v, 22, 1) = i1
  BY SMT, <1>2, Bits22_1
<1>12. Bits(v, 21, 1) = i2
  BY SMT, <1>4, <1>5, Bits21_1
<1>13. Bits(v, 11, 10) = imm10
  BY SMT, <1>7, <1>8, Bits11_10
<1>14. Bits(v, 0, 11) = imm11
  BY SMT, <1>7, Bits0_11
<1> QED BY <1>10, <1>11, <1>12, <1>13, <1>14

\* The fields of the halves themselves.
LEMMA FieldsOfHalves ==
    ASSUME NEW x \in Short
    PROVE  /\ x = 2048 * (x \div 2048) + 1024 * ((x \div 1024) % 2) + 64 * ((x \div 64) % 16) + (x % 64)
           /\ x = 2048 * (x \div 2048) + 1024 * ((x \div 1024) % 2) + (x % 1024)
           /\ x = 16384 * (x \div 16384) + 8192 * ((x \div 8192) % 2) + 4096 * ((x \div 4096) % 2)
                    + 2048 * ((x \div 2048) % 2) + (x % 2048)
           /\ x \div 2048 \in 0 .. 31 /\ x \div 16384 \in 0 .. 3
           /\ (x \div 1024) % 2 \in 0 .. 1 /\ (x \div 64) % 16 \in 0 .. 15 /\ x % 64 \in 0 .. 63
           /\ x % 1024 \in 0 .. 1023 /\ (x \div 8192) % 2 \in 0 .. 1 /\ (x \div 4096) % 2 \in 0 .. 1
           /\ (x \div 2048) % 2 \in 0 .. 1 /\ x % 2048 \in 0 .. 2047
<1>1. x \in Int /\ x >= 0 /\ x < 65536
  BY SMT DEF Short
<1>2. x = 64 * (x \div 64) + (x % 64) /\ x % 64 \in 0 .. 63
  BY SMT, <1>1
<1>3. x \div 64 = 16 * (x \div 1024) + ((x \div 64) % 16) /\ (x \div 64) % 16 \in 0 .. 15
  BY SMT, <1>1
<1>4. x \div 1024 = 2 * (x \div 2048) + ((x \div 1024) % 2) /\ (x \div 1024) % 2 \in 0 .. 1
  BY SMT, <1>1
<1>5. x = 1024 * (x \div 1024) + (x % 1024) /\ x % 1024 \in 0 .. 1023
  BY SMT, <1>1
<1>6. x = 2048 * (x \div 2048) + (x % 2048) /\ x % 2048 \in 0 .. 2047
  BY SMT, <1>1
<1>7. x \div 2048 = 2 * (x \div 4096) + ((x \div 2048) % 2) /\ (x \div 2048) % 2 \in 0 .. 1
  BY SMT, <1>1
<1>8. x \div 4096 = 2 * (x \div 8192) + ((x \div 4096) % 2) /\ (x \div 4096) % 2 \in 0 .. 1
  BY SMT, <1>1
<1>9. x \div 8192 = 2 * (x \div 16384) + ((x \div 8192) % 2) /\ (x \div 8192) % 2 \in 0 .. 1
  BY SMT, <1>1
<1>10. x \div 2048 \in 0 .. 31 /\ x \div 16384 \in 0 .. 3
  BY SMT, <1>1
<1>11. x \div 64 \in Int /\ x \div 1024 \in Int /\ x \div 4096 \in Int /\ x \div 8192 \in Int
  BY SMT, <1>1
<1> QED BY SMT, <1>1, <1>2, <1>3, <1>4, <1>5, <1>6, <1>7, <1>8, <1>9, <1>10, <1>11

LEMMA ShortIs == \A x \in Short : x \in Int /\ 0 <= x /\ x < 65536
  BY SMT DEF Short

LEMMA ShortIf == \A x \in Int : 0 <= x /\ x < 65536 => x \in Short
  BY SMT DEF Short

LEMMA TopOfUpper == \A x \in Short : Bits(x, 11, 5) = x \div 2048
<1> SUFFICES ASSUME NEW x \in Short PROVE Bits(x, 11, 5) = x \div 2048
  OBVIOUS
<1>1. x \in Int /\ 0 <= x /\ x < 65536
  BY ShortIs
<1>2. x \div 2048 \in Int /\ 0 <= x \div 2048 /\ x \div 2048 < 32
  BY SMT, <1>1
<1> QED BY SMT, <1>1, <1>2, Bits11_5

LEMMA TopOfLower == \A x \in Short : Bits(x, 14, 2) = x \div 16384
<1> SUFFICES ASSUME NEW x \in Short PROVE Bits(x, 14, 2) = x \div 16384
  OBVIOUS
<1>1. x \in Int /\ 0 <= x /\ x < 65536
  BY ShortIs
<1>2. x \div 16384 \in Int /\ 0 <= x \div 16384 /\ x \div 16384 < 4
  BY SMT, <1>1
<1> QED BY SMT, <1>1, <1>2, Bits14_2

\* The offsets of branches.
BwRange(x) == x \in Int /\ x >= -16777216 /\ x < 16777216
BlRange(x) == x \in Int /\ x >= -8388608 /\ x < 8388608

\* A branch is packed as it was read.
LEMMA PackBw ==
    ASSUME NEW upper \in Short, NEW lower \in Short,
           Bits(upper, 11, 5) = 30, Bits(lower, 14, 2) = 2
    PROVE  /\ BwRange(unpack_bw(upper, lower))
           /\ pack_bw(unpack_bw(upper, lower)) = HalfBytes(upper) \o HalfBytes(lower)
<1> DEFINE s == (upper \div 1024) % 2
           cond == (upper \div 64) % 16
           imm6 == upper % 64
           j1 == (lower \div 8192) % 2
           t == (lower \div 4096) % 2
           j2 == (lower \div 2048) % 2
           imm11 == lower % 2048
           raw == RawBw(t, cond, imm11, imm6, j1, j2, s)
           x == unpack_bw(upper, lower)
<1>1. upper \div 1 = upper /\ lower \div 1 = lower /\ upper \in Int /\ lower \in Int
  <2>1. upper \in Int /\ lower \in Int
    BY ShortIs
  <2> QED BY SMT, <2>1
<1>2. x = raw - 33554432 * s
  BY SMT, <1>1, Powers DEF unpack_bw, Bits, RawBw
<1>3. /\ s \in 0 .. 1 /\ cond \in 0 .. 15 /\ imm6 \in 0 .. 63 /\ j1 \in 0 .. 1 /\ t \in 0 .. 1
      /\ j2 \in 0 .. 1 /\ imm11 \in 0 .. 2047
  BY SMT, FieldsOfHalves
<1>4. upper = 61440 + 1024 * s + 64 * cond + imm6
  <2>1. upper \div 2048 = 30
    BY SMT, <1>1, TopOfUpper
  <2>2. upper = 2048 * (upper \div 2048) + 1024 * s + 64 * cond + imm6
    BY SMT, FieldsOfHalves
  <2> QED BY SMT, <1>3, <2>1, <2>2
<1>5. lower = 32768 + 8192 * j1 + 4096 * t + 2048 * j2 + imm11
  <2>1. lower \div 16384 = 2
    BY SMT, <1>1, TopOfLower
  <2>2. lower = 16384 * (lower \div 16384) + 8192 * j1 + 4096 * t + 2048 * j2 + imm11
    BY SMT, FieldsOfHalves
  <2> QED BY SMT, <1>3, <2>1, <2>2
<1> HIDE DEF s, cond, imm6, j1, t, j2, imm11, x
<1>6. raw \in Int /\ raw >= 16777216 * s /\ raw < 16777216 + 16777216 * s /\ (s = 0 \/ s = 1)
  BY SMT, <1>3 DEF RawBw
<1>16. x \in Int /\ x >= -16777216 /\ x < 16777216 /\ (x < 0 <=> s = 1)
  <2> HIDE DEF raw
  <2>1. CASE s = 0
    BY SMT, <1>2, <1>6, <2>1
  <2>2. CASE s = 1
    BY SMT, <1>2, <1>6, <2>2
  <2> QED BY SMT, <1>6, <2>1, <2>2
<1>7. (IF x < 0 THEN x + 33554432 ELSE x) = raw
  <2> HIDE DEF raw
  <2> QED BY SMT, <1>2, <1>6, <1>16
<1>8. PICK v \in Int : v = raw
  <2> HIDE DEF raw
  <2> QED BY SMT, <1>6
<1>11. /\ Bits(v, 24, 1) = s /\ Bits(v, 1, 4) = cond /\ Bits(v, 16, 6) = imm6 /\ Bits(v, 22, 1) = j1
       /\ Bits(v, 0, 1) = t /\ Bits(v, 23, 1) = j2 /\ Bits(v, 5, 11) = imm11
  <2>1. FieldsBw(t, cond, imm11, imm6, j1, j2, s)
    BY <1>3 DEF FieldsBw
  <2> QED BY <2>1, <1>8, FieldsOfBw
<1> DEFINE w == IF x < 0 THEN x + 2^25 ELSE x
<1>12. w = v
  BY SMT, <1>7, <1>8, Powers
<1> DEFINE up == 30 * 2^11 + s * 2^10 + cond * 2^6 + imm6
           lo == 2 * 2^14 + j1 * 2^13 + t * 2^12 + j2 * 2^11 + imm11
<1>13. pack_bw(x) = HalfBytes(up) \o HalfBytes(lo)
  <2>1. pack_bw(x) =
            HalfBytes(30 * 2^11 + Bits(w, 24, 1) * 2^10 + Bits(w, 1, 4) * 2^6 + Bits(w, 16, 6))
            \o HalfBytes(2 * 2^14 + Bits(w, 22, 1) * 2^13 + Bits(w, 0, 1) * 2^12
                           + Bits(w, 23, 1) * 2^11 + Bits(w, 5, 11))
    BY DEF pack_bw
  <2> HIDE DEF w
  <2> QED BY <1>11, <1>12, <2>1
<1>14. up = upper /\ lo = lower
  BY SMT, <1>3, <1>4, <1>5, Powers
<1> HIDE DEF up, lo
<1>15. HalfBytes(up) \o HalfBytes(lo) = HalfBytes(upper) \o HalfBytes(lower)
  BY SMT, <1>14
<1>17. BwRange(x)
  BY SMT, <1>16 DEF BwRange
<1> HIDE DEF x
<1> QED BY <1>17, <1>13, <1>15 DEF x

LEMMA Inverts == \A j, s \in 0 .. 1 : (IF (IF j = s THEN 1 ELSE 0) = s THEN 1 ELSE 0) = j
  BY SMT

LEMMA PackBl ==
    ASSUME NEW upper \in Short, NEW lower \in Short,
           Bits(upper, 11, 5) = 30, Bits(lower, 14, 2) = 3, Bits(lower, 12, 1) = 1
    PROVE  /\ BlRange(unpack_bl(upper, lower))
           /\ pack_bl(unpack_bl(upper, lower)) = HalfBytes(upper) \o HalfBytes(lower)
<1> DEFINE s == (upper \div 1024) % 2
           imm10 == upper % 1024
           j1 == (lower \div 8192) % 2
           j2 == (lower \div 2048) % 2
           imm11 == lower % 2048
           i1 == IF j1 = s THEN 1 ELSE 0
           i2 == IF j2 = s THEN 1 ELSE 0
           raw == RawBl(imm11, imm10, i2, i1, s)
           x == unpack_bl(upper, lower)
<1>1. upper \div 1 = upper /\ lower \div 1 = lower /\ upper \in Int /\ lower \in Int
  <2>1. upper \in Int /\ lower \in Int
    BY ShortIs
  <2> QED BY SMT, <2>1
<1>2. x = raw - 16777216 * s
  BY SMT, <1>1, Powers DEF unpack_bl, Bits, RawBl
<1>3. /\ s \in 0 .. 1 /\ imm10 \in 0 .. 1023 /\ j1 \in 0 .. 1
      /\ j2 \in 0 .. 1 /\ imm11 \in 0 .. 2047
  BY SMT, FieldsOfHalves
<1>4. upper = 61440 + 1024 * s + imm10
  <2>1. upper \div 2048 = 30
    BY SMT, <1>1, TopOfUpper
  <2>2. upper = 2048 * (upper \div 2048) + 1024 * s + imm10
    BY SMT, FieldsOfHalves
  <2> QED BY SMT, <1>3, <2>1, <2>2
<1>5. lower = 49152 + 8192 * j1 + 4096 + 2048 * j2 + imm11
  <2>1. lower \div 16384 = 3 /\ (lower \div 4096) % 2 = 1
    BY SMT, <1>1, TopOfLower, Bits12_1
  <2>2. lower = 16384 * (lower \div 16384) + 8192 * j1 + 4096 * ((lower \div 4096) % 2)
                  + 2048 * j2 + imm11
    BY SMT, FieldsOfHalves
  <2> QED BY SMT, <1>3, <2>1, <2>2
<1> HIDE DEF s, imm10, j1, j2, imm11, x
<1>0. i1 \in 0 .. 1 /\ i2 \in 0 .. 1 /\ (IF i1 = s THEN 1 ELSE 0) = j1 /\ (IF i2 = s THEN 1 ELSE 0) = j2
  BY SMT, <1>3, Inverts
<1> HIDE DEF i1, i2
<1>6. raw \in Int /\ raw >= 8388608 * s /\ raw < 8388608 + 8388608 * s /\ (s = 0 \/ s = 1)
  BY SMT, <1>0, <1>3 DEF RawBl
<1>16. x \in Int /\ x >= -8388608 /\ x < 8388608 /\ (x < 0 <=> s = 1)
  <2> HIDE DEF raw
  <2>1. CASE s = 0
    BY SMT, <1>2, <1>6, <2>1
  <2>2. CASE s = 1
    BY SMT, <1>2, <1>6, <2>2
  <2> QED BY SMT, <1>6, <2>1, <2>2
<1>7. (IF x < 0 THEN x + 16777216 ELSE x) = raw
  <2> HIDE DEF raw
  <2> QED BY SMT, <1>2, <1>6, <1>16
<1>8. PICK v \in Int : v = raw
  <2> HIDE DEF raw
  <2> QED BY SMT, <1>6
<1>11. /\ Bits(v, 23, 1) = s /\ Bits(v, 22, 1) = i1 /\ Bits(v, 21, 1) = i2
       /\ Bits(v, 11, 10) = imm10 /\ Bits(v, 0, 11) = imm11
  <2>1. FieldsBl(imm11, imm10, i2, i1, s)
    BY <1>0, <1>3 DEF FieldsBl
  <2> QED BY <2>1, <1>8, FieldsOfBl
<1> DEFINE w == IF x < 0 THEN x + 2^24 ELSE x
<1>12. w = v
  BY SMT, <1>7, <1>8, Powers
<1> DEFINE up == 30 * 2^11 + s * 2^10 + imm10
           lo == 3 * 2^14 + j1 * 2^13 + 2^12 + j2 * 2^11 + imm11
<1>13. pack_bl(x) = HalfBytes(up) \o HalfBytes(lo)
  <2> DEFINE Inverted(i) == IF i = Bits(w, 23, 1) THEN 1 ELSE 0
  <2>1. pack_bl(x) =
            HalfBytes(30 * 2^11 + Bits(w, 23, 1) * 2^10 + Bits(w, 11, 10))
            \o HalfBytes(3 * 2^14 + Inverted(Bits(w, 22, 1)) * 2^13 + 2^12
                           + Inverted(Bits(w, 21, 1)) * 2^11 + Bits(w, 0, 11))
    BY DEF pack_bl
  <2>2. Inverted(Bits(w, 22, 1)) = j1 /\ Inverted(Bits(w, 21, 1)) = j2
    <3> HIDE DEF w
    <3> QED BY <1>0, <1>11, <1>12
  <2>3. w = v /\ Bits(v, 23, 1) = s /\ Bits(v, 11, 10) = imm10 /\ Bits(v, 0, 11) = imm11
    BY <1>11, <1>12
  <2> HIDE DEF w, Inverted
  <2> QED BY <2>1, <2>2, <2>3
<1>14. up = upper /\ lo = lower
  BY SMT, <1>3, <1>4, <1>5, Powers
<1> HIDE DEF up, lo
<1>15. HalfBytes(up) \o HalfBytes(lo) = HalfBytes(upper) \o HalfBytes(lower)
  BY SMT, <1>14
<1>17. BlRange(x)
  BY SMT, <1>16 DEF BlRange
<1> HIDE DEF x
<1> QED BY <1>17, <1>13, <1>15 DEF x

-----------------------------------------------------------------------------
(* Words of an image *)

LEMMA MaxWithZero == \A x \in Int : Max({x, 0}) = IF x >= 0 THEN x ELSE 0
  BY DEF Max

LEMMA MinOfTwo == \A x, y \in Int : Min({x, y}) = IF x <= y THEN x ELSE y
  BY DEF Min

LEMMA KindsAre == Kinds = {"data", "code", "bw", "bl", "ldr", "ldr_w"}
<1>1. EncodeOrder = <<"data", "code", "bw", "bl", "ldr", "ldr_w">> /\ DOMAIN EncodeOrder = 1 .. 6
  BY DEF EncodeOrder
<1>2. \A x : (\E i \in 1 .. 6 : x = EncodeOrder[i]) <=> x \in {"data", "code", "bw", "bl", "ldr", "ldr_w"}
  BY DEF EncodeOrder
<1> QED BY <1>1, <1>2 DEF Kinds, Range

\* n elements of a sequence, from place p on.
LEMMA Slice ==
    ASSUME NEW S, NEW s \in Seq(S), NEW p \in Nat, NEW n \in Nat, p + n <= Len(s)
    PROVE  /\ SubSeq(s, p + 1, p + n) \in Seq(S)
           /\ Len(SubSeq(s, p + 1, p + n)) = n
           /\ \A i \in 1 .. n : /\ SubSeq(s, p + 1, p + n)[i] = s[p + i]
                                /\ s[p + i] \in S
<1>1. Len(s) \in Nat /\ s \in [1 .. Len(s) -> S]
  BY LenProperties
<1>2. SubSeq(s, p + 1, p + n) = [i \in 1 .. n |-> s[p + i]]
  BY <1>1 DEF SubSeq
<1> QED BY <1>1, <1>2

\* The number in the two bytes at address a.
HalfAt(image, a) == image[a + 1] + 256 * image[a + 2]

LEMMA ByteIs == \A b \in Byte : b \in Int /\ 0 <= b /\ b < 256
  BY SMT DEF Byte

LEMMA HalfOfBytes ==
    ASSUME NEW b \in Byte, NEW c \in Byte
    PROVE  b + 256 * c \in Short /\ HalfBytes(b + 256 * c) = <<b, c>>
<1>1. b \in Int /\ 0 <= b /\ b < 256 /\ c \in Int /\ 0 <= c /\ c < 256
  BY ByteIs
<1>2. PICK x \in Int : x = b + 256 * c
  BY <1>1
<1>3. 0 <= x /\ x < 65536 /\ x % 256 = b /\ x \div 256 = c
  BY SMT, <1>1, <1>2
<1>4. x \in Short
  BY <1>3, ShortIf
<1> QED BY <1>2, <1>3, <1>4 DEF HalfBytes

LEMMA Reads ==
    ASSUME NEW image \in Seq(Byte), NEW a \in Nat, NEW n \in Nat, a + n <= Len(image)
    PROVE  /\ ReadAt(image, a, n) \in Seq(Byte) /\ Len(ReadAt(image, a, n)) = n
           /\ \A i \in 1 .. n : ReadAt(image, a, n)[i] = image[a + i] /\ image[a + i] \in Byte
<1>1. Len(image) \in Nat
  OBVIOUS
<1>2. Min({a + n, Len(image)}) = a + n
  BY <1>1, MinOfTwo
<1>3. ReadAt(image, a, n) = SubSeq(image, a + 1, a + n)
  BY <1>2 DEF ReadAt
<1> QED BY <1>3, Slice

\* The halves of a word.
LEMMA HalvesRead ==
    ASSUME NEW image \in Seq(Byte), NEW a \in Nat, a + 4 <= Len(image)
    PROVE  /\ Half(ReadAt(image, a, 4), 1) = HalfAt(image, a)
           /\ Half(ReadAt(image, a, 4), 3) = HalfAt(image, a + 2)
           /\ HalfAt(image, a) \in Short /\ HalfAt(image, a + 2) \in Short
           /\ HalfBytes(HalfAt(image, a)) \o HalfBytes(HalfAt(image, a + 2)) = ReadAt(image, a, 4)
<1> DEFINE word == ReadAt(image, a, 4)
<1>1. word \in Seq(Byte) /\ Len(word) = 4
      /\ word[1] = image[a + 1] /\ word[2] = image[a + 2]
      /\ word[3] = image[a + 3] /\ word[4] = image[a + 4]
  <2>1. 1 \in 1 .. 4 /\ 2 \in 1 .. 4 /\ 3 \in 1 .. 4 /\ 4 \in 1 .. 4
    OBVIOUS
  <2>2. word \in Seq(Byte) /\ Len(word) = 4 /\ \A i \in 1 .. 4 : word[i] = image[a + i]
    <3>1. 4 \in Nat
      OBVIOUS
    <3> QED BY <3>1, Reads
  <2> HIDE DEF word
  <2> QED BY Zenon, <2>1, <2>2
<1>2. a + 3 = (a + 2) + 1 /\ a + 4 = (a + 2) + 2
  OBVIOUS
<1> HIDE DEF word
<1>3. word[1] \in Byte /\ word[2] \in Byte /\ word[3] \in Byte /\ word[4] \in Byte
  <2>1. \A i \in 1 .. 4 : word[i] \in Byte
    <3>1. word \in Seq(Byte) /\ Len(word) = 4
      BY <1>1
    <3> QED BY <3>1, ElementOfSeq
  <2> QED BY <2>1
<1>4. HalfAt(image, a) = word[1] + 256 * word[2] /\ HalfAt(image, a + 2) = word[3] + 256 * word[4]
  BY <1>1, <1>2 DEF HalfAt
<1>5. Half(word, 1) = word[1] + 256 * word[2] /\ Half(word, 3) = word[3] + 256 * word[4]
  BY <1>3, ByteIs DEF Half
<1>6. /\ HalfAt(image, a) \in Short /\ HalfBytes(HalfAt(image, a)) = <<word[1], word[2]>>
      /\ HalfAt(image, a + 2) \in Short /\ HalfBytes(HalfAt(image, a + 2)) = <<word[3], word[4]>>
  BY <1>3, <1>4, HalfOfBytes
<1>7. <<word[1], word[2]>> \o <<word[3], word[4]>> = word
  <2> DEFINE joined == <<word[1], word[2]>> \o <<word[3], word[4]>>
  <2>1. /\ joined \in Seq(Byte) /\ Len(joined) = 4 /\ joined[1] = word[1] /\ joined[2] = word[2]
        /\ joined[3] = word[3] /\ joined[4] = word[4]
    BY <1>3
  <2> HIDE DEF joined
  <2>2. \A i \in 1 .. 4 : joined[i] = word[i]
    BY <2>1
  <2> QED BY <1>1, <2>1, <2>2, SeqEqual DEF joined
<1> QED BY <1>4, <1>5, <1>6, <1>7 DEF word

\* The half at address a as it is read by itself.
LEMMA HalfRead ==
    ASSUME NEW image \in Seq(Byte), NEW a \in Nat, a + 2 <= Len(image)
    PROVE  Half(ReadAt(image, a, 2), 1) = HalfAt(image, a) /\ HalfAt(image, a) \in Short
<1> DEFINE word == ReadAt(image, a, 2)
<1>1. word \in Seq(Byte) /\ Len(word) = 2 /\ word[1] = image[a + 1] /\ word[2] = image[a + 2]
  <2>1. 1 \in 1 .. 2 /\ 2 \in 1 .. 2
    OBVIOUS
  <2>2. word \in Seq(Byte) /\ Len(word) = 2 /\ \A i \in 1 .. 2 : word[i] = image[a + i]
    <3>1. 2 \in Nat
      OBVIOUS
    <3> QED BY <3>1, Reads
  <2> HIDE DEF word
  <2> QED BY Zenon, <2>1, <2>2
<1> HIDE DEF word
<1>2. word[1] \in Byte /\ word[2] \in Byte
  BY <1>1
<1>3. Half(word, 1) = word[1] + 256 * word[2]
  BY DEF Half
<1> QED BY <1>1, <1>2, <1>3, HalfOfBytes DEF word, HalfAt

\* The values that words have, and the two parts of a number.
Value == Int \X Short
Quot(x) == x \div 65536
Rest(x) == x % 65536
Joined(q, x) == x + q * 65536

LEMMA Parts ==
    /\ \A x \in Int : /\ Quot(x) \in Int /\ Rest(x) \in Int /\ Rest(x) \in Short
                      /\ Joined(Quot(x), Rest(x)) = x
    /\ \A x \in Short, q \in Int : /\ Joined(q, x) \in Int
                                  /\ Quot(Joined(q, x)) = q /\ Rest(Joined(q, x)) = x
<1>1. ASSUME NEW x \in Int
      PROVE  Quot(x) \in Int /\ Rest(x) \in Int /\ Joined(Quot(x), Rest(x)) = x
  BY SMT DEF Quot, Rest, Joined
<1>2. ASSUME NEW x \in Int
      PROVE  Rest(x) \in Short
  <2>1. Rest(x) \in Int /\ 0 <= Rest(x) /\ Rest(x) < 65536
    BY SMT DEF Rest
  <2> QED BY <2>1, ShortIf
<1>3. ASSUME NEW x \in Short, NEW q \in Int
      PROVE  /\ Joined(q, x) \in Int
             /\ Quot(Joined(q, x)) = q /\ Rest(Joined(q, x)) = x
  <2>1. x \in Int /\ 0 <= x /\ x < 65536
    BY ShortIs
  <2> QED BY SMT, <2>1 DEF Quot, Rest, Joined
<1> QED BY <1>1, <1>2, <1>3

LEMMA WideIs ==
    ASSUME NEW high \in Int, NEW low \in Int
    PROVE  Wide(high, low) = <<high + Quot(low), Rest(low)>> /\ Wide(high, low) \in Value
<1>1. Wide(high, low) = <<high + Quot(low), Rest(low)>>
  BY DEF Wide, Quot, Rest
<1>2. high + Quot(low) \in Int /\ Rest(low) \in Short
  BY Parts
<1> QED BY <1>1, <1>2 DEF Value

LEMMA NarrowWide ==
    ASSUME NEW x \in Int
    PROVE  /\ WideOf(x) \in Value /\ Narrow(WideOf(x)) = x
           /\ WideOf(x)[1] = Quot(x)
<1>1. WideOf(x) = <<0 + Quot(x), Rest(x)>> /\ WideOf(x) \in Value
  <2>1. 0 \in Int
    OBVIOUS
  <2> QED BY <2>1, WideIs DEF WideOf
<1>2. Quot(x) \in Int /\ 0 + Quot(x) = Quot(x) /\ Joined(Quot(x), Rest(x)) = x
  BY Parts
<1>3. WideOf(x)[1] = Quot(x) /\ WideOf(x)[2] = Rest(x)
  BY <1>1, <1>2
<1>4. Narrow(WideOf(x)) = Joined(Quot(x), Rest(x))
  <2>1. Narrow(WideOf(x)) = Quot(x) * 65536 + Rest(x)
    BY <1>3 DEF Narrow
  <2>2. Rest(x) \in Int /\ Quot(x) \in Int
    BY Parts
  <2> QED BY SMT, <2>1, <2>2 DEF Joined
<1> QED BY <1>1, <1>2, <1>3, <1>4

\* A difference that is taken from the value gives the other value.
LEMMA MinusMinus ==
    ASSUME NEW v \in Value, NEW w \in Value
    PROVE  Minus(v, w) \in Value /\ Minus(v, Minus(v, w)) = w
<1>1. PICK v1 \in Int, v2 \in Short : v = <<v1, v2>>
  BY DEF Value
<1>2. PICK w1 \in Int, w2 \in Short : w = <<w1, w2>>
  BY DEF Value
<1>3. v2 \in Int /\ w2 \in Int
  BY ShortIs
<1> DEFINE q == Quot(v2 - w2)
           r == Rest(v2 - w2)
           d == Minus(v, w)
<1>4. q \in Int /\ r \in Int /\ v2 - w2 = Joined(q, r)
  <2>1. PICK e \in Int : e = v2 - w2
    BY <1>3
  <2>2. Quot(e) \in Int /\ Rest(e) \in Int /\ Joined(Quot(e), Rest(e)) = e
    BY Parts
  <2> QED BY <2>1, <2>2
<1>5. d = <<v1 - w1 + q, r>> /\ d \in Value
  <2>1. d = Wide(v1 - w1, v2 - w2) /\ v1 - w1 \in Int /\ v2 - w2 \in Int
    BY <1>1, <1>2, <1>3 DEF Minus
  <2> QED BY <2>1, WideIs
<1> HIDE DEF q, r, d
<1>6. Minus(v, d) = Wide(v1 - (v1 - w1 + q), v2 - r)
  BY <1>1, <1>5 DEF Minus
<1>7. v1 - (v1 - w1 + q) = w1 - q /\ w1 - q \in Int /\ w1 - q + q = w1
  BY <1>4
<1>8. v2 - r = Joined(q, w2)
  BY SMT, <1>3, <1>4 DEF Joined
<1>9. Joined(q, w2) \in Int /\ Quot(Joined(q, w2)) = q /\ Rest(Joined(q, w2)) = w2
  BY <1>4, Parts
<1>10. Wide(w1 - q, Joined(q, w2)) = <<w1 - q + Quot(Joined(q, w2)), Rest(Joined(q, w2))>>
  BY <1>7, <1>9, WideIs
<1>11. <<w1 - q + Quot(Joined(q, w2)), Rest(Joined(q, w2))>> = <<w1, w2>>
  BY <1>7, <1>9
<1>12. Minus(v, d) = <<w1, w2>>
  BY <1>6, <1>7, <1>8, <1>10, <1>11
<1> QED BY <1>2, <1>5, <1>12 DEF d

\* What disassemble has seen of a word that it notes.
Fits(kind, first, second, segment) ==
    /\ kind = "bw" => Bits(first, 11, 5) = 30 /\ Bits(second, 14, 2) = 2
    /\ kind = "bl" => /\ Bits(first, 11, 5) = 30
                      /\ Bits(second, 14, 2) = 3 /\ Bits(second, 12, 1) = 1
    /\ kind = "data" => Within(<<second, first>>, segment.data, segment.data_end)
    /\ kind = "code" => Within(<<second, first>>, segment.code, segment.code_end)

Top == 32768
Low(segment) ==
    \A end \in {segment.data_end, segment.code_end} : ~ Below(<<Top, 0>>, end)

LEMMA LowValue ==
    ASSUME NEW first \in Short, NEW second \in Short, NEW begin, NEW end \in Int \X Int,
           ~ Below(<<Top, 0>>, end), Within(<<second, first>>, begin, end)
    PROVE  second < Top
<1>1. PICK e1 \in Int, e2 \in Int : end = <<e1, e2>>
  OBVIOUS
<1>2. /\ second \in Int /\ first \in Int /\ 0 <= first
  BY ShortIs
<1>3. ~ (Top < e1 \/ (Top = e1 /\ 0 < e2))
  BY <1>1 DEF Below
<1>4. second < e1 \/ (second = e1 /\ first < e2)
  BY <1>1 DEF Below, Within
<1> QED BY SMT, <1>2, <1>3, <1>4 DEF Top

Signed(s) == IF s < Top THEN s ELSE s - 65536
SignedShort == {x \in Int : -32768 <= x /\ x < 32768}

LEMMA SignedHalf ==
    ASSUME NEW s \in Short
    PROVE  /\ Signed(s) \in Int /\ Signed(s) \in SignedShort /\ Rest(Signed(s)) = s
           /\ s \in Int /\ (s < Top => Signed(s) = s)
<1>1. s \in Int /\ 0 <= s /\ s < 65536
  BY ShortIs
<1>2. Signed(s) \in Int /\ -32768 <= Signed(s) /\ Signed(s) < 32768
  BY SMT, <1>1 DEF Signed, Top
<1>3. s < Top => Signed(s) = s
  BY SMT DEF Signed
<1>4. Signed(s) \in SignedShort
  BY SMT, <1>2 DEF SignedShort
<1>5. Rest(Signed(s)) = s
  BY SMT, <1>1 DEF Signed, Top, Rest
<1>6. s \in Int /\ Signed(s) \in Int
  BY SMT, <1>1, <1>2
<1> QED BY Zenon, <1>3, <1>4, <1>5, <1>6

\* The value of a word of each kind, by its halves.
LEMMA ValueOfBranch ==
    ASSUME NEW image \in Seq(Byte), NEW a \in Nat, a + 4 <= Len(image)
    PROVE  /\ ValueAt(image, "bw", a) = WideOf(unpack_bw(HalfAt(image, a), HalfAt(image, a + 2)))
           /\ ValueAt(image, "bl", a) = WideOf(unpack_bl(HalfAt(image, a), HalfAt(image, a + 2)))
<1>1. /\ ValueAt(image, "bw", a) = WideOf(unpack_bw(Half(ReadAt(image, a, 4), 1), Half(ReadAt(image, a, 4), 3)))
      /\ ValueAt(image, "bl", a) = WideOf(unpack_bl(Half(ReadAt(image, a, 4), 1), Half(ReadAt(image, a, 4), 3)))
  BY DEF ValueAt
<1> QED BY <1>1, HalvesRead

LEMMA ValueOfPointer ==
    ASSUME NEW image \in Seq(Byte), NEW a \in Nat, a + 4 <= Len(image), NEW kind \in {"data", "code"}
    PROVE  ValueAt(image, kind, a) = <<HalfAt(image, a + 2), HalfAt(image, a)>>
<1>1. ValueAt(image, kind, a) = <<Half(ReadAt(image, a, 4), 3), Half(ReadAt(image, a, 4), 1)>>
  BY DEF ValueAt
<1> QED BY <1>1, HalvesRead

LEMMA ValueOfLiteral ==
    ASSUME NEW image \in Seq(Byte), NEW a \in Nat, a + 4 <= Len(image), NEW kind \in {"ldr", "ldr_w"}
    PROVE  ValueAt(image, kind, a) = <<Signed(HalfAt(image, a + 2)), HalfAt(image, a)>>
<1>1. ValueAt(image, kind, a) = <<Signed(Half(ReadAt(image, a, 4), 3)), Half(ReadAt(image, a, 4), 1)>>
  BY SMT DEF ValueAt, Signed, Top
<1> QED BY <1>1, HalvesRead

\* A noted word has a value.
LEMMA WordHasValue ==
    ASSUME NEW image \in Seq(Byte), NEW a \in Nat, a + 4 <= Len(image), NEW kind \in Kinds,
           NEW segment, Fits(kind, HalfAt(image, a), HalfAt(image, a + 2), segment)
    PROVE  ValueAt(image, kind, a) \in Value
<1> DEFINE f == HalfAt(image, a)
           s == HalfAt(image, a + 2)
<1>1. f \in Short /\ s \in Short /\ Fits(kind, f, s, segment)
  BY HalvesRead
<1>0. ValueAt(image, "bw", a) = WideOf(unpack_bw(f, s)) /\ ValueAt(image, "bl", a) = WideOf(unpack_bl(f, s))
  BY ValueOfBranch
<1>10. \A k \in {"data", "code"} : ValueAt(image, k, a) = <<s, f>>
  BY ValueOfPointer
<1>11. \A k \in {"ldr", "ldr_w"} : ValueAt(image, k, a) = <<Signed(s), f>>
  BY ValueOfLiteral
<1> HIDE DEF f, s
<1>2. s \in Int /\ Signed(s) \in Int
  BY <1>1, SignedHalf
<1>3. CASE kind = "bw"
  <2>1. unpack_bw(f, s) \in Int
    <3>1. BwRange(unpack_bw(f, s))
      BY <1>1, <1>3, PackBw DEF Fits
    <3> QED BY SMT, <3>1 DEF BwRange
  <2> QED BY <1>1, <1>0, <1>3, <2>1, NarrowWide
<1>4. CASE kind = "bl"
  <2>1. unpack_bl(f, s) \in Int
    <3>1. BlRange(unpack_bl(f, s))
      BY <1>1, <1>4, PackBl DEF Fits
    <3> QED BY SMT, <3>1 DEF BlRange
  <2> QED BY <1>1, <1>0, <1>4, <2>1, NarrowWide
<1>5. CASE kind \in {"data", "code"}
  <2>1. <<s, f>> \in Value
    BY <1>1, <1>2 DEF Value
  <2> QED BY <1>1, <1>5, <1>10, <2>1
<1>6. CASE kind \in {"ldr", "ldr_w"}
  <2>1. <<Signed(s), f>> \in Value
    BY <1>1, <1>2 DEF Value
  <2> QED BY <1>1, <1>6, <1>11, <2>1
<1> QED BY <1>3, <1>4, <1>5, <1>6, KindsAre

\* The parts of the value of a branch.
LEMMA QuotBound ==
    ASSUME NEW x
    PROVE  /\ BwRange(x) => -512 <= Quot(x) /\ Quot(x) < 512
           /\ BlRange(x) => -256 <= Quot(x) /\ Quot(x) < 256
<1>1. ASSUME BwRange(x) PROVE -512 <= Quot(x) /\ Quot(x) < 512
  BY SMT, <1>1 DEF Quot, BwRange
<1>2. ASSUME BlRange(x) PROVE -256 <= Quot(x) /\ Quot(x) < 256
  BY SMT, <1>2 DEF Quot, BlRange
<1> QED BY <1>1, <1>2

\* A noted word of an image whose addresses are low is written back as it was read.
LEMMA WordRestored ==
    ASSUME NEW image \in Seq(Byte), NEW a \in Nat, a + 4 <= Len(image), NEW kind \in Kinds,
           NEW segment \in Segment, Low(segment),
           Fits(kind, HalfAt(image, a), HalfAt(image, a + 2), segment)
    PROVE  /\ Packable(kind, ValueAt(image, kind, a))
           /\ Packed(kind, ValueAt(image, kind, a)) = ReadAt(image, a, 4)
<1> DEFINE f == HalfAt(image, a)
           s == HalfAt(image, a + 2)
<1>1. f \in Short /\ s \in Short /\ Fits(kind, f, s, segment)
  BY HalvesRead
<1>2. HalfBytes(f) \o HalfBytes(s) = ReadAt(image, a, 4)
  BY HalvesRead
<1>0. ValueAt(image, "bw", a) = WideOf(unpack_bw(f, s)) /\ ValueAt(image, "bl", a) = WideOf(unpack_bl(f, s))
  BY ValueOfBranch
<1>10. \A k \in {"data", "code"} : ValueAt(image, k, a) = <<s, f>>
  BY ValueOfPointer
<1>11. \A k \in {"ldr", "ldr_w"} : ValueAt(image, k, a) = <<Signed(s), f>>
  BY ValueOfLiteral
<1> HIDE DEF f, s
<1>3. CASE kind = "bw"
  <2> DEFINE x == unpack_bw(f, s)
  <2>1. BwRange(x) /\ pack_bw(x) = HalfBytes(f) \o HalfBytes(s)
    BY Zenon, <1>1, <1>3, PackBw DEF Fits
  <2>2. ValueAt(image, kind, a) = WideOf(x)
    BY <1>0, <1>3
  <2> HIDE DEF x
  <2>3. Narrow(WideOf(x)) = x /\ WideOf(x)[1] = Quot(x)
    <3>1. x \in Int
      BY SMT, <2>1 DEF BwRange
    <3> QED BY <3>1, NarrowWide
  <2>4. -512 <= Quot(x) /\ Quot(x) < 512
    BY <2>1, QuotBound
  <2>5. Packable("bw", WideOf(x))
    BY <2>3, <2>4 DEF Packable
  <2>6. Packed("bw", WideOf(x)) = pack_bw(x)
    BY <2>3 DEF Packed
  <2> QED BY <1>2, <1>3, <2>1, <2>2, <2>5, <2>6
<1>4. CASE kind = "bl"
  <2> DEFINE x == unpack_bl(f, s)
  <2>1. BlRange(x) /\ pack_bl(x) = HalfBytes(f) \o HalfBytes(s)
    BY Zenon, <1>1, <1>4, PackBl DEF Fits
  <2>2. ValueAt(image, kind, a) = WideOf(x)
    BY <1>0, <1>4
  <2> HIDE DEF x
  <2>3. Narrow(WideOf(x)) = x /\ WideOf(x)[1] = Quot(x)
    <3>1. x \in Int
      BY SMT, <2>1 DEF BlRange
    <3> QED BY <3>1, NarrowWide
  <2>4. -256 <= Quot(x) /\ Quot(x) < 256
    BY <2>1, QuotBound
  <2>5. Packable("bl", WideOf(x))
    BY <2>3, <2>4 DEF Packable
  <2>6. Packed("bl", WideOf(x)) = pack_bl(x)
    BY <2>3 DEF Packed
  <2> QED BY <1>2, <1>4, <2>1, <2>2, <2>5, <2>6
<1>5. ASSUME kind \in {"data", "code", "ldr", "ldr_w"}, ValueAt(image, kind, a) = <<Signed(s), f>>
      PROVE  Packable(kind, ValueAt(image, kind, a)) /\ Packed(kind, ValueAt(image, kind, a)) = ReadAt(image, a, 4)
  <2>1. PICK n : n = Signed(s)
    OBVIOUS
  <2>2. n \in SignedShort /\ Rest(n) = s
    BY <1>1, <2>1, SignedHalf
  <2>3. Packable(kind, <<n, f>>)
    BY SMT, <1>5, <2>2 DEF Packable, SignedShort
  <2>4. Packed(kind, <<n, f>>) = HalfBytes(f) \o HalfBytes(Rest(n))
    BY SMT, <1>5 DEF Packed, Rest
  <2> QED BY <1>2, <1>5, <2>1, <2>2, <2>3, <2>4
<1>6. CASE kind = "data"
  <2>1. segment.data_end \in Int \X Int /\ ~ Below(<<Top, 0>>, segment.data_end)
    BY DEF Segment, Low
  <2>2. s < Top
    BY <1>1, <1>6, <2>1, LowValue DEF Fits
  <2>3. ValueAt(image, kind, a) = <<Signed(s), f>>
    BY <1>1, <1>6, <1>10, <2>2, SignedHalf
  <2> QED BY <1>5, <1>6, <2>3
<1>7. CASE kind = "code"
  <2>1. segment.code_end \in Int \X Int /\ ~ Below(<<Top, 0>>, segment.code_end)
    BY DEF Segment, Low
  <2>2. s < Top
    BY <1>1, <1>7, <2>1, LowValue DEF Fits
  <2>3. ValueAt(image, kind, a) = <<Signed(s), f>>
    BY <1>1, <1>7, <1>10, <2>2, SignedHalf
  <2> QED BY <1>5, <1>7, <2>3
<1>8. CASE kind \in {"ldr", "ldr_w"}
  <2>1. ValueAt(image, kind, a) = <<Signed(s), f>>
    BY <1>8, <1>11
  <2> QED BY <1>5, <1>8, <2>1
<1> QED BY <1>3, <1>4, <1>6, <1>7, <1>8, KindsAre

-----------------------------------------------------------------------------
(* disassemble *)

\* The words that may be noted, and the states in which only such words are.
Words(image, segment, kind) ==
    {a \in Nat : a + 4 <= Len(image)
                   /\ Fits(kind, HalfAt(image, a), HalfAt(image, a + 2), segment)}

Noting(image, segment) ==
    [at : 0 .. Len(image), found : {f \in [Kinds -> SUBSET Nat] :
        \A kind \in Kinds : f[kind] \subseteq Words(image, segment, kind)}]

LEMMA MovedNotes ==
    ASSUME NEW image \in Seq(Byte), NEW segment, NEW st \in Noting(image, segment), NEW n \in Nat
    PROVE  Moved(image, st, n) \in Noting(image, segment)
<1>1. st.at \in 0 .. Len(image) /\ Len(image) \in Nat
  BY DEF Noting
<1>2. Min({st.at + n, Len(image)}) \in 0 .. Len(image)
  BY <1>1, MinOfTwo
<1> QED BY <1>2 DEF Moved, Noting

LEMMA NotedNotes ==
    ASSUME NEW image \in Seq(Byte), NEW segment, NEW st \in Noting(image, segment),
           NEW kind \in Kinds, NEW a \in Words(image, segment, kind)
    PROVE  Noted(st, kind, a) \in Noting(image, segment)
<1> DEFINE f == [st.found EXCEPT ![kind] = @ \cup {a}]
<1>1. st.found \in [Kinds -> SUBSET Nat]
      /\ \A k \in Kinds : st.found[k] \subseteq Words(image, segment, k)
  BY DEF Noting
<1>2. a \in Nat
  BY DEF Words
<1>3. f \in [Kinds -> SUBSET Nat]
  BY <1>1, <1>2
<1>4. ASSUME NEW k \in Kinds PROVE f[k] \subseteq Words(image, segment, k)
  BY <1>1
<1>5. Noted(st, kind, a) = [st EXCEPT !.found = f]
  BY DEF Noted
<1> HIDE DEF f
<1> QED BY <1>3, <1>4, <1>5 DEF Noting

LEMMA DataNotes ==
    ASSUME NEW image \in Seq(Byte), NEW segment, NEW st \in Noting(image, segment)
    PROVE  disassemble_data(image, segment, st) \in Noting(image, segment)
<1> DEFINE a == st.at
           next == Moved(image, st, 4)
           v == ValueAt(image, "data", a)
<1>1. a \in Nat /\ "data" \in Kinds /\ "code" \in Kinds
  BY KindsAre DEF Noting
<1>2. next \in Noting(image, segment)
  <2>1. 4 \in Nat
    OBVIOUS
  <2> QED BY <2>1, MovedNotes
<1>3. a + 4 <= Len(image) => v = <<HalfAt(image, a + 2), HalfAt(image, a)>>
  <2>1. "data" \in {"data", "code"}
    OBVIOUS
  <2> QED BY <1>1, <2>1, ValueOfPointer
<1>0. disassemble_data(image, segment, st) = next
      \/ /\ ~ (a + 4 > Len(image)) /\ Within(v, segment.data, segment.data_end)
         /\ disassemble_data(image, segment, st) = Noted(next, "data", a)
      \/ /\ ~ (a + 4 > Len(image)) /\ Within(v, segment.code, segment.code_end)
         /\ disassemble_data(image, segment, st) = Noted(next, "code", a)
  BY SMT DEF disassemble_data
<1>4. Len(image) \in Nat
  OBVIOUS
<1> HIDE DEF a, next, v
<1>5. ASSUME ~ (a + 4 > Len(image)), Within(v, segment.data, segment.data_end)
      PROVE  Noted(next, "data", a) \in Noting(image, segment)
  <2>1. a + 4 <= Len(image)
    BY <1>1, <1>4, <1>5
  <2>2. a \in Words(image, segment, "data")
    BY <1>1, <1>3, <1>5, <2>1 DEF Words, Fits
  <2> QED BY <1>1, <1>2, <2>2, NotedNotes
<1>6. ASSUME ~ (a + 4 > Len(image)), Within(v, segment.code, segment.code_end)
      PROVE  Noted(next, "code", a) \in Noting(image, segment)
  <2>1. a + 4 <= Len(image)
    BY <1>1, <1>4, <1>6
  <2>2. a \in Words(image, segment, "code")
    BY <1>1, <1>3, <1>6, <2>1 DEF Words, Fits
  <2> QED BY <1>1, <1>2, <2>2, NotedNotes
<1> QED BY <1>2, <1>5, <1>6, <1>0

LEMMA LiteralNotes ==
    ASSUME NEW image \in Seq(Byte), NEW segment, NEW st \in Noting(image, segment),
           NEW kind \in {"ldr", "ldr_w"}, NEW imm \in Nat, NEW n \in Nat
    PROVE  disassemble_ldr_common(image, st, kind, imm, n) \in Noting(image, segment)
<1> DEFINE a == LiteralAt(st.at, imm)
           next == Moved(image, st, n)
<1>1. next \in Noting(image, segment)
  BY MovedNotes
<1>2. kind \in Kinds
  BY KindsAre
<1>3. a \in Nat
  <2>1. st.at \in Nat
    BY DEF Noting
  <2> QED BY SMT, <2>1 DEF LiteralAt
<1>4. disassemble_ldr_common(image, st, kind, imm, n) =
        IF a + 4 <= Len(image) THEN Noted(next, kind, a) ELSE next
  BY DEF disassemble_ldr_common
<1> HIDE DEF a, next
<1>5. ASSUME a + 4 <= Len(image) PROVE Noted(next, kind, a) \in Noting(image, segment)
  <2>1. a \in Words(image, segment, kind)
    BY <1>3, <1>5 DEF Words, Fits
  <2> QED BY <1>1, <1>2, <2>1, NotedNotes
<1> QED BY <1>1, <1>4, <1>5

LEMMA InstructionNotes ==
    ASSUME NEW image \in Seq(Byte), NEW segment, NEW st \in Noting(image, segment)
    PROVE  disassemble_instruction(image, st) \in Noting(image, segment)
<1> DEFINE a == st.at
           upper == Half(ReadAt(image, a, 2), 1)
           lower == Half(ReadAt(image, a + 2, 2), 1)
           next == Moved(image, st, 4)
           r == disassemble_instruction(image, st)
           short == 4 * Bits(upper, 0, 8) + 4
           long == Bits(lower, 0, 12) + 4
<1>0. a \in Nat /\ Len(image) \in Nat /\ {"bl", "bw", "ldr", "ldr_w"} \subseteq Kinds
  BY KindsAre DEF Noting
<1>1. \/ r \in {next, Moved(image, st, 2)}
      \/ /\ a + 4 <= Len(image) /\ Bits(upper, 11, 5) = 30
         /\ \/ Bits(lower, 14, 2) = 3 /\ Bits(lower, 12, 1) = 1 /\ r = Noted(next, "bl", a)
            \/ Bits(lower, 14, 2) = 2 /\ r = Noted(next, "bw", a)
      \/ /\ a + 2 <= Len(image)
         /\ r = disassemble_ldr_common(image, st, "ldr", short, 2)
      \/ /\ a + 4 <= Len(image)
         /\ r = disassemble_ldr_common(image, st, "ldr_w", long, 4)
  BY SMT DEF disassemble_instruction
<1>2. next \in Noting(image, segment) /\ Moved(image, st, 2) \in Noting(image, segment)
  <2>1. 2 \in Nat /\ 4 \in Nat
    OBVIOUS
  <2> QED BY <2>1, MovedNotes
<1>3. a + 2 <= Len(image) => upper = HalfAt(image, a) /\ upper \in Short
  BY <1>0, HalfRead
<1>4. a + 4 <= Len(image) => lower = HalfAt(image, a + 2) /\ lower \in Short
  <2> SUFFICES ASSUME a + 4 <= Len(image) PROVE lower = HalfAt(image, a + 2) /\ lower \in Short
    OBVIOUS
  <2> DEFINE b == a + 2
  <2>1. b \in Nat /\ b + 2 <= Len(image)
    BY <1>0
  <2>2. lower = Half(ReadAt(image, b, 2), 1)
    OBVIOUS
  <2> HIDE DEF b, lower
  <2>3. lower = HalfAt(image, b) /\ lower \in Short
    BY <2>1, <2>2, HalfRead
  <2> QED BY <2>3 DEF b
<1>5. a + 2 <= Len(image) => short \in Nat
  <2>1. upper \in Short => Bits(upper, 0, 8) \in Nat
    <3> HIDE DEF upper
    <3> QED BY SMT, ShortIs, Powers DEF Bits
  <2> QED BY <1>3, <2>1
<1>6. a + 4 <= Len(image) => long \in Nat
  <2>1. lower \in Short => Bits(lower, 0, 12) \in Nat
    <3> HIDE DEF lower
    <3> QED BY SMT, ShortIs, Powers DEF Bits
  <2> QED BY <1>4, <2>1
<1> HIDE DEF a, upper, lower, next, r, short, long
<1>7. r \in {next, Moved(image, st, 2)} => r \in Noting(image, segment)
  BY <1>2
<1>8. ASSUME a + 4 <= Len(image), Bits(upper, 11, 5) = 30,
             Bits(lower, 14, 2) = 3, Bits(lower, 12, 1) = 1, r = Noted(next, "bl", a)
      PROVE  r \in Noting(image, segment)
  <2>1. upper = HalfAt(image, a) /\ lower = HalfAt(image, a + 2)
    BY <1>0, <1>3, <1>4, <1>8
  <2>2. Fits("bl", upper, lower, segment)
    BY <1>8 DEF Fits
  <2>3. a \in Words(image, segment, "bl")
    BY <1>0, <1>8, <2>1, <2>2 DEF Words
  <2> QED BY <1>0, <1>2, <1>8, <2>3, NotedNotes
<1>9. ASSUME a + 4 <= Len(image), Bits(upper, 11, 5) = 30,
             Bits(lower, 14, 2) = 2, r = Noted(next, "bw", a)
      PROVE  r \in Noting(image, segment)
  <2>1. upper = HalfAt(image, a) /\ lower = HalfAt(image, a + 2)
    BY <1>0, <1>3, <1>4, <1>9
  <2>2. Fits("bw", upper, lower, segment)
    BY <1>9 DEF Fits
  <2>3. a \in Words(image, segment, "bw")
    BY <1>0, <1>9, <2>1, <2>2 DEF Words
  <2> QED BY <1>0, <1>2, <1>9, <2>3, NotedNotes
<1>10. ASSUME a + 2 <= Len(image), r = disassemble_ldr_common(image, st, "ldr", short, 2)
       PROVE  r \in Noting(image, segment)
  <2>1. short \in Nat /\ 2 \in Nat /\ "ldr" \in {"ldr", "ldr_w"}
    BY <1>5, <1>10
  <2> QED BY <1>10, <2>1, LiteralNotes
<1>11. ASSUME a + 4 <= Len(image), r = disassemble_ldr_common(image, st, "ldr_w", long, 4)
       PROVE  r \in Noting(image, segment)
  <2>1. long \in Nat /\ 4 \in Nat /\ "ldr_w" \in {"ldr", "ldr_w"}
    BY <1>6, <1>11
  <2> QED BY <1>11, <2>1, LiteralNotes
<1>12. r \in Noting(image, segment)
  BY <1>1, <1>7, <1>8, <1>9, <1>10, <1>11
<1> QED BY <1>12 DEF r

LEMMA TurnNotes ==
    ASSUME NEW image \in Seq(Byte), NEW segment, NEW st \in Noting(image, segment)
    PROVE  disassemble_turn(image, segment, st) \in Noting(image, segment)
<1>1. disassemble_turn(image, segment, st) \in
        {st, disassemble_data(image, segment, st), Moved(image, st, 4), disassemble_instruction(image, st)}
  BY DEF disassemble_turn
<1>2. Moved(image, st, 4) \in Noting(image, segment)
  <2>1. 4 \in Nat
    OBVIOUS
  <2> QED BY <2>1, MovedNotes
<1> QED BY <1>1, <1>2, DataNotes, InstructionNotes

\* The turns one after the other.
Turns(image, segment) ==
    LET After[n \in 0 .. Len(image)] ==
            IF n = 0 THEN [at |-> 0, found |-> [kind \in Kinds |-> {}]]
                     ELSE disassemble_turn(image, segment, After[n - 1])
    IN  After

LEMMA TurnsNote ==
    ASSUME NEW image \in Seq(Byte), NEW segment
    PROVE  LET T == Turns(image, segment)
           IN  /\ \A k \in 0 .. Len(image) : T[k] \in Noting(image, segment)
               /\ T[0] = [at |-> 0, found |-> [kind \in Kinds |-> {}]]
               /\ \A k \in 1 .. Len(image) : T[k] = disassemble_turn(image, segment, T[k - 1])
<1> DEFINE N == Len(image)
           S == Noting(image, segment)
           begin == [at |-> 0, found |-> [kind \in Kinds |-> {}]]
           T == Turns(image, segment)
           step == [p \in (1 .. N) \X S |-> disassemble_turn(image, segment, p[2])]
<1>1. N \in Nat
  OBVIOUS
<1>2. step \in [(1 .. N) \X S -> S]
  BY TurnNotes
<1>3. begin \in S
  <2>1. begin.at \in 0 .. Len(image) /\ begin.found \in [Kinds -> SUBSET Nat]
        /\ \A kind \in Kinds : begin.found[kind] \subseteq Words(image, segment, kind)
    BY <1>1
  <2> QED BY <2>1 DEF Noting
<1>4. \A k \in 1 .. N : \A st \in S : step[<<k, st>>] = disassemble_turn(image, segment, st)
  OBVIOUS
<1> HIDE DEF step, N, S, begin
<1>5. PICK g \in [0 .. N -> S] : Recursion(g, begin, step, N)
  BY <1>1, <1>2, <1>3, RecursionUpTo
<1>6. g = [k \in 0 .. N |-> IF k = 0 THEN begin ELSE disassemble_turn(image, segment, g[k - 1])]
  <2>1. ASSUME NEW k \in 0 .. N
        PROVE  g[k] = IF k = 0 THEN begin ELSE disassemble_turn(image, segment, g[k - 1])
    <3>1. g[k] = IF k = 0 THEN begin ELSE step[<<k, g[k - 1]>>]
      BY <1>5 DEF Recursion
    <3>2. k # 0 => k \in 1 .. N /\ g[k - 1] \in S
      BY <1>1
    <3> QED BY <1>4, <3>1, <3>2
  <2> QED BY <1>5, <2>1
<1>7. T = [k \in 0 .. N |-> IF k = 0 THEN begin ELSE disassemble_turn(image, segment, T[k - 1])]
  BY <1>6 DEF Turns, N, begin
<1> HIDE DEF T
<1>8. T[0] = begin /\ \A k \in 1 .. N : T[k] = disassemble_turn(image, segment, T[k - 1])
  BY <1>1, <1>7
<1> DEFINE R == {k \in 0 .. N : T[k] \in S}
<1>9. 0 \in R
  BY <1>1, <1>3, <1>8
<1>10. ASSUME NEW k \in 0 .. N - 1, k \in R PROVE k + 1 \in R
  <2>1. T[k + 1] = disassemble_turn(image, segment, T[k])
    BY <1>1, <1>8
  <2>2. T[k] \in Noting(image, segment)
    BY <1>10 DEF S
  <2>3. disassemble_turn(image, segment, T[k]) \in S
    BY <2>2, TurnNotes DEF S
  <2> QED BY <1>1, <2>1, <2>3
<1> HIDE DEF R
<1>11. \A k \in 0 .. N : k \in R
  BY <1>1, <1>9, <1>10, InductionUpTo
<1>12. \A k \in 0 .. N : T[k] \in S
  BY <1>11 DEF R
<1> QED BY <1>8, <1>12 DEF T, N, S, begin

\* What is noted are whole words that fit, and so finitely many.
LEMMA Disassembled ==
    ASSUME NEW image \in Seq(Byte), NEW segment
    PROVE  /\ disassemble(image, segment) \in [Kinds -> SUBSET Nat]
           /\ \A kind \in Kinds : disassemble(image, segment)[kind] \subseteq Words(image, segment, kind)
<1>1. disassemble(image, segment) = Turns(image, segment)[Len(image)].found
  BY DEF disassemble, Turns
<1>2. Turns(image, segment)[Len(image)] \in Noting(image, segment)
  <2>1. Len(image) \in 0 .. Len(image)
    OBVIOUS
  <2> QED BY <2>1, TurnsNote
<1> QED BY <1>1, <1>2 DEF Noting

\* Segments of an image in which disassemble finds the same.
Inside(segment, at) == segment.offset <= at /\ at < segment.offset_end
Alike(s, t) ==
    /\ \A at \in Nat : Inside(s, at) <=> Inside(t, at)
    /\ \A at \in Nat : Inside(s, at) =>
         \A v \in Short \X Short :
            /\ Within(v, s.data, s.data_end) <=> Within(v, t.data, t.data_end)
            /\ Within(v, s.code, s.code_end) <=> Within(v, t.code, t.code_end)

LEMMA TurnAlike ==
    ASSUME NEW image \in Seq(Byte), NEW s, NEW t, Alike(s, t), NEW st \in Noting(image, s)
    PROVE  disassemble_turn(image, s, st) = disassemble_turn(image, t, st)
<1> DEFINE a == st.at
           v == ValueAt(image, "data", a)
<1>1. a \in Nat /\ Len(image) \in Nat /\ "data" \in {"data", "code"}
  BY DEF Noting
<1>2. a + 4 <= Len(image) => v \in Short \X Short
  BY <1>1, ValueOfPointer, HalvesRead
<1>3. Inside(s, a) <=> Inside(t, a)
  BY <1>1 DEF Alike
<1>4. ASSUME Inside(s, a) PROVE disassemble_data(image, s, st) = disassemble_data(image, t, st)
  <2>1. CASE a + 4 <= Len(image)
    <3>1. /\ Within(v, s.data, s.data_end) <=> Within(v, t.data, t.data_end)
          /\ Within(v, s.code, s.code_end) <=> Within(v, t.code, t.code_end)
      BY <1>1, <1>2, <1>4, <2>1 DEF Alike
    <3> QED BY <3>1 DEF disassemble_data
  <2>2. CASE a + 4 > Len(image)
    BY <2>2 DEF disassemble_data
  <2> QED BY <1>1, <2>1, <2>2
<1>5. CASE a >= Len(image)
  BY <1>1, <1>5 DEF disassemble_turn
<1>6. CASE a < Len(image) /\ Inside(s, a)
  BY <1>1, <1>3, <1>4, <1>6 DEF disassemble_turn, Inside
<1>7. CASE a < Len(image) /\ ~ Inside(s, a)
  BY <1>1, <1>3, <1>7 DEF disassemble_turn, Inside
<1> QED BY <1>1, <1>5, <1>6, <1>7

LEMMA DisassembleAlike ==
    ASSUME NEW image \in Seq(Byte), NEW s, NEW t, Alike(s, t)
    PROVE  disassemble(image, s) = disassemble(image, t)
<1> DEFINE N == Len(image)
           A == Turns(image, s)
           B == Turns(image, t)
           S == {k \in 0 .. N : A[k] = B[k]}
<1>1. N \in Nat
  OBVIOUS
<1>2. /\ \A k \in 0 .. N : A[k] \in Noting(image, s)
      /\ A[0] = B[0]
      /\ \A k \in 1 .. N : A[k] = disassemble_turn(image, s, A[k - 1])
      /\ \A k \in 1 .. N : B[k] = disassemble_turn(image, t, B[k - 1])
  BY TurnsNote
<1> HIDE DEF N, A, B
<1>3. 0 \in S
  BY <1>1, <1>2
<1>4. ASSUME NEW k \in 0 .. N - 1, k \in S PROVE k + 1 \in S
  <2>1. k + 1 \in 1 .. N /\ k + 1 - 1 = k /\ k \in 0 .. N /\ k + 1 \in 0 .. N
    BY <1>1
  <2>2. A[k + 1] = disassemble_turn(image, s, A[k]) /\ B[k + 1] = disassemble_turn(image, t, B[k])
    BY <1>2, <2>1
  <2>3. A[k] = B[k] /\ A[k] \in Noting(image, s)
    BY <1>2, <1>4, <2>1
  <2>4. disassemble_turn(image, s, A[k]) = disassemble_turn(image, t, A[k])
    BY <2>3, TurnAlike
  <2> QED BY <2>1, <2>2, <2>3, <2>4
<1> HIDE DEF S
<1>5. \A k \in 0 .. N : k \in S
  BY <1>1, <1>3, <1>4, InductionUpTo
<1>6. A[N] = B[N]
  BY <1>1, <1>5 DEF S
<1>7. disassemble(image, s) = A[N].found /\ disassemble(image, t) = B[N].found
  BY DEF disassemble, Turns, A, B, N
<1> QED BY <1>6, <1>7

LEMMA NotBelowZero == \A v \in Short \X Short : ~ Below(v, <<0, 0>>)
<1> SUFFICES ASSUME NEW x \in Short, NEW y \in Short PROVE ~ Below(<<x, y>>, <<0, 0>>)
  OBVIOUS
<1>1. x \in Int /\ 0 <= x /\ y \in Int /\ 0 <= y
  BY ShortIs
<1> QED BY SMT, <1>1 DEF Below

\* What the creator is told of the old image is what the applier makes of the patch.
SegmentFits(s) ==
    IF s.data_end = <<0, 0>> THEN s.offset_end <= s.offset
    ELSE s.offset_end = s.offset + Narrow(Minus(s.data_end, s.data))

LEMMA PatchAlike ==
    ASSUME program.segment.from \in Segment, SegmentFits(program.segment.from)
    PROVE  Alike(program.segment.from, SegmentOfPatch)
<1> DEFINE s == program.segment.from
           t == SegmentOfPatch
<1>1. s.offset \in Int /\ s.offset_end \in Int
  BY DEF Segment
<1>2. CASE s.data_end = <<0, 0>>
  <2>1. ~ Present("data")
    BY <1>2 DEF Present
  <2>2. t.offset = 0 /\ t.offset_end = 0
    BY <2>1 DEF SegmentOfPatch, NoSegment
  <2>3. s.offset_end <= s.offset
    BY <1>2 DEF SegmentFits
  <2> HIDE DEF s, t
  <2>4. \A at \in Nat : ~ Inside(s, at) /\ ~ Inside(t, at)
    BY <1>1, <2>2, <2>3 DEF Inside
  <2>5. Alike(s, t)
    BY <2>4 DEF Alike
  <2> QED BY <2>5 DEF s, t
<1>3. CASE s.data_end # <<0, 0>>
  <2>1. Present("data")
    BY <1>3 DEF Present
  <2>2. s.offset_end = s.offset + Narrow(Minus(s.data_end, s.data))
    BY <1>3 DEF SegmentFits
  <2>3. t.offset = s.offset /\ t.offset_end = s.offset_end /\ t.data = s.data /\ t.data_end = s.data_end
    BY <2>1, <2>2 DEF SegmentOfPatch, NoSegment
  <2>4. \/ t.code = s.code /\ t.code_end = s.code_end
        \/ t.code_end = <<0, 0>> /\ s.code_end = <<0, 0>>
    <3>1. CASE Present("code")
      BY <2>1, <3>1 DEF SegmentOfPatch, NoSegment
    <3>2. CASE ~ Present("code")
      <4>1. s.code_end = <<0, 0>>
        BY <3>2 DEF Present
      <4>2. t.code_end = <<0, 0>>
        BY <2>1, <3>2 DEF SegmentOfPatch, NoSegment
      <4> QED BY <4>1, <4>2
    <3> QED BY <3>1, <3>2
  <2> HIDE DEF s, t
  <2>5. \A v \in Short \X Short : Within(v, s.code, s.code_end) <=> Within(v, t.code, t.code_end)
    <3>1. CASE t.code = s.code /\ t.code_end = s.code_end
      BY <3>1
    <3>2. CASE t.code_end = <<0, 0>> /\ s.code_end = <<0, 0>>
      BY <3>2, NotBelowZero DEF Within
    <3> QED BY <2>4, <3>1, <3>2
  <2>6. Alike(s, t)
    BY <2>3, <2>5 DEF Alike, Inside
  <2> QED BY <2>6 DEF s, t
<1> QED BY <1>2, <1>3

\* The addresses of the words of a kind, in order.
LEMMA AddressesAre ==
    ASSUME NEW image \in Seq(Byte), NEW segment, NEW kind \in Kinds
    PROVE  AddressesIn(image, segment, kind) \in Seq(Words(image, segment, kind))
<1> DEFINE S == disassemble(image, segment)[kind]
           W == Words(image, segment, kind)
           A == AddressesIn(image, segment, kind)
<1>1. S \in SUBSET W
  BY Disassembled
<1>2. W \in SUBSET (0 .. Len(image)) /\ Len(image) \in Nat
  BY DEF Words
<1>3. A = Sorted(S)
  BY DEF AddressesIn
<1> HIDE DEF S, W, A
<1>4. IsFiniteSet(S) /\ S \in SUBSET Int
  <2>1. IsFiniteSet(0 .. Len(image))
    <3>1. 0 \in Int /\ Len(image) \in Int
      BY <1>2
    <3> QED BY <3>1, FS_Interval
  <2>2. S \in SUBSET (0 .. Len(image))
    BY <1>1, <1>2
  <2>3. IsFiniteSet(S)
    BY <2>1, <2>2, FS_Subset
  <2> QED BY <1>2, <2>2, <2>3
<1>5. A \in Seq(S)
  BY <1>3, <1>4, SortedLists
<1> HIDE DEF A
<1>6. A \in Seq(W)
  BY <1>1, <1>5
<1> QED BY <1>6 DEF A, W

-----------------------------------------------------------------------------
(* What the creator has encoded *)

ProgramType(p) ==
    /\ p.from \in Seq(Byte) /\ p.to \in Seq(Byte)
    /\ p.segment.from \in Segment /\ p.segment.to \in Segment

\* The addresses in the two images, runs of equal gaps, and the block that is made of one.
Froms(p, kind) == AddressesIn(p.from, p.segment.from, kind)
Tos(p, kind) == AddressesIn(p.to, p.segment.to, kind)

GoodRuns(p, kind) ==
    {r \in [from : Nat, to : Nat, size : Nat] :
        /\ r.from + r.size < Len(Froms(p, kind)) /\ r.to + r.size < Len(Tos(p, kind))
        /\ \A i \in 1 .. r.size :
             Froms(p, kind)[r.from + i + 1] - Froms(p, kind)[r.from + i]
               = Tos(p, kind)[r.to + i + 1] - Tos(p, kind)[r.to + i]}

BlockFrom(p, kind, r) ==
    [from_offset |-> r.from, to_address |-> Tos(p, kind)[r.to + 1],
     values |-> [i \in 1 .. r.size + 1 |->
        Minus(ValueAt(p.from, kind, Froms(p, kind)[r.from + i]),
              ValueAt(p.to, kind, Tos(p, kind)[r.to + i]))]]

GoodBlocks(p, kind) == {BlockFrom(p, kind, r) : r \in GoodRuns(p, kind)}

\* The entry for a value of a block, and all the entries.
EntryOf(kind, addresses, block, i) ==
    [kind |-> kind, from |-> addresses[block.from_offset + i],
     to |-> block.to_address + addresses[block.from_offset + i] - addresses[block.from_offset + 1],
     value |-> block.values[i]]
EntriesOf(p, kind, bs) ==
    UNION {{EntryOf(kind, Froms(p, kind), bs[b], i) : i \in DOMAIN bs[b].values} : b \in DOMAIN bs}
AllEntries(p, bs) == UNION {EntriesOf(p, kind, bs[kind]) : kind \in Kinds}

\* An entry takes a word of the old image to a word of the new one of the same kind.
GoodEntry(p, e) ==
    /\ e.kind \in Kinds
    /\ e.from \in Words(p.from, p.segment.from, e.kind)
    /\ e.to \in Words(p.to, p.segment.to, e.kind)
    /\ e.value = Minus(ValueAt(p.from, e.kind, e.from), ValueAt(p.to, e.kind, e.to))

Encoding(p, ff, ft, n, bs) ==
    /\ n \in 0 .. 6
    /\ bs \in [Kinds -> UNION {Seq(GoodBlocks(p, kind)) : kind \in Kinds}]
    /\ \A kind \in Kinds : bs[kind] \in Seq(GoodBlocks(p, kind))
    /\ \A k \in n + 1 .. 6 : bs[EncodeOrder[k]] = <<>>
    /\ ff = WithZeros(p.from, {e.from : e \in AllEntries(p, bs)})
    /\ ft = WithZeros(p.to, {e.to : e \in AllEntries(p, bs)})

LEMMA SeqWider ==
    ASSUME NEW S, NEW T, S \subseteq T, NEW s \in Seq(S)
    PROVE  s \in Seq(T)
  OBVIOUS

\* As far as gaps are equal, so are the distances from the first addresses.
GapsEqual(F, T, f, t, n) ==
    /\ f + n < Len(F) /\ t + n < Len(T)
    /\ \A i \in 1 .. n : F[f + i + 1] - F[f + i] = T[t + i + 1] - T[t + i]
DistanceEqual(F, T, f, t, j) == T[t + 1] + F[f + j] - F[f + 1] = T[t + j]

LEMMA EqualGaps ==
    ASSUME NEW F \in Seq(Int), NEW T \in Seq(Int), NEW f \in Nat, NEW t \in Nat, NEW n \in Nat,
           GapsEqual(F, T, f, t, n)
    PROVE  \A j \in 1 .. n + 1 : DistanceEqual(F, T, f, t, j)
<1> DEFINE S == {k \in 0 .. n : T[t + 1] + F[f + k + 1] - F[f + 1] = T[t + k + 1]}
<1>0. Len(F) \in Nat /\ Len(T) \in Nat
      /\ f + n < Len(F) /\ t + n < Len(T)
      /\ \A i \in 1 .. n : F[f + i + 1] - F[f + i] = T[t + i + 1] - T[t + i]
  BY DEF GapsEqual
<1>1. ASSUME NEW k \in 0 .. n PROVE F[f + k + 1] \in Int /\ T[t + k + 1] \in Int
  <2>1. f + k + 1 \in 1 .. Len(F)
    BY <1>0
  <2>2. t + k + 1 \in 1 .. Len(T)
    BY <1>0
  <2> QED BY <2>1, <2>2
<1>2. 0 \in S
  <2>1. f + 0 + 1 = f + 1 /\ t + 0 + 1 = t + 1 /\ 0 \in 0 .. n
    OBVIOUS
  <2>2. F[f + 1] \in Int /\ T[t + 1] \in Int
    BY <1>1, <2>1
  <2>3. T[t + 1] + F[f + 1] - F[f + 1] = T[t + 1]
    <3>1. \A x, y \in Int : x + y - y = x
      OBVIOUS
    <3> QED BY Zenon, <2>2, <3>1
  <2> QED BY <2>1, <2>3
<1>3. ASSUME NEW k \in 0 .. n - 1, k \in S PROVE k + 1 \in S
  <2>1. k + 1 \in 1 .. n /\ k \in 0 .. n /\ k + 1 \in 0 .. n
        /\ f + (k + 1) = f + k + 1 /\ t + (k + 1) = t + k + 1
    OBVIOUS
  <2>2. F[f + (k + 1) + 1] - F[f + k + 1] = T[t + (k + 1) + 1] - T[t + k + 1]
    BY <1>0, <2>1
  <2>3. F[f + k + 1] \in Int /\ T[t + k + 1] \in Int
        /\ F[f + (k + 1) + 1] \in Int /\ T[t + (k + 1) + 1] \in Int
    BY <1>1, <2>1
  <2>4. F[f + 1] \in Int /\ T[t + 1] \in Int
    <3>1. 0 \in 0 .. n /\ f + 0 + 1 = f + 1 /\ t + 0 + 1 = t + 1
      OBVIOUS
    <3> QED BY <1>1, <3>1
  <2>5. T[t + 1] + F[f + k + 1] - F[f + 1] = T[t + k + 1]
    BY <1>3
  <2> DEFINE f0 == F[f + 1]
             f1 == F[f + k + 1]
             f2 == F[f + (k + 1) + 1]
             t0 == T[t + 1]
             t1 == T[t + k + 1]
             t2 == T[t + (k + 1) + 1]
  <2> HIDE DEF f0, f1, f2, t0, t1, t2
  <2>6. /\ f0 \in Int /\ f1 \in Int /\ f2 \in Int /\ t0 \in Int /\ t1 \in Int /\ t2 \in Int
        /\ f2 - f1 = t2 - t1 /\ t0 + f1 - f0 = t1
    BY <2>2, <2>3, <2>4, <2>5 DEF f0, f1, f2, t0, t1, t2
  <2>7. t0 + f2 - f0 = t2
    BY <2>6
  <2> QED BY <2>1, <2>7 DEF f0, f2, t0, t2
<1> HIDE DEF S
<1>4. \A k \in 0 .. n : k \in S
  BY <1>2, <1>3, InductionUpTo
<1>5. ASSUME NEW i \in 1 .. n + 1 PROVE DistanceEqual(F, T, f, t, i)
  <2>1. PICK k \in 0 .. n : i = k + 1
    <3>1. i - 1 \in 0 .. n /\ i = (i - 1) + 1
      OBVIOUS
    <3> QED BY <3>1
  <2>2. f + i = f + k + 1 /\ t + i = t + k + 1
    BY <2>1
  <2>3. T[t + 1] + F[f + k + 1] - F[f + 1] = T[t + k + 1]
    BY <1>4 DEF S
  <2> QED BY <2>2, <2>3 DEF DistanceEqual
<1> QED BY <1>5

\* The entries of a block that is made of a run.
LEMMA RunEntries ==
    ASSUME NEW p, ProgramType(p), NEW kind \in Kinds, NEW r \in GoodRuns(p, kind),
           NEW i \in 1 .. r.size + 1
    PROVE  LET e == EntryOf(kind, Froms(p, kind), BlockFrom(p, kind, r), i)
           IN  /\ GoodEntry(p, e)
               /\ e.kind = kind
               /\ e.from = Froms(p, kind)[r.from + i] /\ e.to = Tos(p, kind)[r.to + i]
<1> DEFINE F == Froms(p, kind)
           T == Tos(p, kind)
           WF == Words(p.from, p.segment.from, kind)
           WT == Words(p.to, p.segment.to, kind)
           b == BlockFrom(p, kind, r)
           e == EntryOf(kind, F, b, i)
           V(j) == Minus(ValueAt(p.from, kind, F[r.from + j]), ValueAt(p.to, kind, T[r.to + j]))
<1>1. F \in Seq(WF) /\ T \in Seq(WT)
  BY AddressesAre DEF ProgramType, Froms, Tos
<1>2. WF \subseteq Int /\ WT \subseteq Int
  BY DEF Words
<1>3. /\ r.from \in Nat /\ r.to \in Nat /\ r.size \in Nat
      /\ r.from + r.size < Len(F) /\ r.to + r.size < Len(T)
      /\ \A j \in 1 .. r.size : F[r.from + j + 1] - F[r.from + j] = T[r.to + j + 1] - T[r.to + j]
  BY DEF GoodRuns
<1>4. b.from_offset = r.from /\ b.to_address = T[r.to + 1] /\ b.values[i] = V(i)
  BY DEF BlockFrom
<1>5. /\ e.kind = kind /\ e.from = F[b.from_offset + i] /\ e.value = b.values[i]
      /\ e.to = b.to_address + F[b.from_offset + i] - F[b.from_offset + 1]
  BY DEF EntryOf
<1> HIDE DEF F, T, WF, WT, b, e
<1>6. F \in Seq(Int) /\ T \in Seq(Int)
  BY <1>1, <1>2, SeqWider
<1>7. T[r.to + 1] + F[r.from + i] - F[r.from + 1] = T[r.to + i]
  <2>1. GapsEqual(F, T, r.from, r.to, r.size)
    BY <1>3 DEF GapsEqual
  <2>2. PICK f \in Nat, t \in Nat, n \in Nat : f = r.from /\ t = r.to /\ n = r.size
    BY <1>3
  <2>3. GapsEqual(F, T, f, t, n) /\ i \in 1 .. n + 1
    BY <2>1, <2>2
  <2>4. DistanceEqual(F, T, f, t, i)
    BY <1>6, <2>3, EqualGaps
  <2> QED BY <2>2, <2>4 DEF DistanceEqual
<1>8. e.from = F[r.from + i] /\ e.to = T[r.to + i] /\ e.value = V(i)
  BY <1>4, <1>5, <1>7
<1>9. F[r.from + i] \in WF /\ T[r.to + i] \in WT
  <2>1. Len(F) \in Nat /\ Len(T) \in Nat
    BY <1>6
  <2>2. r.from + i \in 1 .. Len(F)
    BY <1>3, <2>1
  <2>3. r.to + i \in 1 .. Len(T)
    BY <1>3, <2>1, SMTT(30)
  <2> QED BY <1>1, <2>2, <2>3
<1>10. GoodEntry(p, e)
  BY <1>5, <1>8, <1>9 DEF GoodEntry, WF, WT
<1> QED BY <1>5, <1>8, <1>10 DEF e, F, T, b

LEMMA GapsAre ==
    ASSUME NEW A \in Seq(Int)
    PROVE  /\ Len(Gaps(A)) \in Nat /\ (Len(Gaps(A)) = 0 \/ Len(Gaps(A)) = Len(A) - 1)
           /\ \A i \in 1 .. Len(Gaps(A)) : Gaps(A)[i] = A[i + 1] - A[i]
<1> DEFINE n == Len(A) - 1
           g == [i \in 1 .. n |-> A[i + 1] - A[i]]
<1>1. Len(A) \in Nat /\ n \in Int /\ Gaps(A) = g
  BY DEF Gaps
<1>2. CASE n \in Nat
  <2>1. Len(g) = n
    <3> HIDE DEF n
    <3> QED BY <1>2
  <2> QED BY <1>1, <1>2, <2>1
<1>3. CASE n \notin Nat
  <2> DEFINE z == [i \in 1 .. 0 |-> A[i + 1] - A[i]]
  <2>1. 1 .. n = 1 .. 0
    BY <1>1, <1>3
  <2>2. g = z
    BY <2>1
  <2>3. Len(z) = 0
    OBVIOUS
  <2> HIDE DEF z
  <2>4. Len(Gaps(A)) = 0
    BY <1>1, <2>2, <2>3
  <2> QED BY <2>4
<1> QED BY <1>2, <1>3

\* Every run that matches is one of equal gaps.
LEMMA RunsGood ==
    ASSUME NEW p, ProgramType(p), NEW kind \in Kinds,
           NEW r \in Runs(Gaps(Froms(p, kind)), Gaps(Tos(p, kind)))
    PROVE  r \in GoodRuns(p, kind)
<1> DEFINE F == Froms(p, kind)
           T == Tos(p, kind)
           g == Gaps(F)
           h == Gaps(T)
<1>1. F \in Seq(Int) /\ T \in Seq(Int)
  <2>1. /\ F \in Seq(Words(p.from, p.segment.from, kind))
        /\ T \in Seq(Words(p.to, p.segment.to, kind))
    BY AddressesAre DEF ProgramType, Froms, Tos
  <2>2. /\ Words(p.from, p.segment.from, kind) \subseteq Int
        /\ Words(p.to, p.segment.to, kind) \subseteq Int
    BY DEF Words
  <2> HIDE DEF F, T
  <2> QED BY <2>1, <2>2, SeqWider
<1>2. /\ r \in [from : 0 .. Len(g), to : 0 .. Len(h), size : 1 .. Len(g)]
      /\ r.from + r.size <= Len(g) /\ r.to + r.size <= Len(h)
      /\ \A i \in 1 .. r.size : g[r.from + i] = h[r.to + i]
  BY DEF Runs
<1> HIDE DEF F, T
<1>3. /\ Len(g) \in Nat /\ (Len(g) = 0 \/ Len(g) = Len(F) - 1)
      /\ \A i \in 1 .. Len(g) : g[i] = F[i + 1] - F[i]
  BY <1>1, GapsAre
<1>4. /\ Len(h) \in Nat /\ (Len(h) = 0 \/ Len(h) = Len(T) - 1)
      /\ \A i \in 1 .. Len(h) : h[i] = T[i + 1] - T[i]
  BY <1>1, GapsAre
<1> HIDE DEF g, h
<1>5. r.from \in Nat /\ r.to \in Nat /\ r.size \in Nat /\ r.size >= 1 /\ r \in [from : Nat, to : Nat, size : Nat]
  BY <1>2, <1>3, <1>4
<1>6. Len(F) \in Nat /\ Len(T) \in Nat
  BY <1>1
<1>9. PICK f \in Nat, t \in Nat, n \in Nat : f = r.from /\ t = r.to /\ n = r.size
  BY <1>5
<1>10. n >= 1 /\ f + n <= Len(g) /\ t + n <= Len(h)
  BY <1>2, <1>5, <1>9
<1>7. r.from + r.size < Len(F) /\ r.to + r.size < Len(T)
  <2>1. f + n < Len(F)
    BY <1>3, <1>6, <1>10
  <2>2. t + n < Len(T)
    BY <1>4, <1>6, <1>10
  <2> QED BY <1>9, <2>1, <2>2
<1>8. ASSUME NEW i \in 1 .. r.size
      PROVE  F[r.from + i + 1] - F[r.from + i] = T[r.to + i + 1] - T[r.to + i]
  <2>1. r.from + i \in 1 .. Len(g) /\ r.to + i \in 1 .. Len(h)
    <3>1. i \in 1 .. n
      BY <1>9
    <3>2. f + i \in 1 .. Len(g)
      BY <1>3, <1>10, <3>1
    <3>3. t + i \in 1 .. Len(h)
      BY <1>4, <1>10, <3>1
    <3> QED BY <1>9, <3>2, <3>3
  <2>2. g[r.from + i] = h[r.to + i]
    BY <1>2
  <2>3. g[r.from + i] = F[r.from + i + 1] - F[r.from + i]
    BY <1>3, <2>1
  <2>4. h[r.to + i] = T[r.to + i + 1] - T[r.to + i]
    BY <1>4, <2>1
  <2> QED BY <2>2, <2>3, <2>4
<1> QED BY <1>5, <1>7, <1>8 DEF GoodRuns, F, T

\* Runs that are apart can be put in order.
LEMMA ApartLists ==
    ASSUME NEW n \in Nat, NEW R,
           \A r \in R : r.from \in 0 .. n /\ r.size \in 1 .. n,
           \A r, q \in R : r = q \/ r.from + r.size <= q.from \/ q.from + q.size <= r.from
    PROVE  LET runs == InOrder(R, [r \in R |-> r.from])
           IN  runs \in Seq(R) /\ \A r \in R : \E i \in 1 .. Len(runs) : runs[i] = r
<1> DEFINE key == [r \in R |-> r.from]
           runs == InOrder(R, key)
<1>1. key \in [R -> 0 .. n] /\ \A r \in R : key[r] = r.from
  OBVIOUS
<1>2. ASSUME NEW r \in R, NEW q \in R, key[r] = key[q] PROVE r = q
  <2>1. r.from = q.from /\ r.from \in Int /\ r.size \in Int /\ q.size \in Int /\ r.size >= 1 /\ q.size >= 1
    BY <1>1, <1>2
  <2>2. r = q \/ r.from + r.size <= q.from \/ q.from + q.size <= r.from
    OBVIOUS
  <2> QED BY <2>1, <2>2
<1> HIDE DEF key
<1>3. IsFiniteSet(R)
  <2>1. key \in Injection(R, 0 .. n)
    BY <1>1, <1>2 DEF Injection, IsInjective
  <2>2. IsFiniteSet(0 .. n)
    BY FS_Interval
  <2> QED BY <2>1, <2>2, FS_Injection
<1>4. key \in [R -> Int]
  BY <1>1
<1>5. /\ Cardinality(R) \in Nat /\ runs \in [1 .. Cardinality(R) -> R]
      /\ \A r \in R : \E i \in 1 .. Cardinality(R) : runs[i] = r
  BY <1>2, <1>3, <1>4, InOrderLists
<1> HIDE DEF runs
<1>6. runs \in Seq(R) /\ Len(runs) = Cardinality(R)
  BY <1>5
<1> QED BY <1>5, <1>6 DEF runs, key

LEMMA WithZerosTwice ==
    ASSUME NEW image, NEW A, NEW B
    PROVE  WithZeros(WithZeros(image, A), B) = WithZeros(image, A \cup B)
  BY DEF WithZeros

LEMMA OrderIs ==
    /\ \A k \in 1 .. 6 : EncodeOrder[k] \in Kinds
    /\ \A j, k \in 1 .. 6 : EncodeOrder[j] = EncodeOrder[k] => j = k
    /\ Len(EncodeOrder) = 6
<1>1. /\ EncodeOrder[1] = "data" /\ EncodeOrder[2] = "code" /\ EncodeOrder[3] = "bw"
      /\ EncodeOrder[4] = "bl" /\ EncodeOrder[5] = "ldr" /\ EncodeOrder[6] = "ldr_w"
      /\ Len(EncodeOrder) = 6
  BY DEF EncodeOrder
<1>2. \A k \in 1 .. 6 : k = 1 \/ k = 2 \/ k = 3 \/ k = 4 \/ k = 5 \/ k = 6
  OBVIOUS
<1>3. ASSUME NEW k \in 1 .. 6 PROVE EncodeOrder[k] \in Kinds
  BY <1>1, <1>2, KindsAre
<1>4. ASSUME NEW j \in 1 .. 6, NEW k \in 1 .. 6, EncodeOrder[j] = EncodeOrder[k] PROVE j = k
  <2>1. j = 1 \/ j = 2 \/ j = 3 \/ j = 4 \/ j = 5 \/ j = 6
    OBVIOUS
  <2> QED BY <1>1, <1>2, <1>4, <2>1
<1> QED BY <1>1, <1>3, <1>4

\* A kind is encoded with blocks of its own, or left out.
LEMMA KindEncoded ==
    ASSUME NEW p, NEW ff, NEW ft, NEW n \in 0 .. 5, NEW bs, Encoding(p, ff, ft, n, bs),
           NEW kind, kind = EncodeOrder[n + 1], NEW new \in Seq(GoodBlocks(p, kind))
    PROVE  Encoding(p, WithZeros(ff, {e.from : e \in EntriesOf(p, kind, new)}),
                    WithZeros(ft, {e.to : e \in EntriesOf(p, kind, new)}),
                    n + 1, [bs EXCEPT ![kind] = new])
<1> DEFINE cs == [bs EXCEPT ![kind] = new]
           E == EntriesOf(p, kind, new)
           A == AllEntries(p, bs)
           B == AllEntries(p, cs)
           G == UNION {Seq(GoodBlocks(p, k)) : k \in Kinds}
<1>0. n + 1 \in 0 .. 6 /\ n + 1 \in 1 .. 6 /\ n + 1 \in n + 1 .. 6
  OBVIOUS
<1>1. kind \in Kinds
  BY <1>0, OrderIs
<1>2. /\ bs \in [Kinds -> G] /\ \A k \in Kinds : bs[k] \in Seq(GoodBlocks(p, k))
      /\ \A k \in n + 1 .. 6 : bs[EncodeOrder[k]] = <<>>
      /\ ff = WithZeros(p.from, {e.from : e \in A}) /\ ft = WithZeros(p.to, {e.to : e \in A})
  BY DEF Encoding
<1>3. new \in G
  BY <1>1
<1>4. /\ cs \in [Kinds -> G] /\ cs[kind] = new
      /\ \A k \in Kinds : k # kind => cs[k] = bs[k]
  <2> HIDE DEF G
  <2> QED BY <1>1, <1>2, <1>3
<1>5. \A k \in Kinds : cs[k] \in Seq(GoodBlocks(p, k))
  <2> SUFFICES ASSUME NEW k \in Kinds PROVE cs[k] \in Seq(GoodBlocks(p, k))
    OBVIOUS
  <2> HIDE DEF cs
  <2> QED BY <1>2, <1>4
<1> HIDE DEF cs, G
<1>6. ASSUME NEW k \in n + 2 .. 6 PROVE cs[EncodeOrder[k]] = <<>>
  <2>1. k \in 1 .. 6 /\ k # n + 1 /\ k \in n + 1 .. 6
    OBVIOUS
  <2>2. EncodeOrder[k] # kind /\ EncodeOrder[k] \in Kinds
    BY <1>0, <2>1, OrderIs
  <2> QED BY <1>2, <1>4, <2>1, <2>2
<1>7. EntriesOf(p, kind, bs[kind]) = {}
  <2>1. bs[kind] = <<>>
    BY <1>0, <1>2
  <2>2. DOMAIN bs[kind] = {}
    BY <2>1
  <2> QED BY <2>2 DEF EntriesOf
<1>8. B = A \cup E
  <2> DEFINE fa == [k \in Kinds |-> EntriesOf(p, k, bs[k])]
             fb == [k \in Kinds |-> EntriesOf(p, k, cs[k])]
  <2>1. A = UNION {fa[k] : k \in Kinds} /\ B = UNION {fb[k] : k \in Kinds}
    BY DEF AllEntries
  <2>2. fa[kind] = {} /\ fb[kind] = E
    BY <1>1, <1>4, <1>7
  <2>3. \A k \in Kinds : k # kind => fa[k] = fb[k]
    BY <1>4
  <2> HIDE DEF fa, fb, A, B, E
  <2> QED BY <1>1, <2>1, <2>2, <2>3
<1> HIDE DEF A, B, E
<1>9. /\ WithZeros(ff, {e.from : e \in E}) = WithZeros(p.from, {e.from : e \in B})
      /\ WithZeros(ft, {e.to : e \in E}) = WithZeros(p.to, {e.to : e \in B})
  <2> DEFINE FA == {e.from : e \in A}
             FB == {e.from : e \in B}
             FE == {e.from : e \in E}
             TA == {e.to : e \in A}
             TB == {e.to : e \in B}
             TE == {e.to : e \in E}
  <2>1. FB = FA \cup FE
    BY <1>8
  <2>2. TB = TA \cup TE
    BY <1>8
  <2>3. ff = WithZeros(p.from, FA) /\ ft = WithZeros(p.to, TA)
    BY <1>2
  <2> HIDE DEF FA, FB, FE, TA, TB, TE
  <2>4. WithZeros(ff, FE) = WithZeros(p.from, FB) /\ WithZeros(ft, TE) = WithZeros(p.to, TB)
    BY <2>1, <2>2, <2>3, WithZerosTwice
  <2> QED BY <2>4 DEF FB, FE, TB, TE
<1>10. \A k \in (n + 1) + 1 .. 6 : cs[EncodeOrder[k]] = <<>>
  <2>1. (n + 1) + 1 = n + 2
    OBVIOUS
  <2> QED BY <1>6, <2>1
<1> QED BY <1>0, <1>4, <1>5, <1>9, <1>10 DEF Encoding, B, E, cs, G

LEMMA KindSkipped ==
    ASSUME NEW p, NEW ff, NEW ft, NEW n \in 0 .. 5, NEW bs, Encoding(p, ff, ft, n, bs)
    PROVE  Encoding(p, ff, ft, n + 1, bs)
<1>1. n + 1 \in 0 .. 6 /\ \A k \in (n + 1) + 1 .. 6 : k \in n + 1 .. 6
  OBVIOUS
<1> QED BY <1>1 DEF Encoding

\* The addresses in the blocks of runs are those of the runs.
Enumerates(runs, R) == runs \in Seq(R) /\ \A r \in R : \E i \in 1 .. Len(runs) : runs[i] = r
BlocksFrom(p, kind, runs) == [i \in DOMAIN runs |-> BlockFrom(p, kind, runs[i])]
MadeOf(p, kind, R, new) ==
    /\ new \in Seq(GoodBlocks(p, kind))
    /\ {e.from : e \in EntriesOf(p, kind, new)}
         = UNION {{Froms(p, kind)[r.from + i] : i \in 1 .. r.size + 1} : r \in R}
    /\ {e.to : e \in EntriesOf(p, kind, new)}
         = UNION {{Tos(p, kind)[r.to + i] : i \in 1 .. r.size + 1} : r \in R}

LEMMA RunsEntries ==
    ASSUME NEW p, ProgramType(p), NEW kind \in Kinds, NEW R \in SUBSET GoodRuns(p, kind),
           NEW runs, Enumerates(runs, R)
    PROVE  MadeOf(p, kind, R, BlocksFrom(p, kind, runs))
<1> DEFINE new == BlocksFrom(p, kind, runs)
<1>0. /\ runs \in Seq(R) /\ \A r \in R : \E i \in 1 .. Len(runs) : runs[i] = r
      /\ new = [i \in DOMAIN runs |-> BlockFrom(p, kind, runs[i])]
  BY DEF Enumerates, BlocksFrom
<1> HIDE DEF new
<1> DEFINE F == Froms(p, kind)
           T == Tos(p, kind)
           E == EntriesOf(p, kind, new)
           Entry(r, i) == EntryOf(kind, F, BlockFrom(p, kind, r), i)
<1>1. DOMAIN runs = 1 .. Len(runs) /\ Len(runs) \in Nat /\ \A i \in 1 .. Len(runs) : runs[i] \in R
  BY <1>0
<1>2. new \in Seq(GoodBlocks(p, kind))
  <2>1. new \in [1 .. Len(runs) -> GoodBlocks(p, kind)]
    BY <1>0, <1>1 DEF GoodBlocks
  <2> QED BY <1>1, <2>1
<1>3. \A r \in R : r.size \in Nat /\ DOMAIN BlockFrom(p, kind, r).values = 1 .. r.size + 1
  BY DEF GoodRuns, BlockFrom
<1>4. DOMAIN new = 1 .. Len(runs) /\ \A b \in 1 .. Len(runs) : new[b] = BlockFrom(p, kind, runs[b])
  BY <1>0, <1>1
<1>5. ASSUME NEW e \in E PROVE \E r \in R : \E i \in 1 .. r.size + 1 : e = Entry(r, i)
  <2>1. PICK b \in DOMAIN new : \E i \in DOMAIN new[b].values : e = EntryOf(kind, F, new[b], i)
    BY DEF EntriesOf
  <2>2. new[b] = BlockFrom(p, kind, runs[b]) /\ runs[b] \in R
    BY <1>1, <1>4
  <2>3. PICK i \in 1 .. runs[b].size + 1 : e = Entry(runs[b], i)
    BY <1>3, <2>1, <2>2
  <2> QED BY <2>2, <2>3
<1>6. ASSUME NEW r \in R, NEW i \in 1 .. r.size + 1 PROVE Entry(r, i) \in E
  <2>1. PICK b \in 1 .. Len(runs) : runs[b] = r
    BY <1>0
  <2>2. b \in DOMAIN new /\ new[b] = BlockFrom(p, kind, r) /\ i \in DOMAIN new[b].values
    BY <1>3, <1>4, <2>1
  <2>3. Entry(r, i) \in {EntryOf(kind, F, new[b], j) : j \in DOMAIN new[b].values}
    BY <2>2
  <2> QED BY <2>2, <2>3 DEF EntriesOf
<1>7. ASSUME NEW r \in R, NEW i \in 1 .. r.size + 1
      PROVE  Entry(r, i).from = F[r.from + i] /\ Entry(r, i).to = T[r.to + i]
  BY RunEntries
<1> HIDE DEF F, T, E, Entry
<1>8. {e.from : e \in E} = UNION {{F[r.from + i] : i \in 1 .. r.size + 1} : r \in R}
  <2> DEFINE X == {e.from : e \in E}
             Y == UNION {{F[r.from + i] : i \in 1 .. r.size + 1} : r \in R}
  <2>1. ASSUME NEW x \in X PROVE x \in Y
    <3>1. PICK e \in E : x = e.from
      OBVIOUS
    <3>2. PICK r \in R : \E i \in 1 .. r.size + 1 : e = Entry(r, i)
      BY <1>5
    <3>3. PICK i \in 1 .. r.size + 1 : e = Entry(r, i)
      BY <3>2
    <3>4. x = F[r.from + i]
      BY <1>7, <3>1, <3>3
    <3> QED BY <3>4
  <2>2. ASSUME NEW x \in Y PROVE x \in X
    <3>1. PICK r \in R : \E i \in 1 .. r.size + 1 : x = F[r.from + i]
      OBVIOUS
    <3>2. PICK i \in 1 .. r.size + 1 : x = F[r.from + i]
      BY <3>1
    <3>3. Entry(r, i) \in E /\ Entry(r, i).from = x
      BY <1>6, <1>7, <3>2
    <3> QED BY <3>3
  <2> HIDE DEF X, Y
  <2>3. X = Y
    BY <2>1, <2>2
  <2> QED BY <2>3 DEF X, Y
<1>9. {e.to : e \in E} = UNION {{T[r.to + i] : i \in 1 .. r.size + 1} : r \in R}
  <2> DEFINE X == {e.to : e \in E}
             Y == UNION {{T[r.to + i] : i \in 1 .. r.size + 1} : r \in R}
  <2>1. ASSUME NEW x \in X PROVE x \in Y
    <3>1. PICK e \in E : x = e.to
      OBVIOUS
    <3>2. PICK r \in R : \E i \in 1 .. r.size + 1 : e = Entry(r, i)
      BY <1>5
    <3>3. PICK i \in 1 .. r.size + 1 : e = Entry(r, i)
      BY <3>2
    <3>4. x = T[r.to + i]
      BY <1>7, <3>1, <3>3
    <3> QED BY <3>4
  <2>2. ASSUME NEW x \in Y PROVE x \in X
    <3>1. PICK r \in R : \E i \in 1 .. r.size + 1 : x = T[r.to + i]
      OBVIOUS
    <3>2. PICK i \in 1 .. r.size + 1 : x = T[r.to + i]
      BY <3>1
    <3>3. Entry(r, i) \in E /\ Entry(r, i).to = x
      BY <1>6, <1>7, <3>2
    <3> QED BY <3>3
  <2> HIDE DEF X, Y
  <2>3. X = Y
    BY <2>1, <2>2
  <2> QED BY <2>3 DEF X, Y
<1> QED BY <1>2, <1>8, <1>9 DEF MadeOf, E, F, T, new

\* EncodeKind encodes the next kind of words.
LEMMA EncodeKindEncodes ==
    ASSUME ProgramType(program), Encoding(program, ffrom, fto, encoded, blocks), EncodeKind
    PROVE  program' = program /\ Encoding(program, ffrom', fto', encoded', blocks')
<1> DEFINE kind == EncodeOrder[encoded + 1]
           F == Froms(program, kind)
           T == Tos(program, kind)
<1>1. /\ program' = program /\ encoded' = encoded + 1 /\ encoded < Len(EncodeOrder)
      /\ IF Present(kind) THEN create_patch_block(kind) ELSE UNCHANGED <<ffrom, fto, blocks>>
  BY DEF EncodeKind
<1>2. encoded \in 0 .. 5
  <2>1. encoded \in 0 .. 6
    BY DEF Encoding
  <2> QED BY <1>1, <2>1, OrderIs
<1>3. kind \in Kinds
  <2>1. encoded + 1 \in 1 .. 6
    BY <1>2
  <2> QED BY <2>1, OrderIs
<1>4. CASE ~ Present(kind)
  <2>1. ffrom' = ffrom /\ fto' = fto /\ blocks' = blocks
    BY <1>1, <1>4
  <2>2. Encoding(program, ffrom, fto, encoded + 1, blocks)
    BY <1>2, KindSkipped
  <2> QED BY <1>1, <2>1, <2>2
<1>5. CASE Present(kind)
  <2>1. PICK matching \in get_matching_blocks(F, T) :
            LET kept == {r \in matching :
                            /\ r.size >= MinBlockSize
                            /\ Nonzero(BlockOf(kind, F, T, r).values) >= MinBlockSize}
                runs == InOrder(kept, [r \in kept |-> r.from])
            IN  /\ blocks' = [blocks EXCEPT ![kind] =
                                [i \in DOMAIN runs |-> BlockOf(kind, F, T, runs[i])]]
                /\ ffrom' = WithZeros(ffrom, UNION {{F[r.from + i] : i \in 1 .. r.size + 1} : r \in kept})
                /\ fto' = WithZeros(fto, UNION {{T[r.to + i] : i \in 1 .. r.size + 1} : r \in kept})
    BY <1>1, <1>5 DEF create_patch_block, Froms, Tos
  <2> DEFINE kept == {r \in matching :
                            /\ r.size >= MinBlockSize
                            /\ Nonzero(BlockOf(kind, F, T, r).values) >= MinBlockSize}
             runs == InOrder(kept, [r \in kept |-> r.from])
             new == [i \in DOMAIN runs |-> BlockFrom(program, kind, runs[i])]
             E == EntriesOf(program, kind, new)
             n == Len(Gaps(F))
  <2>2. kept \in SUBSET Runs(Gaps(F), Gaps(T))
        /\ \A r, q \in kept : r = q \/ r.from + r.size <= q.from \/ q.from + q.size <= r.from
    BY DEF get_matching_blocks
  <2>3. \A r : BlockOf(kind, F, T, r) = BlockFrom(program, kind, r)
    BY DEF BlockOf, BlockFrom
  <2>4. new = [i \in DOMAIN runs |-> BlockOf(kind, F, T, runs[i])]
    BY <2>3
  <2>5. /\ blocks' = [blocks EXCEPT ![kind] = new]
        /\ ffrom' = WithZeros(ffrom, UNION {{F[r.from + i] : i \in 1 .. r.size + 1} : r \in kept})
        /\ fto' = WithZeros(fto, UNION {{T[r.to + i] : i \in 1 .. r.size + 1} : r \in kept})
    BY <2>1, <2>4
  <2>6. \A r \in kept : r.from \in 0 .. n /\ r.size \in 1 .. n
    <3> HIDE DEF kept, F, T
    <3> QED BY <2>2 DEF Runs
  <2>7. n \in Nat
    <3>1. F \in Seq(Words(program.from, program.segment.from, kind))
      BY <1>3, AddressesAre DEF ProgramType, Froms
    <3>2. Words(program.from, program.segment.from, kind) \subseteq Int
      BY DEF Words
    <3> HIDE DEF F
    <3>3. F \in Seq(Int)
      BY <3>1, <3>2, SeqWider
    <3> QED BY <3>3, GapsAre
  <2>8. runs \in Seq(kept) /\ \A r \in kept : \E i \in 1 .. Len(runs) : runs[i] = r
    <3> HIDE DEF kept, n
    <3> QED BY <2>2, <2>6, <2>7, ApartLists DEF runs
  <2>9. kept \in SUBSET GoodRuns(program, kind)
    <3> HIDE DEF kept
    <3> QED BY <1>3, <2>2, RunsGood
  <2> HIDE DEF kept, runs, kind
  <2>10. /\ new \in Seq(GoodBlocks(program, kind))
         /\ {e.from : e \in E} = UNION {{F[r.from + i] : i \in 1 .. r.size + 1} : r \in kept}
         /\ {e.to : e \in E} = UNION {{T[r.to + i] : i \in 1 .. r.size + 1} : r \in kept}
    <3>1. Enumerates(runs, kept)
      BY <2>8 DEF Enumerates
    <3>2. MadeOf(program, kind, kept, BlocksFrom(program, kind, runs))
      BY <1>3, <2>9, <3>1, RunsEntries
    <3>3. BlocksFrom(program, kind, runs) = new
      BY DEF BlocksFrom
    <3> QED BY <3>2, <3>3 DEF MadeOf
  <2> HIDE DEF new, F, T
  <2>11. ffrom' = WithZeros(ffrom, {e.from : e \in E}) /\ fto' = WithZeros(fto, {e.to : e \in E})
    BY <2>5, <2>10
  <2>12. Encoding(program, WithZeros(ffrom, {e.from : e \in E}), WithZeros(fto, {e.to : e \in E}),
                  encoded + 1, [blocks EXCEPT ![kind] = new])
    BY <1>2, <2>10, KindEncoded DEF kind
  <2> HIDE DEF E
  <2>13. Encoding(program, ffrom', fto', encoded', blocks')
    BY <1>1, <2>5, <2>11, <2>12
  <2> QED BY <1>1, <2>13
<1> QED BY <1>4, <1>5

LEMMA EncodeStarts ==
    ASSUME ProgramType(program), EncodeInit
    PROVE  Encoding(program, ffrom, fto, encoded, blocks)
<1>1. ffrom = program.from /\ fto = program.to /\ encoded = 0 /\ blocks = [kind \in Kinds |-> <<>>]
  BY DEF EncodeInit
<1>2. \A kind \in Kinds : blocks[kind] = <<>> /\ DOMAIN blocks[kind] = {}
  BY <1>1
<1>3. \A kind \in Kinds : EntriesOf(program, kind, blocks[kind]) = {}
  BY <1>2 DEF EntriesOf
<1>4. AllEntries(program, blocks) = {}
  BY <1>3 DEF AllEntries
<1>5. \A image \in Seq(Byte) : WithZeros(image, {}) = image
  BY DEF WithZeros
<1>6. \A kind \in Kinds : blocks[kind] \in Seq(GoodBlocks(program, kind))
  <2>1. \A kind \in Kinds : <<>> \in Seq(GoodBlocks(program, kind))
    OBVIOUS
  <2> QED BY <1>2, <2>1
<1>7. blocks \in [Kinds -> UNION {Seq(GoodBlocks(program, kind)) : kind \in Kinds}]
  BY <1>1, <1>6
<1>8. \A k \in encoded + 1 .. 6 : blocks[EncodeOrder[k]] = <<>>
  <2>1. \A k \in encoded + 1 .. 6 : k \in 1 .. 6
    BY <1>1
  <2> QED BY <1>2, <2>1, OrderIs
<1>9. {e.from : e \in AllEntries(program, blocks)} = {} /\ {e.to : e \in AllEntries(program, blocks)} = {}
  BY <1>4
<1>10. /\ ffrom = WithZeros(program.from, {e.from : e \in AllEntries(program, blocks)})
       /\ fto = WithZeros(program.to, {e.to : e \in AllEntries(program, blocks)})
  BY <1>1, <1>5, <1>9 DEF ProgramType
<1>11. encoded \in 0 .. 6
  BY <1>1
<1> QED BY <1>6, <1>7, <1>8, <1>10, <1>11 DEF Encoding

-----------------------------------------------------------------------------
(* What the readers make of the blocks *)

Elements(s) == {s[i] : i \in 1 .. Len(s)}

LEMMA ConcatElements ==
    ASSUME NEW S, NEW s \in Seq(S), NEW t \in Seq(S)
    PROVE  s \o t \in Seq(S) /\ Elements(s \o t) = Elements(s) \cup Elements(t)
<1> DEFINE u == s \o t
<1>1. /\ Len(s) \in Nat /\ Len(t) \in Nat
      /\ u \in Seq(S) /\ Len(u) = Len(s) + Len(t)
      /\ \A i \in 1 .. Len(s) : u[i] = s[i]
      /\ \A i \in 1 .. Len(t) : u[Len(s) + i] = t[i]
  BY ConcatProperties
<1> HIDE DEF u
<1>2. ASSUME NEW x \in Elements(u) PROVE x \in Elements(s) \cup Elements(t)
  <2>1. PICK i \in 1 .. Len(u) : x = u[i]
    BY DEF Elements
  <2>2. CASE i <= Len(s)
    <3>1. i \in 1 .. Len(s)
      BY <1>1, <2>2
    <3> QED BY <1>1, <2>1, <3>1 DEF Elements
  <2>3. CASE i > Len(s)
    <3>1. i - Len(s) \in 1 .. Len(t) /\ Len(s) + (i - Len(s)) = i
      BY <1>1, <2>3
    <3>2. x = t[i - Len(s)]
      BY <1>1, <2>1, <3>1
    <3> QED BY <3>1, <3>2 DEF Elements
  <2> QED BY <1>1, <2>2, <2>3
<1>3. ASSUME NEW x \in Elements(s) PROVE x \in Elements(u)
  <2>1. PICK i \in 1 .. Len(s) : x = s[i]
    BY DEF Elements
  <2>2. i \in 1 .. Len(u) /\ u[i] = x
    BY <1>1, <2>1
  <2> QED BY <2>2 DEF Elements
<1>4. ASSUME NEW x \in Elements(t) PROVE x \in Elements(u)
  <2>1. PICK i \in 1 .. Len(t) : x = t[i]
    BY DEF Elements
  <2>2. Len(s) + i \in 1 .. Len(u) /\ u[Len(s) + i] = x
    BY <1>1, <2>1
  <2> QED BY <2>2 DEF Elements
<1>5. Elements(u) = Elements(s) \cup Elements(t)
  BY <1>2, <1>3, <1>4
<1> QED BY <1>1, <1>5 DEF u

Flattening(seqs) ==
    LET flatten[i \in 1 .. Len(seqs)] == IF i = 1 THEN seqs[i] ELSE flatten[i - 1] \o seqs[i]
    IN  flatten

\* A sequence of sequences is flattened to one of all their elements.
LEMMA FlattenElements ==
    ASSUME NEW S, NEW seqs \in Seq(Seq(S))
    PROVE  /\ FlattenSeq(seqs) \in Seq(S)
           /\ Elements(FlattenSeq(seqs)) = UNION {Elements(seqs[k]) : k \in 1 .. Len(seqs)}
<1> DEFINE n == Len(seqs)
           V == Seq(S)
           flatten == Flattening(seqs)
           step == [x \in (1 .. n) \X V |-> x[2] \o seqs[x[1]]]
<1>1. n \in Nat /\ \A i \in 1 .. n : seqs[i] \in V
  OBVIOUS
<1>2. CASE n = 0
  <2>1. FlattenSeq(seqs) = seqs
    BY <1>2 DEF FlattenSeq
  <2>2. Elements(seqs) = {} /\ {Elements(seqs[k]) : k \in 1 .. n} = {} /\ seqs = <<>>
    BY <1>2 DEF Elements
  <2> QED BY <2>1, <2>2
<1>3. CASE n # 0
  <2>1. step \in [(1 .. n) \X V -> V]
    <3>1. ASSUME NEW x \in (1 .. n) \X V PROVE x[2] \o seqs[x[1]] \in V
      <4>1. x[2] \in V /\ x[1] \in 1 .. n
        OBVIOUS
      <4>2. seqs[x[1]] \in V
        BY <1>1, <4>1
      <4> QED BY <4>1, <4>2, ConcatElements
    <3> QED BY <3>1
  <2>2. <<>> \in V
    OBVIOUS
  <2>3. \A k \in 1 .. n : \A s \in V : step[<<k, s>>] = s \o seqs[k]
    OBVIOUS
  <2> HIDE DEF step, V
  <2>4. PICK g \in [0 .. n -> V] : Recursion(g, <<>>, step, n)
    BY <1>1, <2>1, <2>2, RecursionUpTo
  <2> DEFINE f == [i \in 1 .. n |-> g[i]]
  <2>5. ASSUME NEW i \in 1 .. n PROVE f[i] = IF i = 1 THEN seqs[i] ELSE f[i - 1] \o seqs[i]
    <3>1. i \in 0 .. n /\ i - 1 \in 0 .. n /\ i # 0
      BY <1>1
    <3>2. g[i] = step[<<i, g[i - 1]>>]
      BY <2>4, <3>1 DEF Recursion
    <3>3. g[i] = g[i - 1] \o seqs[i]
      BY <2>3, <2>4, <3>1, <3>2
    <3>4. CASE i = 1
      <4>1. g[i - 1] = <<>>
        <5>1. i - 1 = 0 /\ 0 \in 0 .. n
          BY <1>1, <3>4
        <5>2. g[0] = <<>>
          BY <2>4, <5>1 DEF Recursion
        <5> QED BY <5>1, <5>2
      <4>2. <<>> \o seqs[i] = seqs[i]
        BY <1>1, ConcatEmptySeq DEF V
      <4> QED BY <3>3, <3>4, <4>1, <4>2
    <3>5. CASE i # 1
      <4>1. i - 1 \in 1 .. n
        BY <1>1, <3>5
      <4> QED BY <3>3, <3>5, <4>1
    <3> QED BY <3>4, <3>5
  <2>6. f = [i \in 1 .. n |-> IF i = 1 THEN seqs[i] ELSE f[i - 1] \o seqs[i]]
    <3>1. f = [i \in 1 .. n |-> f[i]]
      OBVIOUS
    <3> HIDE DEF f
    <3> QED BY <2>5, <3>1
  <2> HIDE DEF f
  <2>7. flatten = [i \in 1 .. n |-> IF i = 1 THEN seqs[i] ELSE flatten[i - 1] \o seqs[i]]
    <3>1. PICK h : h = [i \in 1 .. Len(seqs) |-> IF i = 1 THEN seqs[i] ELSE h[i - 1] \o seqs[i]]
      BY Zenon, <2>6
    <3>2. Flattening(seqs) =
            CHOOSE x : x = [i \in 1 .. Len(seqs) |-> IF i = 1 THEN seqs[i] ELSE x[i - 1] \o seqs[i]]
      BY Zenon DEF Flattening
    <3>3. PICK x : x = Flattening(seqs)
      OBVIOUS
    <3>4. x = [i \in 1 .. Len(seqs) |-> IF i = 1 THEN seqs[i] ELSE x[i - 1] \o seqs[i]]
      BY Zenon, <3>1, <3>2, <3>3
    <3> QED BY <3>3, <3>4
  <2>8. FlattenSeq(seqs) = flatten[n]
    BY <1>3 DEF FlattenSeq, Flattening
  <2> HIDE DEF flatten
  <2> DEFINE R == {k \in 0 .. n - 1 : /\ flatten[k + 1] \in V
                                      /\ Elements(flatten[k + 1]) = UNION {Elements(seqs[j]) : j \in 1 .. k + 1}}
  <2>9. 0 \in R
    <3>1. flatten[0 + 1] = seqs[0 + 1] /\ 0 \in 0 .. n - 1 /\ 0 + 1 \in 1 .. n
      BY <1>1, <1>3, <2>7
    <3>2. {Elements(seqs[j]) : j \in 1 .. 0 + 1} = {Elements(seqs[0 + 1])}
      OBVIOUS
    <3> QED BY <1>1, <3>1, <3>2
  <2>10. ASSUME NEW k \in 0 .. (n - 1) - 1, k \in R PROVE k + 1 \in R
    <3>1. k + 1 \in 0 .. n - 1 /\ (k + 1) + 1 \in 1 .. n /\ (k + 1) + 1 # 1 /\ (k + 1) + 1 - 1 = k + 1
      BY <1>1
    <3>2. flatten[(k + 1) + 1] = flatten[k + 1] \o seqs[(k + 1) + 1]
      <4> DEFINE c == (k + 1) + 1
      <4>1. c \in 1 .. n /\ c # 1 /\ c - 1 = k + 1
        BY <3>1
      <4> HIDE DEF c
      <4>2. flatten[c] = flatten[c - 1] \o seqs[c]
        BY <2>7, <4>1
      <4> QED BY <4>1, <4>2 DEF c
    <3>3. /\ flatten[k + 1] \in V /\ seqs[(k + 1) + 1] \in V
          /\ Elements(flatten[k + 1]) = UNION {Elements(seqs[j]) : j \in 1 .. k + 1}
      BY <1>1, <2>10, <3>1
    <3>4. /\ flatten[(k + 1) + 1] \in V
          /\ Elements(flatten[(k + 1) + 1]) = Elements(flatten[k + 1]) \cup Elements(seqs[(k + 1) + 1])
      BY <3>2, <3>3, ConcatElements DEF V
    <3>5. \A j : j \in 1 .. (k + 1) + 1 <=> j \in 1 .. k + 1 \/ j = (k + 1) + 1
      BY <1>1
    <3>6. UNION {Elements(seqs[j]) : j \in 1 .. (k + 1) + 1}
            = (UNION {Elements(seqs[j]) : j \in 1 .. k + 1}) \cup Elements(seqs[(k + 1) + 1])
      <4> DEFINE c == (k + 1) + 1
                 I == 1 .. (k + 1) + 1
                 J == 1 .. k + 1
      <4>1. \A j : j \in I <=> j \in J \/ j = c
        BY <3>5
      <4> HIDE DEF c, I, J
      <4>2. UNION {Elements(seqs[j]) : j \in I} = (UNION {Elements(seqs[j]) : j \in J}) \cup Elements(seqs[c])
        BY <4>1
      <4> QED BY <4>2 DEF c, I, J
    <3> QED BY <3>1, <3>3, <3>4, <3>6
  <2> HIDE DEF R
  <2>11. \A k \in 0 .. n - 1 : k \in R
    <3>1. n - 1 \in Nat
      BY <1>1, <1>3
    <3> DEFINE m == n - 1
    <3> HIDE DEF m
    <3>2. \A k \in 0 .. m : k \in R
      BY <2>9, <2>10, <3>1, InductionUpTo DEF m
    <3> QED BY <3>2 DEF m
  <2>12. n - 1 \in R /\ (n - 1) + 1 = n
    BY <1>1, <1>3, <2>11
  <2>13. flatten[n] \in V /\ Elements(flatten[n]) = UNION {Elements(seqs[j]) : j \in 1 .. n}
    BY <2>12 DEF R
  <2> QED BY <2>8, <2>13 DEF V
<1> QED BY <1>2, <1>3

LEMMA MaxOfTwo == \A x, y \in Int : Max({x, y}) = IF x >= y THEN x ELSE y
  BY DEF Max

\* What a word that is written changes: d becomes v.
Overlaid(v, d, a, w) ==
    /\ v \in Seq(Byte) /\ Len(v) >= Len(d) /\ Len(v) >= a + 4
    /\ \A i \in 1 .. Len(v) : v[i] = IF i - a \in 1 .. 4 THEN w[i - a]
                                      ELSE IF i <= Len(d) THEN d[i] ELSE 0

LEMMA WordWritten ==
    ASSUME NEW d \in Seq(Byte), NEW a \in Nat, NEW w \in Seq(Byte), Len(w) = 4
    PROVE  Overlaid(WriteAt(d, a, w), d, a, w)
<1> DEFINE n == Max({Len(d), a + 4})
           v == [i \in 1 .. n |-> IF i - a \in DOMAIN w THEN w[i - a]
                                  ELSE IF i <= Len(d) THEN d[i] ELSE 0]
<1>1. Len(d) \in Nat /\ DOMAIN w = 1 .. 4
  OBVIOUS
<1>2. n \in Nat /\ n >= Len(d) /\ n >= a + 4
  <2>1. n = IF Len(d) >= a + 4 THEN Len(d) ELSE a + 4
    BY <1>1, MaxOfTwo
  <2> HIDE DEF n
  <2> QED BY <1>1, <2>1
<1>3. WriteAt(d, a, w) = v
  BY DEF WriteAt
<1> HIDE DEF n
<1>4. 0 \in Byte
  BY DEF Byte
<1>5. ASSUME NEW i \in 1 .. n PROVE v[i] \in Byte
  <2>1. CASE i - a \in 1 .. 4
    <3>1. w[i - a] \in Byte
      <4>1. \A j \in 1 .. Len(w) : w[j] \in Byte
        BY ElementOfSeq
      <4> QED BY <2>1, <4>1
    <3> QED BY <1>1, <2>1, <3>1
  <2>2. CASE i - a \notin 1 .. 4 /\ i <= Len(d)
    <3>1. d[i] \in Byte
      BY <1>1, <1>2, <2>2
    <3> QED BY <1>1, <2>2, <3>1
  <2>3. CASE i - a \notin 1 .. 4 /\ ~ (i <= Len(d))
    BY <1>1, <1>4, <2>3
  <2> QED BY <2>1, <2>2, <2>3
<1>6. \A i \in 1 .. n : v[i] = IF i - a \in 1 .. 4 THEN w[i - a] ELSE IF i <= Len(d) THEN d[i] ELSE 0
  BY <1>1
<1>7. v \in [1 .. n -> Byte]
  BY <1>5
<1> HIDE DEF v
<1>8. v \in Seq(Byte) /\ Len(v) = n
  BY <1>2, <1>7
<1> QED BY <1>2, <1>3, <1>6, <1>8 DEF Overlaid

\* An entry is written as the word that is in the new image.
LEMMA EntryRestored ==
    ASSUME NEW p, ProgramType(p), Low(p.segment.to), NEW e, GoodEntry(p, e)
    PROVE  /\ Packable(e.kind, EntryValue(p.from, e))
           /\ Packed(e.kind, EntryValue(p.from, e)) = ReadAt(p.to, e.to, 4)
           /\ e.to \in Nat /\ e.to + 4 <= Len(p.to)
<1> DEFINE v == ValueAt(p.from, e.kind, e.from)
           w == ValueAt(p.to, e.kind, e.to)
<1>1. e.kind \in Kinds /\ e.value = Minus(v, w) /\ p.segment.to \in Segment
      /\ p.from \in Seq(Byte) /\ p.to \in Seq(Byte)
  BY DEF GoodEntry, ProgramType
<1>2. /\ e.from \in Nat /\ e.from + 4 <= Len(p.from)
      /\ Fits(e.kind, HalfAt(p.from, e.from), HalfAt(p.from, e.from + 2), p.segment.from)
  BY DEF GoodEntry, Words
<1>3. /\ e.to \in Nat /\ e.to + 4 <= Len(p.to)
      /\ Fits(e.kind, HalfAt(p.to, e.to), HalfAt(p.to, e.to + 2), p.segment.to)
  BY DEF GoodEntry, Words
<1>4. v \in Value
  BY <1>1, <1>2, WordHasValue
<1>5. w \in Value
  BY <1>1, <1>3, WordHasValue
<1>6. Packable(e.kind, w) /\ Packed(e.kind, w) = ReadAt(p.to, e.to, 4)
  BY <1>1, <1>3, WordRestored
<1>7. EntryValue(p.from, e) = Minus(v, e.value)
  BY DEF EntryValue
<1> HIDE DEF v, w
<1>8. EntryValue(p.from, e) = w
  BY <1>1, <1>4, <1>5, <1>7, MinusMinus
<1> QED BY <1>3, <1>6, <1>8

\* The contents of the DiffReader as the entries are written.
Diffing(image, entries, size) ==
    LET Diff[n \in 0 .. Len(entries)] ==
            IF n = 0 THEN Zeros(size) ELSE WriteEntry(Diff[n - 1], image, entries[n])
    IN  Diff

Written(entries, n, i) == \E m \in 1 .. n : i - entries[m].to \in 1 .. 4
Restores(p, entries, n, d) ==
    /\ d \in Seq(Byte)
    /\ \A m \in 1 .. n : entries[m].to + 4 <= Len(d)
    /\ \A i \in 1 .. Len(d) : d[i] = IF Written(entries, n, i) THEN p.to[i] ELSE 0

\* The word of the image is put at the same place of d.
CopiedTo(v, d, a, image) ==
    /\ v \in Seq(Byte) /\ Len(v) >= Len(d) /\ Len(v) >= a + 4
    /\ \A i \in 1 .. Len(v) : v[i] = IF i - a \in 1 .. 4 THEN image[i]
                                      ELSE IF i <= Len(d) THEN d[i] ELSE 0

LEMMA EntryWritten ==
    ASSUME NEW p, ProgramType(p), Low(p.segment.to), NEW e, GoodEntry(p, e), NEW d \in Seq(Byte)
    PROVE  CopiedTo(WriteEntry(d, p.from, e), d, e.to, p.to)
<1> DEFINE w == ReadAt(p.to, e.to, 4)
           v == WriteEntry(d, p.from, e)
<1>1. e.to \in Nat /\ e.to + 4 <= Len(p.to) /\ Packed(e.kind, EntryValue(p.from, e)) = w
  BY EntryRestored
<1>2. v = WriteAt(d, e.to, w)
  BY <1>1 DEF WriteEntry
<1>3. w \in Seq(Byte) /\ Len(w) = 4 /\ \A i \in 1 .. 4 : w[i] = p.to[e.to + i]
  <2>1. p.to \in Seq(Byte) /\ 4 \in Nat
    BY DEF ProgramType
  <2> QED BY <1>1, <2>1, Reads
<1> HIDE DEF w, v
<1>4. /\ v \in Seq(Byte) /\ Len(v) >= Len(d) /\ Len(v) >= e.to + 4
      /\ \A i \in 1 .. Len(v) : v[i] = IF i - e.to \in 1 .. 4 THEN w[i - e.to]
                                      ELSE IF i <= Len(d) THEN d[i] ELSE 0
  <2>1. Overlaid(v, d, e.to, w)
    BY <1>1, <1>2, <1>3, WordWritten
  <2> QED BY <2>1 DEF Overlaid
<1>5. ASSUME NEW i \in 1 .. Len(v), i - e.to \in 1 .. 4 PROVE w[i - e.to] = p.to[i]
  <2>1. w[i - e.to] = p.to[e.to + (i - e.to)]
    BY <1>3, <1>5
  <2>2. i \in Int /\ e.to + (i - e.to) = i
    BY <1>1
  <2> QED BY <2>1, <2>2
<1>6. \A i \in 1 .. Len(v) : v[i] = IF i - e.to \in 1 .. 4 THEN p.to[i]
                                   ELSE IF i <= Len(d) THEN d[i] ELSE 0
  BY <1>4, <1>5
<1> QED BY <1>4, <1>6 DEF v, CopiedTo

\* So the entries that are written make the words of the new image, and nothing else.
LEMMA DiffingRestores ==
    ASSUME NEW p, ProgramType(p), Low(p.segment.to), NEW E, \A e \in E : GoodEntry(p, e),
           NEW entries \in Seq(E), NEW size \in Int
    PROVE  LET d == Diffing(p.from, entries, size)[Len(entries)]
           IN  Restores(p, entries, Len(entries), d) /\ Len(d) >= size
<1> DEFINE N == Len(entries)
           V == Seq(Byte)
           step == [x \in (1 .. N) \X V |-> WriteEntry(x[2], p.from, entries[x[1]])]
           D == Diffing(p.from, entries, size)
           z == Zeros(size)
<1>1. N \in Nat /\ \A k \in 1 .. N : GoodEntry(p, entries[k])
  OBVIOUS
<1>2. \A k \in 1 .. N, d \in V : CopiedTo(WriteEntry(d, p.from, entries[k]), d, entries[k].to, p.to)
  BY <1>1, EntryWritten
<1>3. z \in V /\ Len(z) >= size /\ \A i \in 1 .. Len(z) : z[i] = 0
  <2>1. 0 \in Byte
    BY DEF Byte
  <2>2. CASE size \in Nat
    <3>1. z \in [1 .. size -> Byte] /\ \A i \in 1 .. size : z[i] = 0
      BY <2>1 DEF Zeros
    <3> HIDE DEF z
    <3>2. z \in V /\ Len(z) = size
      BY <2>2, <3>1
    <3> QED BY <3>1, <3>2
  <2>3. CASE size \notin Nat
    <3>1. 1 .. size = 1 .. 0 /\ size < 0
      BY <2>3
    <3>2. z \in [1 .. 0 -> Byte]
      BY <2>1, <3>1 DEF Zeros
    <3> HIDE DEF z
    <3>3. z \in V /\ Len(z) = 0
      BY <3>2
    <3> QED BY <3>1, <3>3
  <2> QED BY <2>2, <2>3
<1>4. step \in [(1 .. N) \X V -> V] /\ \A k \in 1 .. N : \A d \in V : step[<<k, d>>] = WriteEntry(d, p.from, entries[k])
  <2>1. ASSUME NEW x \in (1 .. N) \X V PROVE WriteEntry(x[2], p.from, entries[x[1]]) \in V
    <3>1. x[1] \in 1 .. N /\ x[2] \in V
      OBVIOUS
    <3> HIDE DEF N, V
    <3>2. CopiedTo(WriteEntry(x[2], p.from, entries[x[1]]), x[2], entries[x[1]].to, p.to)
      BY <1>2, <3>1
    <3> QED BY <3>2 DEF CopiedTo, V
  <2> QED BY <2>1
<1> HIDE DEF step, N, V, z
<1>5. PICK g \in [0 .. N -> V] : Recursion(g, z, step, N)
  BY <1>1, <1>3, <1>4, RecursionUpTo
<1>6. g = [k \in 0 .. N |-> IF k = 0 THEN z ELSE WriteEntry(g[k - 1], p.from, entries[k])]
  <2>1. ASSUME NEW k \in 0 .. N
        PROVE  g[k] = IF k = 0 THEN z ELSE WriteEntry(g[k - 1], p.from, entries[k])
    <3>1. g[k] = IF k = 0 THEN z ELSE step[<<k, g[k - 1]>>]
      BY <1>5 DEF Recursion
    <3>2. k # 0 => k \in 1 .. N /\ g[k - 1] \in V
      BY <1>1
    <3> QED BY <1>4, <3>1, <3>2
  <2> QED BY <1>5, <2>1
<1>7. D = [k \in 0 .. N |-> IF k = 0 THEN z ELSE WriteEntry(D[k - 1], p.from, entries[k])]
  BY <1>6 DEF Diffing, N, z
<1> HIDE DEF D
<1>8. D[0] = z /\ \A k \in 1 .. N : D[k] = WriteEntry(D[k - 1], p.from, entries[k])
  BY <1>1, <1>7
<1> DEFINE S == {k \in 0 .. N : Restores(p, entries, k, D[k]) /\ Len(D[k]) >= size}
<1>9. 0 \in S
  <2>1. \A i : ~ Written(entries, 0, i)
    BY DEF Written
  <2>2. Restores(p, entries, 0, z)
    BY <1>3, <2>1 DEF Restores, V
  <2> QED BY <1>1, <1>3, <1>8, <2>2
<1>10. ASSUME NEW k \in 0 .. N - 1, k \in S PROVE k + 1 \in S
  <2> DEFINE d == D[k]
             e == entries[k + 1]
             v == D[k + 1]
  <2>1. k + 1 \in 1 .. N /\ k + 1 - 1 = k /\ k + 1 \in 0 .. N
    BY <1>1
  <2>2. Restores(p, entries, k, d) /\ Len(d) >= size
    BY <1>10
  <2>3. v = WriteEntry(d, p.from, e)
    BY <1>8, <2>1
  <2> HIDE DEF d, v
  <2>4. d \in V
    BY <2>2 DEF Restores, V
  <2>5. CopiedTo(v, d, e.to, p.to)
    BY <1>2, <2>1, <2>3, <2>4
  <2>6. e.to \in Nat /\ \A m \in 1 .. k : entries[m].to \in Nat
    BY <1>1, <2>1, EntryRestored
  <2>7. /\ v \in Seq(Byte) /\ Len(v) >= Len(d) /\ Len(v) >= e.to + 4
        /\ \A i \in 1 .. Len(v) : v[i] = IF i - e.to \in 1 .. 4 THEN p.to[i]
                                        ELSE IF i <= Len(d) THEN d[i] ELSE 0
    BY <2>5 DEF CopiedTo
  <2>8. /\ \A m \in 1 .. k : entries[m].to + 4 <= Len(d)
        /\ \A i \in 1 .. Len(d) : d[i] = IF Written(entries, k, i) THEN p.to[i] ELSE 0
    BY <2>2 DEF Restores
  <2>9. Len(d) \in Nat /\ Len(v) \in Nat
    BY <2>4, <2>7 DEF V
  <2>10. \A m : m \in 1 .. k + 1 <=> m \in 1 .. k \/ m = k + 1
    OBVIOUS
  <2>11. ASSUME NEW m \in 1 .. k + 1 PROVE entries[m].to + 4 <= Len(v)
    <3>1. CASE m = k + 1
      BY <2>7, <3>1
    <3>2. CASE m \in 1 .. k
      <4>1. entries[m].to \in Nat /\ entries[m].to + 4 <= Len(d)
        BY <2>6, <2>8, <3>2
      <4> QED BY <2>7, <2>9, <4>1
    <3> QED BY <2>10, <3>1, <3>2
  <2>12. \A i : Written(entries, k + 1, i) <=> Written(entries, k, i) \/ i - e.to \in 1 .. 4
    BY <2>10 DEF Written
  <2>13. ASSUME NEW i \in 1 .. Len(v) PROVE v[i] = IF Written(entries, k + 1, i) THEN p.to[i] ELSE 0
    <3>1. CASE i - e.to \in 1 .. 4
      BY <2>7, <2>12, <3>1
    <3>2. CASE i - e.to \notin 1 .. 4 /\ i <= Len(d)
      <4>1. i \in 1 .. Len(d)
        BY <2>9, <3>2
      <4> QED BY <2>7, <2>8, <2>12, <3>2, <4>1
    <3>3. CASE i - e.to \notin 1 .. 4 /\ ~ (i <= Len(d))
      <4>1. ASSUME NEW m \in 1 .. k PROVE i - entries[m].to \notin 1 .. 4
        <5>1. entries[m].to \in Nat /\ entries[m].to + 4 <= Len(d)
          BY <2>6, <2>8
        <5>2. PICK t \in Nat, l \in Nat, j \in Int : t = entries[m].to /\ l = Len(d) /\ j = i
          BY <2>9, <5>1
        <5>3. t + 4 <= l /\ ~ (j <= l)
          BY <3>3, <5>1, <5>2
        <5>4. j - t \notin 1 .. 4
          BY <5>3
        <5> QED BY <5>2, <5>4
      <4>2. ~ Written(entries, k, i)
        BY <4>1 DEF Written
      <4> QED BY <2>7, <2>12, <3>3, <4>2
    <3> QED BY <3>1, <3>2, <3>3
  <2>14. Restores(p, entries, k + 1, v)
    BY <2>7, <2>11, <2>13 DEF Restores
  <2>15. Len(v) >= size
    BY <2>2, <2>7, <2>9
  <2> QED BY <2>1, <2>14, <2>15 DEF v
<1> HIDE DEF S
<1>11. \A k \in 0 .. N : k \in S
  BY <1>1, <1>9, <1>10, InductionUpTo
<1>12. Restores(p, entries, N, D[N]) /\ Len(D[N]) >= size
  BY <1>1, <1>11 DEF S
<1> QED BY <1>12 DEF D, N

\* The entries of the blocks are good ones, at addresses that are listed.
LEMMA BlocksGood ==
    ASSUME NEW p, ProgramType(p), NEW ff, NEW ft, NEW n, NEW bs, Encoding(p, ff, ft, n, bs),
           NEW kind \in Kinds, NEW b \in DOMAIN bs[kind]
    PROVE  LET block == bs[kind][b]
           IN  /\ DOMAIN block.values = 1 .. Len(block.values)
               /\ block.from_offset + Len(block.values) <= Len(Froms(p, kind))
               /\ \A i \in DOMAIN block.values :
                    GoodEntry(p, EntryOf(kind, Froms(p, kind), block, i))
<1> DEFINE block == bs[kind][b]
<1>1. bs[kind] \in Seq(GoodBlocks(p, kind))
  BY DEF Encoding
<1>2. block \in GoodBlocks(p, kind)
  BY <1>1
<1>3. PICK r \in GoodRuns(p, kind) : block = BlockFrom(p, kind, r)
  BY <1>2 DEF GoodBlocks
<1>4. r.from \in Nat /\ r.size \in Nat /\ r.from + r.size < Len(Froms(p, kind))
  BY DEF GoodRuns
<1>5. block.from_offset = r.from /\ DOMAIN block.values = 1 .. r.size + 1 /\ Len(block.values) = r.size + 1
  <2> DEFINE f == [i \in 1 .. r.size + 1 |->
                    Minus(ValueAt(p.from, kind, Froms(p, kind)[r.from + i]),
                          ValueAt(p.to, kind, Tos(p, kind)[r.to + i]))]
             m == r.size + 1
  <2>1. block.from_offset = r.from /\ block.values = f
    BY <1>3 DEF BlockFrom
  <2>2. DOMAIN f = 1 .. m
    OBVIOUS
  <2>3. m \in Nat
    BY <1>4
  <2> HIDE DEF f, m
  <2>4. Len(f) = m
    BY <2>2, <2>3
  <2> QED BY <2>1, <2>2, <2>4 DEF m
<1>6. Len(Froms(p, kind)) \in Nat
  <2>1. Froms(p, kind) \in Seq(Words(p.from, p.segment.from, kind))
    BY AddressesAre DEF ProgramType, Froms
  <2> QED BY <2>1
<1>7. \A i \in 1 .. r.size + 1 : GoodEntry(p, EntryOf(kind, Froms(p, kind), block, i))
  BY <1>3, RunEntries
<1> HIDE DEF block
<1>8. block.from_offset + Len(block.values) <= Len(Froms(p, kind))
  <2>1. PICK f \in Nat, m \in Nat, l \in Nat : f = r.from /\ m = r.size /\ l = Len(Froms(p, kind))
    BY <1>4, <1>6
  <2>2. f + m < l
    BY <1>4, <2>1
  <2>3. f + (m + 1) <= l
    BY <2>2
  <2> QED BY <1>5, <2>1, <2>3
<1> QED BY <1>5, <1>7, <1>8 DEF block

LEMMA EntriesGood ==
    ASSUME NEW p, ProgramType(p), NEW ff, NEW ft, NEW n, NEW bs, Encoding(p, ff, ft, n, bs)
    PROVE  \A e \in AllEntries(p, bs) : GoodEntry(p, e)
<1> SUFFICES ASSUME NEW e \in AllEntries(p, bs) PROVE GoodEntry(p, e)
  OBVIOUS
<1>1. PICK kind \in Kinds : e \in EntriesOf(p, kind, bs[kind])
  BY DEF AllEntries
<1>2. PICK b \in DOMAIN bs[kind] :
        \E i \in DOMAIN bs[kind][b].values : e = EntryOf(kind, Froms(p, kind), bs[kind][b], i)
  BY <1>1 DEF EntriesOf
<1>3. \A i \in DOMAIN bs[kind][b].values : GoodEntry(p, EntryOf(kind, Froms(p, kind), bs[kind][b], i))
  BY BlocksGood
<1> QED BY <1>2, <1>3

\* The readers list the entries of each kind, and of all kinds.
LEMMA KindListed ==
    ASSUME NEW p, ProgramType(p), NEW ff, NEW ft, NEW n, Encoding(p, ff, ft, n, blocks), NEW kind \in Kinds
    PROVE  /\ Entries(kind, Froms(p, kind)) \in Seq(AllEntries(p, blocks))
           /\ Elements(Entries(kind, Froms(p, kind))) = EntriesOf(p, kind, blocks[kind])
<1> DEFINE F == Froms(p, kind)
           bs == blocks[kind]
           E == EntriesOf(p, kind, bs)
           piece(b) == [i \in DOMAIN bs[b].values |-> EntryOf(kind, F, bs[b], i)]
           seqs == [b \in DOMAIN bs |-> piece(b)]
<1>1. Entries(kind, F) = FlattenSeq(seqs)
  BY DEF Entries, EntryOf
<1>2. bs \in Seq(GoodBlocks(p, kind))
  BY DEF Encoding
<1>3. ASSUME NEW b \in DOMAIN bs
      PROVE  /\ piece(b) \in Seq(E)
             /\ Elements(piece(b)) = {EntryOf(kind, F, bs[b], i) : i \in DOMAIN bs[b].values}
  <2> DEFINE v == bs[b].values
             q == piece(b)
             m == Len(v)
  <2>1. DOMAIN v = 1 .. m
    BY BlocksGood
  <2>2. m \in Nat
    <3>1. PICK r \in GoodRuns(p, kind) : bs[b] = BlockFrom(p, kind, r)
      BY <1>2 DEF GoodBlocks
    <3>2. DOMAIN v = 1 .. r.size + 1 /\ r.size \in Nat
      BY <3>1 DEF BlockFrom, GoodRuns
    <3> HIDE DEF v
    <3>3. Len(v) = r.size + 1
      BY <3>2
    <3> QED BY <3>2, <3>3
  <2>3. \A i \in 1 .. m : q[i] = EntryOf(kind, F, bs[b], i) /\ q[i] \in E
    <3>1. \A i \in 1 .. m : q[i] = EntryOf(kind, F, bs[b], i)
      BY <2>1
    <3>2. {EntryOf(kind, F, bs[b], i) : i \in DOMAIN v} \subseteq E
      BY DEF EntriesOf
    <3> HIDE DEF q, E, v, m
    <3> QED BY <2>1, <3>1, <3>2
  <2>4. q \in [1 .. m -> E]
    BY <2>1, <2>3
  <2> HIDE DEF q, m, v, E
  <2>5. q \in Seq(E) /\ Len(q) = m
    BY <2>2, <2>4
  <2>6. Elements(q) = {EntryOf(kind, F, bs[b], i) : i \in 1 .. m}
    BY <2>3, <2>5 DEF Elements
  <2> QED BY <2>1, <2>5, <2>6 DEF q, v
<1>4. DOMAIN bs = 1 .. Len(bs) /\ Len(bs) \in Nat
  BY <1>2
<1> HIDE DEF piece, bs, E
<1>5. seqs \in [1 .. Len(bs) -> Seq(E)] /\ \A b \in 1 .. Len(bs) : seqs[b] = piece(b)
  BY <1>3, <1>4
<1> HIDE DEF seqs
<1>6. seqs \in Seq(Seq(E)) /\ Len(seqs) = Len(bs)
  BY <1>4, <1>5
<1>7. FlattenSeq(seqs) \in Seq(E) /\ Elements(FlattenSeq(seqs)) = UNION {Elements(seqs[b]) : b \in 1 .. Len(bs)}
  BY <1>6, FlattenElements
<1>8. UNION {Elements(seqs[b]) : b \in 1 .. Len(bs)} = E
  <2> DEFINE G == [b \in DOMAIN bs |-> {EntryOf(kind, F, bs[b], i) : i \in DOMAIN bs[b].values}]
             H == [b \in DOMAIN bs |-> Elements(seqs[b])]
  <2>1. E = UNION {G[b] : b \in DOMAIN bs}
    BY DEF EntriesOf, E
  <2>2. UNION {Elements(seqs[b]) : b \in 1 .. Len(bs)} = UNION {H[b] : b \in DOMAIN bs}
    BY <1>4
  <2>3. H = G
    BY <1>3, <1>4, <1>5
  <2> HIDE DEF G, H
  <2> QED BY <2>1, <2>2, <2>3
<1>9. E \subseteq AllEntries(p, blocks)
  BY DEF E, bs, AllEntries
<1>10. FlattenSeq(seqs) \in Seq(AllEntries(p, blocks))
  BY <1>7, <1>9, SeqWider
<1> QED BY <1>1, <1>7, <1>8, <1>10 DEF E, bs

\* The readers made of the old image give what the creator encoded, and what is to be
\* added to it.
LEMMA ReadersRestore ==
    ASSUME ProgramType(program), SegmentFits(program.segment.from), Low(program.segment.to),
           Encoding(program, ffrom, fto, encoded, blocks), NEW size \in Int
    PROVE  LET r == Readers(program.from, size)
           IN  /\ ~ r.raised /\ r.from = ffrom
               /\ r.diff \in Seq(Byte) /\ Len(r.diff) >= size
               /\ \A i \in 1 .. Len(fto) : i <= size => (fto[i] + r.diff[i]) % 256 = program.to[i]
<1> DEFINE image == program.from
           E == AllEntries(program, blocks)
           addresses == [kind \in Kinds |-> AddressesIn(image, SegmentOfPatch, kind)]
           pieces == [k \in DOMAIN WriteOrder |-> Entries(WriteOrder[k], addresses[WriteOrder[k]])]
           entries == FlattenSeq(pieces)
           d == Diffing(image, entries, size)[Len(entries)]
           r == Readers(image, size)
<1>1. \A kind \in Kinds : addresses[kind] = Froms(program, kind)
  <2>1. disassemble(image, program.segment.from) = disassemble(image, SegmentOfPatch)
    BY PatchAlike, DisassembleAlike DEF ProgramType
  <2> QED BY <2>1 DEF AddressesIn, Froms
<1>2. /\ \A kind \in Kinds : Listed(kind, addresses[kind])
      /\ \A e \in E : GoodEntry(program, e)
  <2>1. \A kind \in Kinds : Listed(kind, Froms(program, kind))
    BY BlocksGood DEF Listed
  <2> QED BY <1>1, <2>1, EntriesGood
<1>3. /\ DOMAIN WriteOrder = 1 .. 6
      /\ \A kind \in Kinds : \E k \in 1 .. 6 : WriteOrder[k] = kind
      /\ \A k \in 1 .. 6 : WriteOrder[k] \in Kinds
  BY KindsAre DEF WriteOrder
<1>4. pieces \in Seq(Seq(E)) /\ Len(pieces) = 6
      /\ \A k \in 1 .. 6 : Elements(pieces[k]) = EntriesOf(program, WriteOrder[k], blocks[WriteOrder[k]])
  <2>1. ASSUME NEW k \in 1 .. 6
        PROVE  /\ pieces[k] \in Seq(E)
               /\ Elements(pieces[k]) = EntriesOf(program, WriteOrder[k], blocks[WriteOrder[k]])
    <3>1. WriteOrder[k] \in Kinds
      BY <1>3
    <3>2. pieces[k] = Entries(WriteOrder[k], addresses[WriteOrder[k]])
      BY <1>3
    <3> HIDE DEF pieces, addresses
    <3>3. pieces[k] = Entries(WriteOrder[k], Froms(program, WriteOrder[k]))
      BY <1>1, <3>1, <3>2
    <3> QED BY <3>1, <3>3, KindListed
  <2> DEFINE n == 6
  <2>2. n \in Nat /\ DOMAIN WriteOrder = 1 .. n
        /\ \A k \in 1 .. n : Entries(WriteOrder[k], addresses[WriteOrder[k]]) \in Seq(E)
    BY <1>3, <2>1
  <2> HIDE DEF addresses, E, n
  <2>3. pieces \in [1 .. n -> Seq(E)]
    BY <2>2
  <2> HIDE DEF pieces
  <2>4. pieces \in Seq(Seq(E)) /\ Len(pieces) = n
    BY <2>2, <2>3
  <2> QED BY <2>1, <2>4 DEF n
<1> HIDE DEF pieces, addresses
<1>5. entries \in Seq(E) /\ Elements(entries) = E
  <2>1. entries \in Seq(E) /\ Elements(entries) = UNION {Elements(pieces[k]) : k \in 1 .. 6}
    BY <1>4, FlattenElements
  <2> DEFINE G == [kind \in Kinds |-> EntriesOf(program, kind, blocks[kind])]
             H == [k \in 1 .. 6 |-> Elements(pieces[k])]
  <2>2. \A kind \in Kinds : G[kind] = EntriesOf(program, kind, blocks[kind])
    OBVIOUS
  <2>3. E = UNION {G[kind] : kind \in Kinds}
    BY DEF AllEntries
  <2>4. \A k \in 1 .. 6 : H[k] = Elements(pieces[k])
    OBVIOUS
  <2>5. UNION {Elements(pieces[k]) : k \in 1 .. 6} = UNION {H[k] : k \in 1 .. 6}
    OBVIOUS
  <2> HIDE DEF G, H, E, entries
  <2>6. \A k \in 1 .. 6 : H[k] = G[WriteOrder[k]]
    BY <1>3, <1>4, <2>2, <2>4
  <2>7. UNION {H[k] : k \in 1 .. 6} = UNION {G[kind] : kind \in Kinds}
    <3>1. {H[k] : k \in 1 .. 6} = {G[kind] : kind \in Kinds}
      BY <1>3, <2>6
    <3> QED BY <3>1
  <2> QED BY <2>1, <2>3, <2>5, <2>7
<1> HIDE DEF E, entries
<1>6. Len(entries) \in Nat /\ DOMAIN entries = 1 .. Len(entries)
      /\ \A i \in 1 .. Len(entries) : entries[i] \in E
  BY <1>5
<1>7. \A i \in DOMAIN entries : Packable(entries[i].kind, EntryValue(image, entries[i]))
  BY <1>2, <1>6, EntryRestored
<1>8. Restores(program, entries, Len(entries), d) /\ Len(d) >= size
  BY <1>2, <1>5, DiffingRestores
<1>9. r = [raised |-> FALSE, diff |-> d, from |-> WithZeros(image, {entries[i].from : i \in DOMAIN entries})]
  BY <1>2, <1>7 DEF Readers, Diffing, addresses, pieces, entries
<1> HIDE DEF d, r
<1>10. ~ r.raised /\ r.diff = d /\ r.from = WithZeros(image, {entries[i].from : i \in DOMAIN entries})
  BY <1>9
<1>11. E = {entries[i] : i \in DOMAIN entries}
  BY <1>5, <1>6 DEF Elements
<1>12. {entries[i].from : i \in DOMAIN entries} = {e.from : e \in E}
  BY <1>11
<1>13. r.from = ffrom /\ fto = WithZeros(program.to, {e.to : e \in E})
  BY <1>10, <1>12 DEF Encoding, E
<1>14. d \in Seq(Byte) /\ \A i \in 1 .. Len(d) : d[i] = IF Written(entries, Len(entries), i) THEN program.to[i] ELSE 0
  BY <1>8 DEF Restores
<1>15. ASSUME NEW i \in 1 .. Len(fto), i <= size PROVE (fto[i] + d[i]) % 256 = program.to[i]
  <2>1. program.to \in Seq(Byte) /\ Len(program.to) \in Nat
    BY DEF ProgramType
  <2> DEFINE A == {e.to : e \in E}
  <2>2. Len(fto) = Len(program.to) /\ fto[i] = IF \E a \in A : i - a \in 1 .. 4 THEN 0 ELSE program.to[i]
    <3> HIDE DEF A
    <3> DEFINE f == [j \in 1 .. Len(program.to) |-> IF \E a \in A : j - a \in 1 .. 4 THEN 0 ELSE program.to[j]]
    <3>1. fto = f
      BY <1>13, <2>1 DEF WithZeros, A
    <3>2. DOMAIN f = 1 .. Len(program.to)
      OBVIOUS
    <3>3. \A j \in 1 .. Len(program.to) : f[j] = IF \E a \in A : j - a \in 1 .. 4 THEN 0 ELSE program.to[j]
      OBVIOUS
    <3> HIDE DEF f
    <3>4. Len(f) = Len(program.to)
      BY <2>1, <3>2
    <3> QED BY <3>1, <3>3, <3>4
  <2>3. (\E a \in A : i - a \in 1 .. 4) <=> Written(entries, Len(entries), i)
    BY <1>6, <1>11 DEF Written
  <2> HIDE DEF A
  <2>4. i \in 1 .. Len(d) /\ program.to[i] \in Byte
    <3>1. Len(d) \in Nat /\ i <= Len(d) /\ i \in 1 .. Len(program.to)
      BY <1>8, <1>14, <2>1, <2>2, <1>15
    <3> QED BY <2>1, <3>1
  <2>5. program.to[i] \in Int /\ 0 <= program.to[i] /\ program.to[i] < 256
    BY <2>4, ByteIs
  <2>6. fto[i] + d[i] = program.to[i] + 0 \/ fto[i] + d[i] = 0 + program.to[i]
    BY <1>14, <2>2, <2>3, <2>4
  <2> QED BY <2>5, <2>6
<1> QED BY <1>8, <1>10, <1>13, <1>14, <1>15 DEF r, image

-----------------------------------------------------------------------------
(***************************************************************************)
(* The applier.                                                            *)
(***************************************************************************)
\* Zeros in an image keep its length.
LEMMA WithZerosType ==
    ASSUME NEW image \in Seq(Byte), NEW addresses
    PROVE  /\ WithZeros(image, addresses) \in Seq(Byte)
           /\ Len(WithZeros(image, addresses)) = Len(image)
<1>1. DOMAIN image = 1 .. Len(image) /\ Len(image) \in Nat
  OBVIOUS
<1>2. \A i \in 1 .. Len(image) :
        (IF \E a \in addresses : i - a \in 1 .. 4 THEN 0 ELSE image[i]) \in Byte
  <2>1. 0 \in Byte
    BY DEF Byte
  <2>2. \A i \in 1 .. Len(image) : image[i] \in Byte
    BY <1>1
  <2> QED BY <2>1, <2>2
<1> QED BY <1>1, <1>2 DEF WithZeros

\* Encoding a kind of words only puts zeros in the images.
LEMMA EncodesWithZeros ==
    ASSUME EncodeKind
    PROVE  /\ program' = program
           /\ \/ ffrom' = ffrom
              \/ \E addresses : ffrom' = WithZeros(ffrom, addresses)
           /\ \/ fto' = fto
              \/ \E addresses : fto' = WithZeros(fto, addresses)
<1>1. ASSUME NEW kind, create_patch_block(kind)
      PROVE  /\ \E addresses : ffrom' = WithZeros(ffrom, addresses)
             /\ \E addresses : fto' = WithZeros(fto, addresses)
  BY <1>1, Zenon DEF create_patch_block
<1> QED BY <1>1 DEF EncodeKind

-----------------------------------------------------------------------------
(* Where the applier is *)

\* A sequence, of whatever.
Sequence(s) == \E S : s \in Seq(S)

LEMMA SequenceOf ==
    ASSUME NEW n \in Nat, NEW f, f = [i \in 1 .. n |-> f[i]]
    PROVE  Sequence(f) /\ Len(f) = n
<1> DEFINE S == {f[j] : j \in 1 .. n}
<1>1. \A i \in 1 .. n : f[i] \in S
  OBVIOUS
<1> HIDE DEF S
<1>2. f \in [1 .. n -> S]
  BY <1>1
<1>3. f \in Seq(S) /\ Len(f) = n
  BY <1>2
<1> QED BY <1>3 DEF Sequence

LEMMA SequenceConcat ==
    ASSUME NEW s, NEW t, Sequence(s), Sequence(t)
    PROVE  /\ Sequence(s \o t) /\ Len(s) \in Nat /\ Len(t) \in Nat
           /\ Len(s \o t) = Len(s) + Len(t)
           /\ \A i \in 1 .. Len(s) + Len(t) :
                (s \o t)[i] = IF i <= Len(s) THEN s[i] ELSE t[i - Len(s)]
<1>1. PICK S : s \in Seq(S)
  BY DEF Sequence
<1>2. PICK T : t \in Seq(T)
  BY DEF Sequence
<1>3. s \in Seq(S \cup T) /\ t \in Seq(S \cup T)
  <2>1. Len(s) \in Nat /\ s = [i \in 1 .. Len(s) |-> s[i]] /\ \A i \in 1 .. Len(s) : s[i] \in S
    BY <1>1
  <2>2. Len(t) \in Nat /\ t = [i \in 1 .. Len(t) |-> t[i]] /\ \A i \in 1 .. Len(t) : t[i] \in T
    BY <1>2
  <2> QED BY <2>1, <2>2
<1>4. s \o t \in Seq(S \cup T)
  BY <1>3, ConcatProperties
<1> QED BY <1>3, <1>4, ConcatProperties DEF Sequence

\* Bytes are added one by one, or not at all.
LEMMA AddsBytes ==
    ASSUME NEW first, Sequence(first), NEW second
    PROVE  /\ Sequence(AddBytes(first, second))
           /\ Len(AddBytes(first, second)) \in {0, Len(first)}
           /\ Len(second) = Len(first) =>
                /\ Len(AddBytes(first, second)) = Len(first)
                /\ \A i \in 1 .. Len(first) :
                        AddBytes(first, second)[i] = (first[i] + second[i]) % 256
<1>1. Len(first) \in Nat /\ DOMAIN first = 1 .. Len(first)
  BY DEF Sequence
<1> DEFINE sum == [i \in 1 .. Len(first) |-> (first[i] + second[i]) % 256]
<1>2. Sequence(sum) /\ Len(sum) = Len(first)
  <2>1. sum = [i \in 1 .. Len(first) |-> sum[i]]
    OBVIOUS
  <2> HIDE DEF sum
  <2> QED BY <1>1, <2>1, SequenceOf
<1>3. Sequence(<<>>) /\ Len(<<>>) = 0
  <2>1. <<>> \in Seq({})
    OBVIOUS
  <2> QED BY <2>1 DEF Sequence
<1>4. AddBytes(first, second) = IF Len(first) # Len(second) THEN <<>> ELSE sum
  BY <1>1 DEF AddBytes
<1>5. \A i \in 1 .. Len(first) : sum[i] = (first[i] + second[i]) % 256
  OBVIOUS
<1> HIDE DEF sum
<1> QED BY <1>2, <1>3, <1>4, <1>5

\* The images as the creator encodes them are as long as they were; without a data format
\* they are what they were.
Images ==
    /\ program.from \in Seq(Byte) /\ program.to \in Seq(Byte)
    /\ ffrom \in Seq(Byte) /\ Len(ffrom) = Len(program.from)
    /\ fto \in Seq(Byte) /\ Len(fto) = Len(program.to)
    /\ ~ format => ffrom = program.from /\ fto = program.to

\* There is room for what is left of a section, in what the header says and in what the
\* creator encoded.
Room(left, more) == to_pos + left <= to_size /\ to_pos + left + more <= Len(fto)

Positions ==
    /\ section \in [diff : Nat, extra : Nat, next : Nat, first : Nat] /\ offset \in Nat
    /\ doing \in {"create", "header", "readers"} => output = <<>>
    /\ doing \in {"readers", "diff_size", "diff", "extra"} => to_size # 0
    /\ doing = "diff" => offset <= section.diff /\ Room(section.diff - offset, section.extra)
    /\ doing = "extra" => offset <= section.extra /\ Room(section.extra - offset, 0)
    /\ to_pos <= to_size \/ to_pos = 0
    /\ to_pos <= Len(fto)
    /\ doing = "returned" => to_size = 0 \/ (to_pos = Len(fto) /\ to_pos >= to_size)

Reached ==
    /\ fault \in [cut : BOOLEAN, size : Int, old : Nat] /\ format \in BOOLEAN
    /\ Images
    /\ Sequence(output)
    /\ Positions

LEMMA ReachedFacts ==
    ASSUME Reached
    PROVE  /\ Len(program.to) \in Nat /\ Len(program.from) \in Nat
           /\ Len(fto) = Len(program.to) /\ Len(ffrom) = Len(program.from)
           /\ to_size \in Int /\ to_pos \in Nat /\ offset \in Nat
           /\ section.diff \in Nat /\ section.extra \in Nat
           /\ section.next \in Nat /\ section.first \in Nat
<1>1. Len(program.to) \in Nat /\ Len(program.from) \in Nat
  BY DEF Reached, Images
<1>2. fault.size \in Int
  BY DEF Reached
<1>3. to_size \in Int
  BY <1>1, <1>2 DEF to_size
<1>4. to_pos \in Nat
  BY DEF Reached, Sequence, to_pos
<1> QED BY <1>1, <1>3, <1>4 DEF Reached, Images, Positions

LEMMA ReachedInit == Init => Reached
<1> SUFFICES ASSUME Init PROVE Reached
  OBVIOUS
<1>1. program \in Programs /\ ffrom = program.from /\ fto = program.to
  BY DEF Init, EncodeInit
<1>2. fault \in [cut : BOOLEAN, size : Int, old : Nat] /\ format \in BOOLEAN
  BY SequentialPythonAssumption DEF Init
<1>3. Images
  BY <1>1, SequentialPythonAssumption DEF Images, Byte
<1>4. output = <<>> /\ Sequence(output) /\ to_pos = 0
  <2>1. <<>> \in Seq({}) /\ Len(<<>>) = 0
    OBVIOUS
  <2> QED BY <2>1 DEF Init, Sequence, to_pos
<1>5. Len(fto) \in Nat
  BY <1>3 DEF Images
<1>6. Positions
  BY <1>4, <1>5 DEF Init, Positions, NoSection
<1> QED BY <1>2, <1>3, <1>4, <1>6 DEF Reached

\* Before the patch is read,
LEMMA ReachedCreate ==
    ASSUME Reached, Encode \/ Created \/ OutOfPatchData \/ ReadHeader \/ CreateReaders \/ Idle
    PROVE  Reached'
<1> USE ReachedFacts
<1>1. CASE Encode
  <2>1. program' = program /\ ffrom' \in Seq(Byte) /\ Len(ffrom') = Len(ffrom)
        /\ fto' \in Seq(Byte) /\ Len(fto') = Len(fto)
    BY <1>1, EncodesWithZeros, WithZerosType DEF Encode, Reached, Images
  <2>2. format' = format /\ format
    BY <1>1 DEF Encode, apply_vars
  <2>3. Images'
    BY <2>1, <2>2 DEF Reached, Images
  <2>4. to_size' = to_size /\ to_pos' = to_pos
    BY <1>1, <2>1 DEF Encode, apply_vars, to_size, to_pos
  <2> QED BY <1>1, <2>1, <2>2, <2>3, <2>4 DEF Encode, apply_vars, Reached, Positions, Room
<1>2. CASE Created \/ OutOfPatchData \/ ReadHeader \/ CreateReaders
  <2>1. UNCHANGED <<program, ffrom, fto, fault, format, output, section, offset>>
    BY <1>2 DEF Created, OutOfPatchData, ReadHeader, CreateReaders, Raise, Unread, encode_vars
  <2>2. to_size' = to_size /\ to_pos' = to_pos
    BY <2>1 DEF to_size, to_pos
  <2>3. CASE Created
    BY <2>1, <2>2, <2>3 DEF Created, Reached, Images, Positions, Room
  <2>4. CASE OutOfPatchData
    BY <2>1, <2>2, <2>4 DEF OutOfPatchData, Raise, Reached, Images, Positions, Room
  <2>5. CASE ReadHeader
    BY <2>1, <2>2, <2>5 DEF ReadHeader, Reached, Images, Positions, Room
  <2>6. CASE CreateReaders
    <3>1. doing = "readers" /\ doing' \in {"diff_size", "Exception"}
      BY <2>6 DEF CreateReaders
    <3> QED BY <2>1, <2>2, <3>1 DEF Reached, Images, Positions, Room
  <2> QED BY <1>2, <2>3, <2>4, <2>5, <2>6
<1>3. CASE Idle
  BY <1>3 DEF Idle, vars, encode_vars, apply_vars, Reached, Images, Positions, Room, to_size, to_pos
<1> QED BY <1>1, <1>2, <1>3

\* when it is,
LEMMA ReachedSize ==
    ASSUME Reached, ReadDiffSize
    PROVE  Reached'
<1>1. UNCHANGED <<program, ffrom, fto, fault, format, output>> /\ offset' = 0 /\ doing = "diff_size"
  BY DEF ReadDiffSize, encode_vars
<1>2. to_size' = to_size /\ to_pos' = to_pos
  BY <1>1 DEF to_size, to_pos
<1>3. Images'
  BY <1>1 DEF Reached, Images
<1>4. CASE section' \in Sections /\ doing' = (IF TooLong(section'.diff) THEN "Error" ELSE "diff")
  <2>1. /\ section' \in [diff : Nat, extra : Nat, next : Nat, first : Nat]
        /\ to_pos + section'.diff + section'.extra <= Len(fto)
    <3>1. section.next \in Nat
      BY ReachedFacts
    <3> QED BY <1>4, <3>1 DEF Sections
  <2>2. doing' = "diff" => to_pos + section'.diff <= to_size
    BY <1>4, <2>1, ReachedFacts DEF TooLong
  <2>3. Positions'
    BY <1>1, <1>2, <1>4, <2>1, <2>2, ReachedFacts DEF Reached, Positions, Room
  <2> QED BY <1>1, <1>3, <2>3 DEF Reached
<1>5. CASE to_pos < to_size /\ to_pos = Len(fto) /\ doing' = "Error" /\ UNCHANGED section
  BY <1>1, <1>2, <1>3, <1>5 DEF Reached, Positions
<1>6. CASE to_pos >= to_size /\ doing' = (IF eof THEN "returned" ELSE "Error") /\ UNCHANGED section
  BY <1>1, <1>2, <1>3, <1>6 DEF Reached, Positions, eof
<1> QED BY <1>4, <1>5, <1>6 DEF ReadDiffSize

\* A chunk is some of what is left.
LEMMA ChunkFacts ==
    ASSUME NEW size \in Nat, offset \in Nat, offset < size
    PROVE  ChunkOf(size) \in 1 .. size - offset
  BY MinOfTwo, SequentialPythonAssumption DEF ChunkOf

\* What the DiffReader adds does not make it longer.
LEMMA WithDiffType ==
    ASSUME NEW data, Sequence(data)
    PROVE  Sequence(WithDiff(data)) /\ Len(WithDiff(data)) \in {0, Len(data)}
  BY AddsBytes DEF WithDiff

\* What is written of a section leaves room for the rest,
LEMMA RoomLeft ==
    ASSUME NEW p \in Nat, NEW q \in Nat, NEW n \in Nat, q <= p + n,
           NEW at \in Nat, NEW size \in Nat, NEW more \in Nat, n <= size - at,
           NEW limit \in Int, NEW whole \in Int,
           p + (size - at) <= limit, p + (size - at) + more <= whole
    PROVE  /\ at + n <= size /\ at + n \in Nat
           /\ q + (size - (at + n)) <= limit /\ q + (size - (at + n)) + more <= whole
           /\ q <= limit /\ q <= whole
  OBVIOUS

\* and while it is written.
LEMMA ReachedWrite ==
    ASSUME Reached, NEW data, Sequence(data), NEW n \in Nat, Len(data) = n,
           output' = output \o WithDiff(data), offset' = offset + n,
           UNCHANGED <<program, ffrom, fto, fault, format, doing, section>>,
           \/ doing = "diff" /\ n <= section.diff - offset
           \/ doing = "extra" /\ n <= section.extra - offset
    PROVE  Reached'
<1>1. /\ Sequence(output') /\ to_pos' \in Nat /\ to_pos <= to_pos' /\ to_pos' <= to_pos + n
      /\ to_size' = to_size
  <2>1. Sequence(WithDiff(data)) /\ Len(WithDiff(data)) \in {0, n}
    BY WithDiffType
  <2>2. Sequence(output') /\ Len(output') = Len(output) + Len(WithDiff(data))
    BY <2>1, SequenceConcat DEF Reached
  <2> QED BY <2>1, <2>2, ReachedFacts DEF to_pos, to_size
<1>2. Images'
  BY DEF Reached, Images
<1> DEFINE size == IF doing = "diff" THEN section.diff ELSE section.extra
           more == IF doing = "diff" THEN section.extra ELSE 0
<1>3. /\ size \in Nat /\ more \in Nat /\ offset \in Nat /\ offset <= size /\ n <= size - offset
      /\ Room(size - offset, more) /\ to_size # 0
  BY ReachedFacts DEF Reached, Positions
<1> HIDE DEF size, more
<1>4. /\ offset' <= size /\ offset' \in Nat
      /\ to_pos' + (size - offset') <= to_size /\ to_pos' + (size - offset') + more <= Len(fto)
      /\ to_pos' <= to_size /\ to_pos' <= Len(fto)
  <2>1. to_pos \in Nat /\ to_size \in Int /\ Len(fto) \in Int
    BY ReachedFacts
  <2>2. to_pos + (size - offset) <= to_size /\ to_pos + (size - offset) + more <= Len(fto)
    BY <1>3 DEF Room
  <2> DEFINE q == to_pos'
  <2>3. q \in Nat /\ to_pos <= q /\ q <= to_pos + n
    BY <1>1
  <2> HIDE DEF q
  <2>4. /\ offset + n <= size /\ offset + n \in Nat
        /\ q + (size - (offset + n)) <= to_size /\ q + (size - (offset + n)) + more <= Len(fto)
        /\ q <= to_size /\ q <= Len(fto)
    BY <1>3, <2>1, <2>2, <2>3, RoomLeft
  <2> QED BY <2>4 DEF q
<1>6. Positions'
  BY <1>1, <1>3, <1>4 DEF Reached, Positions, Room, size, more
<1> QED BY <1>1, <1>2, <1>6 DEF Reached

LEMMA ReachedRead ==
    ASSUME Reached, DiffChunk \/ ReadExtraSize \/ ExtraChunk \/ Adjust
    PROVE  Reached'
<1>1. CASE DiffChunk
  <2> DEFINE n == ChunkOf(section.diff)
             from_data == ReadAt(old, from_pos, n)
             diff_data == DiffData(section.first + offset, n)
             data == AddBytes(diff_data, from_data)
  <2>1. n \in 1 .. section.diff - offset /\ doing = "diff"
    BY <1>1, ChunkFacts, ReachedFacts DEF DiffChunk
  <2>2. Sequence(diff_data) /\ Len(diff_data) = n
    <3>1. diff_data = [i \in 1 .. n |-> diff_data[i]]
      BY DEF DiffData
    <3>2. n \in Nat
      BY <2>1, ReachedFacts
    <3> HIDE DEF diff_data, n
    <3> QED BY <3>1, <3>2, SequenceOf
  <2>3. /\ UNCHANGED <<program, ffrom, fto, fault, format, section>>
        /\ \/ doing' = "Exception" /\ UNCHANGED <<output, offset>>
           \/ data # <<>> /\ output' = output \o WithDiff(data) /\ offset' = offset + n
              /\ UNCHANGED doing
    BY <1>1 DEF DiffChunk, encode_vars
  <2> HIDE DEF n, from_data, diff_data
  <2>4. Sequence(data) /\ Len(data) \in {0, n} /\ n \in Nat
    BY <2>1, <2>2, AddsBytes, ReachedFacts
  <2> HIDE DEF data
  <2>5. data # <<>> => Len(data) = n
    BY <2>4 DEF Sequence
  <2>6. CASE doing' = "Exception" /\ UNCHANGED <<output, offset>>
    <3>1. to_size' = to_size /\ to_pos' = to_pos
      BY <2>3, <2>6 DEF to_size, to_pos
    <3> QED BY <2>3, <2>6, <3>1 DEF Reached, Images, Positions
  <2>7. CASE data # <<>> /\ output' = output \o WithDiff(data) /\ offset' = offset + n
             /\ UNCHANGED doing
    <3>1. Len(data) = n /\ n <= section.diff - offset
      BY <2>1, <2>5, <2>7, ReachedFacts
    <3> QED BY <2>1, <2>3, <2>4, <2>7, <3>1, ReachedWrite
  <2> QED BY <2>3, <2>6, <2>7
<1>2. CASE ExtraChunk
  <2> DEFINE n == ChunkOf(section.extra)
             data == SubSeq(fto, to_pos + 1, to_pos + n)
  <2>1. n \in 1 .. section.extra - offset /\ doing = "extra"
    BY <1>2, ChunkFacts, ReachedFacts DEF ExtraChunk
  <2>2. /\ UNCHANGED <<program, ffrom, fto, fault, format, section, doing>>
        /\ output' = output \o WithDiff(data) /\ offset' = offset + n
    BY <1>2 DEF ExtraChunk, encode_vars
  <2> HIDE DEF n
  <2>3. to_pos + n <= Len(fto) /\ n \in Nat
    BY <2>1, ReachedFacts DEF Reached, Positions, Room
  <2>4. Sequence(data) /\ Len(data) = n
    <3>1. fto \in Seq(Byte) /\ \A i \in (to_pos + 1) .. (to_pos + n) : fto[i] \in Byte
      BY <2>3, ReachedFacts DEF Reached, Images
    <3>2. data \in Seq(Byte) /\ Len(data) = n
      BY <2>1, <2>3, <3>1, ReachedFacts, SubSeqProperties, SMTT(30)
    <3> QED BY <3>2 DEF Sequence
  <2> HIDE DEF data
  <2>5. n <= section.extra - offset
    BY <2>1, ReachedFacts
  <2> QED BY <2>1, <2>2, <2>3, <2>4, <2>5, ReachedWrite
<1>3. CASE ReadExtraSize
  <2>1. /\ UNCHANGED <<program, ffrom, fto, fault, format, output, section>> /\ offset' = 0
        /\ doing = "diff" /\ offset = section.diff
        /\ doing' = IF TooLong(section.extra) THEN "Error" ELSE "extra"
    BY <1>3 DEF ReadExtraSize, encode_vars
  <2>2. to_size' = to_size /\ to_pos' = to_pos
    BY <2>1 DEF to_size, to_pos
  <2>3. to_pos + section.extra <= Len(fto)
    <3>1. to_pos + (section.diff - offset) + section.extra <= Len(fto)
      BY <2>1 DEF Room, Reached, Positions
    <3> QED BY <2>1, <3>1, ReachedFacts
  <2>4. doing' = "extra" => to_pos + section.extra <= to_size
    BY <2>1, ReachedFacts DEF TooLong
  <2>5. doing' = "extra" => Room(section.extra - 0, 0)
    BY <2>3, <2>4, ReachedFacts DEF Room
  <2>6. Positions'
    BY <2>1, <2>2, <2>5, ReachedFacts DEF Reached, Positions, Room
  <2> QED BY <2>1, <2>2, <2>6 DEF Reached, Images
<1>4. CASE Adjust
  <2>1. /\ UNCHANGED <<program, ffrom, fto, fault, format, output, section, offset>>
        /\ doing = "extra" /\ doing' = "diff_size"
    BY <1>4 DEF Adjust, encode_vars
  <2>2. to_size' = to_size /\ to_pos' = to_pos
    BY <2>1 DEF to_size, to_pos
  <2> QED BY <2>1, <2>2 DEF Reached, Images, Positions
<1> QED BY <1>1, <1>2, <1>3, <1>4

LEMMA ReachedNext == Reached /\ [Next]_vars => Reached'
<1> SUFFICES ASSUME Reached, [Next]_vars PROVE Reached'
  OBVIOUS
<1>1. CASE UNCHANGED vars
  BY <1>1, ReachedCreate DEF Idle, vars, encode_vars, apply_vars, Reached, Images, Positions, Room, to_size, to_pos
<1>2. CASE Next
  BY <1>2, ReachedCreate, ReachedSize, ReachedRead DEF Next
<1> QED BY <1>1, <1>2

LEMMA ReachedAlways == Spec => []Reached
  BY ReachedInit, ReachedNext, PTL DEF Spec

\* Not more than the announced size is ever written (the two checks of the size of
\* a section against to_size in apply_patch_sequential), whatever is wrong with the
\* patch or the old image, and whatever the data format makes of them.
THEOREM OutputBoundedAlways == Spec => []OutputBounded
<1>1. Reached => OutputBounded
  BY ReachedFacts, MaxWithZero DEF Reached, Positions, OutputBounded
<1> QED BY <1>1, ReachedAlways, PTL

\* apply_patch_sequential returns only when it has written as much as the creator's new
\* image and the header say (its eof check after the loop), unless the header
\* says that there is nothing to write.
THEOREM ReturnsOnlyWholeAlways == Spec => []ReturnsOnlyWhole
<1>1. Reached => ReturnsOnlyWhole
  BY ReachedFacts DEF Reached, Positions, ReturnsOnlyWhole
<1> QED BY <1>1, ReachedAlways, PTL

-----------------------------------------------------------------------------
(* What is written *)

\* Where the applier stands in the old image the creator stood, and what it has written
\* is the beginning of the new image.
Faithful ==
    Applicable =>
        /\ \A i \in 1 .. to_pos : output[i] = program.to[i]
        /\ ~ format => old = program.from
        /\ doing \in {"create", "header", "readers"} => from_pos = 0 /\ section = NoSection
        /\ doing = "diff_size" => from_pos = section.next
        /\ doing = "diff" => /\ from_pos = section.first + offset
                            /\ section.first + section.diff <= Len(ffrom)
        /\ doing = "extra" => from_pos = section.first + section.diff

\* The diff byte is right for the old byte that the creator had.
LEMMA DiffByte == \A a, b \in Byte : (((a - b + 256) % 256) + b) % 256 = a
  BY DEF Byte

LEMMA Converted ==
    ASSUME Reached, Faithful, ReadersConvert, Applicable, doing \in {"diff_size", "diff", "extra"}
    PROVE  /\ old = ffrom
           /\ format => /\ dfdiff \in Seq(Byte) /\ Len(dfdiff) >= to_size
                        /\ \A i \in 1 .. Len(fto) : i <= to_size =>
                              (fto[i] + dfdiff[i]) % 256 = program.to[i]
<1>1. CASE format
  <2>1. DOMAIN fto = 1 .. Len(fto)
    BY DEF Reached, Images
  <2> QED BY <1>1, <2>1 DEF ReadersConvert, Byte
<1>2. CASE ~ format
  BY <1>2 DEF Faithful, Reached, Images
<1> QED BY <1>1, <1>2

\* Data that are the new image as it is encoded become the new image.
LEMMA WritesImage ==
    ASSUME Reached, Faithful, ReadersConvert, Applicable, doing \in {"diff_size", "diff", "extra"},
           NEW data, Sequence(data), NEW n \in Nat, Len(data) = n,
           to_pos + n <= to_size, to_pos + n <= Len(fto),
           \A i \in 1 .. n : data[i] = fto[to_pos + i]
    PROVE  /\ Len(WithDiff(data)) = n
           /\ \A i \in 1 .. n : WithDiff(data)[i] = program.to[to_pos + i]
<1>1. CASE format
  <2> DEFINE sub == SubSeq(dfdiff, to_pos + 1, to_pos + n)
             sum == AddBytes(data, sub)
  <2>1. sub \in Seq(Byte) /\ Len(sub) = n /\ \A i \in 1 .. n : sub[i] = dfdiff[to_pos + i]
    <3>1. dfdiff \in Seq(Byte) /\ Len(dfdiff) >= to_size /\ Len(dfdiff) \in Nat
      BY <1>1, Converted
    <3>2. to_pos + n <= Len(dfdiff)
      BY <3>1, ReachedFacts
    <3>3. to_pos \in Nat
      BY ReachedFacts
    <3>4. /\ sub \in Seq(Byte) /\ Len(sub) = n
          /\ \A i \in 1 .. n : sub[i] = dfdiff[to_pos + i] /\ dfdiff[to_pos + i] \in Byte
      BY <3>1, <3>2, <3>3, Slice
    <3> QED BY <3>4
  <2>2. WithDiff(data) = sum
    BY <1>1 DEF WithDiff
  <2> HIDE DEF sub
  <2>3. Len(sum) = n /\ \A i \in 1 .. n : sum[i] = (data[i] + sub[i]) % 256
    BY <2>1, AddsBytes
  <2> HIDE DEF sum
  <2>4. ASSUME NEW i \in 1 .. n PROVE sum[i] = program.to[to_pos + i]
    <3>1. to_pos + i \in 1 .. Len(fto) /\ to_pos + i <= to_size
      BY ReachedFacts, SMTT(30)
    <3>2. (fto[to_pos + i] + dfdiff[to_pos + i]) % 256 = program.to[to_pos + i]
      BY <1>1, <3>1, Converted
    <3> QED BY <2>1, <2>3, <3>2
  <2> QED BY <2>2, <2>3, <2>4
<1>2. CASE ~ format
  BY <1>2 DEF WithDiff, Reached, Images
<1> QED BY <1>1, <1>2

\* The old image, when it is the one the patch is made for.
LEMMA InitialOld == Init /\ Applicable => old = program.from
<1> SUFFICES ASSUME Init, Applicable PROVE old = program.from
  OBVIOUS
<1>1. program.from \in Seq(Byte) /\ fault.old = 0
  BY SequentialPythonAssumption DEF Init, EncodeInit, Applicable, Byte
<1>2. SubSeq(program.from, 1, Len(program.from) - 0) = program.from
  <2>1. Len(program.from) - 0 = Len(program.from)
    BY <1>1
  <2>2. program.from \in Seq(Byte) /\ Len(program.from) \in Nat
        /\ \A i \in 1 .. Len(program.from) : program.from[i] \in Byte
    BY <1>1
  <2>3. SubSeq(program.from, 1, Len(program.from)) \in Seq(Byte)
        /\ Len(SubSeq(program.from, 1, Len(program.from))) = Len(program.from)
        /\ \A i \in 1 .. Len(program.from) :
              SubSeq(program.from, 1, Len(program.from))[i] = program.from[i]
    BY <2>2, SubSeqProperties
  <2> QED BY <2>1, <2>2, <2>3, SeqEqual
<1> QED BY <1>1, <1>2 DEF Init

LEMMA FaithfulInit == Init => Faithful
<1> SUFFICES ASSUME Init, Applicable PROVE Faithful
  BY DEF Faithful
<1>1. to_pos = 0
  BY DEF Init, to_pos
<1> QED BY <1>1, InitialOld DEF Init, Faithful

LEMMA FaithfulCreate ==
    ASSUME Reached, Faithful,
           Encode \/ Created \/ OutOfPatchData \/ ReadHeader \/ CreateReaders \/ UNCHANGED vars
    PROVE  Faithful'
<1> SUFFICES ASSUME Applicable' PROVE Faithful'
  BY DEF Faithful
<1>1. /\ UNCHANGED <<fault, format, from_pos, output, section, offset>> /\ program' = program
      /\ doing = "create" \/ ffrom' = ffrom
  BY EncodesWithZeros
  DEF Encode, Created, OutOfPatchData, ReadHeader, CreateReaders, vars, apply_vars, encode_vars,
      Raise, Unread
<1>2. Applicable /\ to_pos' = to_pos
  BY <1>1 DEF Applicable, to_pos
<1>3. \A i \in 1 .. to_pos' : output'[i] = program'.to[i]
  BY <1>1, <1>2 DEF Faithful
<1>4. CASE Encode
  <2>1. format /\ format' /\ UNCHANGED doing /\ doing = "create"
    BY <1>4 DEF Encode, apply_vars
  <2> QED BY <1>1, <1>2, <1>3, <2>1 DEF Faithful
<1>5. CASE Created
  BY <1>1, <1>2, <1>3, <1>5 DEF Faithful, Created, Unread
<1>6. CASE OutOfPatchData
  BY <1>1, <1>2, <1>3, <1>6 DEF Faithful, OutOfPatchData, Unread, Raise
<1>7. CASE ReadHeader
  BY <1>1, <1>2, <1>3, <1>7 DEF Faithful, ReadHeader, Unread
<1>8. CASE CreateReaders
  <2>1. doing = "readers" /\ doing' \in {"diff_size", "Exception"} /\ (~ format => old' = old)
    BY <1>8 DEF CreateReaders
  <2>2. from_pos = 0 /\ section = NoSection /\ (~ format => old = program.from)
    BY <1>2, <2>1 DEF Faithful
  <2>3. from_pos' = section'.next
    BY <1>1, <2>2 DEF NoSection
  <2> QED BY <1>1, <1>2, <1>3, <2>1, <2>2, <2>3 DEF Faithful
<1>9. CASE UNCHANGED vars
  BY <1>1, <1>2, <1>3, <1>9 DEF Faithful, vars, apply_vars, encode_vars
<1> QED BY <1>4, <1>5, <1>6, <1>7, <1>8, <1>9

\* A chunk is written that is the new image as it is encoded.
LEMMA FaithfulWrite ==
    ASSUME Reached, Faithful, ReadersConvert, Applicable, doing \in {"diff", "extra"},
           NEW data, Sequence(data), NEW n \in Nat, Len(data) = n,
           to_pos + n <= to_size, to_pos + n <= Len(fto),
           \A i \in 1 .. n : data[i] = fto[to_pos + i],
           output' = output \o WithDiff(data), program' = program
    PROVE  \A i \in 1 .. to_pos' : output'[i] = program'.to[i]
<1> DEFINE written == WithDiff(data)
<1>1. Sequence(written) /\ Len(written) = n /\ \A i \in 1 .. n : written[i] = program.to[to_pos + i]
  BY WithDiffType, WritesImage
<1> HIDE DEF written
<1>2. /\ Len(output') = to_pos + n
      /\ \A i \in 1 .. to_pos + n : output'[i] = IF i <= to_pos THEN output[i] ELSE written[i - to_pos]
  <2>1. Sequence(output) /\ output' = output \o written
    BY DEF Reached, written
  <2>2. /\ Len(output \o written) = Len(output) + Len(written)
        /\ \A i \in 1 .. Len(output) + Len(written) :
              (output \o written)[i] = IF i <= Len(output) THEN output[i] ELSE written[i - Len(output)]
    BY <1>1, <2>1, SequenceConcat
  <2>3. to_pos = Len(output)
    BY DEF to_pos
  <2> QED BY <1>1, <2>1, <2>2, <2>3
<1>3. to_pos' = to_pos + n
  BY <1>2 DEF to_pos
<1>4. ASSUME NEW i \in 1 .. to_pos + n PROVE output'[i] = program.to[i]
  <2>1. CASE i <= to_pos
    <3>1. i \in 1 .. to_pos
      BY <2>1, ReachedFacts
    <3>2. output[i] = program.to[i]
      BY <3>1 DEF Faithful
    <3> QED BY <1>2, <2>1, <3>2
  <2>2. CASE ~ (i <= to_pos)
    <3>1. i - to_pos \in 1 .. n /\ to_pos + (i - to_pos) = i
      BY <2>2, ReachedFacts, SMTT(30)
    <3> QED BY <1>1, <1>2, <2>2, <3>1
  <2> QED BY <2>1, <2>2
<1> QED BY <1>3, <1>4

\* The diff data with the old image make the new image as it is encoded.
LEMMA DiffMakes ==
    ASSUME Reached, Faithful, ReadersConvert, Applicable, doing = "diff",
           NEW n \in Nat, n <= section.diff - offset
    PROVE  LET data == AddBytes(DiffData(section.first + offset, n), ReadAt(old, from_pos, n))
           IN  /\ Sequence(data) /\ Len(data) = n
               /\ Len(ReadAt(old, from_pos, n)) = n
               /\ \A i \in 1 .. n : data[i] = fto[to_pos + i]
<1> DEFINE at == section.first + offset
           diff_data == DiffData(at, n)
           from_data == ReadAt(old, from_pos, n)
           data == AddBytes(diff_data, from_data)
<1>1. /\ at \in Nat /\ from_pos = at /\ at + n <= Len(ffrom) /\ Len(ffrom) \in Nat
      /\ to_pos \in Nat /\ to_pos + n <= Len(fto) /\ old = ffrom
      /\ ffrom \in Seq(Byte) /\ fto \in Seq(Byte)
  <2>1. from_pos = section.first + offset /\ section.first + section.diff <= Len(ffrom)
    BY DEF Faithful
  <2>2. to_pos + (section.diff - offset) + section.extra <= Len(fto)
    BY DEF Reached, Positions, Room
  <2>3. ffrom \in Seq(Byte) /\ fto \in Seq(Byte)
    BY DEF Reached, Images
  <2>4. old = ffrom
    BY Converted
  <2>5. offset <= section.diff /\ section.diff \in Nat /\ section.extra \in Nat /\ section.first \in Nat
        /\ offset \in Nat /\ to_pos \in Nat /\ Len(ffrom) \in Nat /\ Len(fto) \in Nat
    BY ReachedFacts DEF Reached, Positions
  <2>6. at \in Nat /\ at + n <= Len(ffrom) /\ to_pos + n <= Len(fto)
    <3> DEFINE d == section.diff  e == section.extra  f == section.first  p == to_pos
    <3>1. f + d <= Len(ffrom) /\ p + (d - offset) + e <= Len(fto) /\ n <= d - offset
      BY <2>1, <2>2
    <3>2. offset <= d /\ d \in Nat /\ e \in Nat /\ f \in Nat /\ p \in Nat
      BY <2>5
    <3> HIDE DEF d, e, f, p
    <3>3. f + offset \in Nat /\ f + offset + n <= Len(ffrom) /\ p + n <= Len(fto)
      BY <2>5, <3>1, <3>2
    <3> QED BY <3>3 DEF f, p
  <2> QED BY <2>1, <2>3, <2>4, <2>5, <2>6
<1>2. Sequence(diff_data) /\ Len(diff_data) = n
      /\ \A i \in 1 .. n : diff_data[i] = (fto[to_pos + i] - ffrom[at + i] + 256) % 256
  <2>1. diff_data = [i \in 1 .. n |-> diff_data[i]]
        /\ \A i \in 1 .. n : diff_data[i] = (fto[to_pos + i] - ffrom[at + i] + 256) % 256
    BY DEF DiffData
  <2> HIDE DEF diff_data
  <2> QED BY <2>1, SequenceOf
<1> HIDE DEF diff_data
<1>3. Len(from_data) = n /\ \A i \in 1 .. n : from_data[i] = ffrom[at + i] /\ ffrom[at + i] \in Byte
  <2>1. Min({from_pos + n, Len(old)}) = at + n
    BY <1>1, MinOfTwo
  <2>2. from_data = SubSeq(ffrom, at + 1, at + n)
    BY <1>1, <2>1 DEF ReadAt
  <2> HIDE DEF from_data, at
  <2>3. ffrom \in Seq(Byte) /\ at \in Nat /\ n \in Nat /\ at + n <= Len(ffrom)
    BY <1>1
  <2>4. /\ Len(SubSeq(ffrom, at + 1, at + n)) = n
        /\ \A i \in 1 .. n : SubSeq(ffrom, at + 1, at + n)[i] = ffrom[at + i] /\ ffrom[at + i] \in Byte
    BY <2>3, Slice
  <2> QED BY <2>2, <2>4
<1> HIDE DEF from_data
<1>4. Sequence(data) /\ Len(data) = n /\ \A i \in 1 .. n : data[i] = (diff_data[i] + from_data[i]) % 256
  BY <1>2, <1>3, AddsBytes
<1> HIDE DEF data
<1>5. ASSUME NEW i \in 1 .. n PROVE data[i] = fto[to_pos + i]
  <2>1. fto[to_pos + i] \in Byte /\ ffrom[at + i] \in Byte
    BY <1>1, <1>3
  <2>2. data[i] = (((fto[to_pos + i] - ffrom[at + i] + 256) % 256) + ffrom[at + i]) % 256
    BY <1>2, <1>3, <1>4
  <2> HIDE DEF at
  <2> QED BY <2>1, <2>2, DiffByte
<1> QED BY <1>3, <1>4, <1>5 DEF data, diff_data, from_data, at

LEMMA FaithfulSize ==
    ASSUME Reached, Faithful, ReadDiffSize
    PROVE  Faithful'
<1> SUFFICES ASSUME Applicable' PROVE Faithful'
  BY DEF Faithful
<1>1. /\ UNCHANGED <<program, ffrom, fto, fault, format, old, from_pos, output>>
      /\ offset' = 0 /\ doing = "diff_size"
  BY DEF ReadDiffSize, encode_vars
<1>2. Applicable /\ to_pos' = to_pos
  BY <1>1 DEF Applicable, to_pos
<1>3. \A i \in 1 .. to_pos' : output'[i] = program'.to[i]
  BY <1>1, <1>2 DEF Faithful
<1>4. from_pos = section.next
  BY <1>1, <1>2 DEF Faithful
<1>5. CASE section' \in Sections /\ doing' = (IF TooLong(section'.diff) THEN "Error" ELSE "diff")
  <2>1. section'.first = section.next /\ section'.first + section'.diff <= Len(ffrom)
    BY <1>5 DEF Sections
  <2>2. from_pos' = section'.first + offset'
    BY <1>1, <1>4, <2>1, ReachedFacts
  <2> QED BY <1>1, <1>2, <1>3, <1>5, <2>1, <2>2 DEF Faithful
<1>6. CASE doing' \in {"returned", "Error"}
  BY <1>1, <1>2, <1>3, <1>6 DEF Faithful
<1> QED BY <1>5, <1>6 DEF ReadDiffSize

LEMMA FaithfulDiffChunk ==
    ASSUME Reached, Faithful, ReadersConvert, Applicable, DiffChunk
    PROVE  Faithful' /\ doing' = "diff"
<1> DEFINE n == ChunkOf(section.diff)
           from_data == ReadAt(old, from_pos, n)
           data == AddBytes(DiffData(section.first + offset, n), from_data)
<1>1. n \in 1 .. section.diff - offset /\ doing = "diff"
  BY ChunkFacts, ReachedFacts DEF DiffChunk
<1>2. /\ UNCHANGED <<program, ffrom, fto, fault, format, old, section>>
      /\ from_pos' = from_pos + Len(from_data)
      /\ \/ data = <<>>
         \/ output' = output \o WithDiff(data) /\ offset' = offset + n /\ UNCHANGED doing
  BY DEF DiffChunk, encode_vars
<1> HIDE DEF n
<1>3. n \in Nat /\ n > 0 /\ n <= section.diff - offset
  BY <1>1, ReachedFacts
<1>4. /\ Sequence(data) /\ Len(data) = n /\ Len(from_data) = n
      /\ \A i \in 1 .. n : data[i] = fto[to_pos + i]
  BY <1>1, <1>3, DiffMakes
<1> HIDE DEF data, from_data
<1>5. output' = output \o WithDiff(data) /\ offset' = offset + n /\ UNCHANGED doing
  <2>1. Len(<<>>) = 0
    OBVIOUS
  <2> QED BY <1>2, <1>3, <1>4, <2>1
<1>6. to_pos + n <= to_size /\ to_pos + n <= Len(fto)
  <2> DEFINE d == section.diff  e == section.extra  p == to_pos
  <2>1. p + (d - offset) <= to_size /\ p + (d - offset) + e <= Len(fto) /\ n <= d - offset
    BY <1>1, <1>3 DEF Reached, Positions, Room
  <2>2. /\ d \in Nat /\ e \in Nat /\ p \in Nat /\ offset \in Nat
        /\ to_size \in Int /\ Len(fto) \in Nat
    BY ReachedFacts
  <2> HIDE DEF d, e, p
  <2>3. p + n <= to_size /\ p + n <= Len(fto)
    BY <1>3, <2>1, <2>2
  <2> QED BY <2>3 DEF p
<1>7. \A i \in 1 .. to_pos' : output'[i] = program'.to[i]
  BY <1>1, <1>2, <1>3, <1>4, <1>5, <1>6, FaithfulWrite
<1>8. from_pos' = section.first + offset' /\ section.first + section.diff <= Len(ffrom)
  <2>1. from_pos = section.first + offset /\ section.first + section.diff <= Len(ffrom)
    BY <1>1 DEF Faithful
  <2> QED BY <1>2, <1>3, <1>4, <1>5, <2>1, ReachedFacts
<1>9. ~ format => old = program.from
  BY DEF Faithful
<1> QED BY <1>1, <1>2, <1>5, <1>7, <1>8, <1>9 DEF Faithful

LEMMA FaithfulExtraChunk ==
    ASSUME Reached, Faithful, ReadersConvert, Applicable, ExtraChunk
    PROVE  Faithful'
<1> DEFINE n == ChunkOf(section.extra)
           data == SubSeq(fto, to_pos + 1, to_pos + n)
<1>1. n \in 1 .. section.extra - offset /\ doing = "extra"
  BY ChunkFacts, ReachedFacts DEF ExtraChunk
<1>2. /\ UNCHANGED <<program, ffrom, fto, fault, format, old, from_pos, section, doing>>
      /\ output' = output \o WithDiff(data) /\ offset' = offset + n
  BY DEF ExtraChunk, encode_vars
<1> HIDE DEF n
<1>3. n \in Nat /\ n <= section.extra - offset
  BY <1>1, ReachedFacts
<1>4. to_pos + n <= to_size /\ to_pos + n <= Len(fto)
  <2> DEFINE e == section.extra  p == to_pos
  <2>1. p + (e - offset) <= to_size /\ p + (e - offset) + 0 <= Len(fto) /\ n <= e - offset
    BY <1>1, <1>3 DEF Reached, Positions, Room
  <2>2. e \in Nat /\ p \in Nat /\ offset \in Nat /\ to_size \in Int /\ Len(fto) \in Nat
    BY ReachedFacts
  <2> HIDE DEF e, p
  <2>3. p + n <= to_size /\ p + n <= Len(fto)
    BY <1>3, <2>1, <2>2
  <2> QED BY <2>3 DEF p
<1>5. Sequence(data) /\ Len(data) = n /\ \A i \in 1 .. n : data[i] = fto[to_pos + i]
  <2>1. to_pos \in Nat /\ fto \in Seq(Byte)
    BY ReachedFacts DEF Reached, Images
  <2>2. data \in Seq(Byte) /\ Len(data) = n
        /\ \A i \in 1 .. n : data[i] = fto[to_pos + i] /\ fto[to_pos + i] \in Byte
    BY <1>3, <1>4, <2>1, Slice
  <2> QED BY <2>2 DEF Sequence
<1> HIDE DEF data
<1>6. \A i \in 1 .. to_pos' : output'[i] = program'.to[i]
  BY <1>1, <1>2, <1>3, <1>4, <1>5, FaithfulWrite
<1> QED BY <1>1, <1>2, <1>6 DEF Faithful

LEMMA FaithfulNext == Reached /\ Faithful /\ ReadersConvert /\ [Next]_vars => Faithful'
<1> SUFFICES ASSUME Reached, Faithful, ReadersConvert, [Next]_vars, Applicable' PROVE Faithful'
  BY DEF Faithful
<1>1. CASE Encode \/ Created \/ OutOfPatchData \/ ReadHeader \/ CreateReaders \/ UNCHANGED vars
  BY <1>1, FaithfulCreate
<1>2. CASE ReadDiffSize
  BY <1>2, FaithfulSize
<1>3. CASE DiffChunk \/ ExtraChunk
  <2>1. Applicable
    BY <1>3 DEF DiffChunk, ExtraChunk, Applicable
  <2> QED BY <1>3, <2>1, FaithfulDiffChunk, FaithfulExtraChunk
<1>4. CASE ReadExtraSize \/ Adjust
  <2>1. UNCHANGED <<program, ffrom, fto, fault, format, old, output, section>>
    BY <1>4 DEF ReadExtraSize, Adjust, encode_vars
  <2>2. Applicable /\ to_pos' = to_pos
    BY <2>1 DEF Applicable, to_pos
  <2>3. \A i \in 1 .. to_pos' : output'[i] = program'.to[i]
    BY <2>1, <2>2 DEF Faithful
  <2>4. CASE ReadExtraSize
    <3>1. doing = "diff" /\ offset = section.diff /\ from_pos' = from_pos /\ doing' \in {"Error", "extra"}
      BY <2>4 DEF ReadExtraSize
    <3>2. from_pos = section.first + section.diff
      BY <2>2, <3>1 DEF Faithful
    <3> QED BY <2>1, <2>2, <2>3, <3>1, <3>2 DEF Faithful
  <2>5. CASE Adjust
    <3>1. /\ doing = "extra" /\ doing' = "diff_size"
          /\ from_pos' = from_pos + section.next - (section.first + section.diff)
      BY <2>5 DEF Adjust
    <3>2. from_pos = section.first + section.diff
      BY <2>2, <3>1 DEF Faithful
    <3>3. from_pos' = section'.next
      BY <2>1, <3>1, <3>2, ReachedFacts
    <3> QED BY <2>1, <2>2, <2>3, <3>1, <3>3 DEF Faithful
  <2> QED BY <1>4, <2>4, <2>5
<1> QED BY <1>1, <1>2, <1>3, <1>4 DEF Next, Idle

-----------------------------------------------------------------------------
(* The data format *)

\* What is asked of the programs when a data format is given: the segments that the
\* creator is told are the ones that the patch says, and pointers are below 2^31.
Convertible == TRUE \in Formats => SegmentsFit /\ PointersLow

\* The creator encodes the images; before the patch is read nothing is done with them.
Prepared ==
    /\ program \in Programs /\ format \in Formats
    /\ Encoding(program, ffrom, fto, encoded, blocks)
    /\ Applicable /\ doing \in {"create", "header", "readers"} => old = program.from

LEMMA ProgramsType == \A p \in Programs : ProgramType(p)
  BY SequentialPythonAssumption DEF ProgramType, Byte

LEMMA PreparedInit == Init => Prepared
<1> SUFFICES ASSUME Init PROVE Prepared
  OBVIOUS
<1>1. program \in Programs /\ format \in Formats /\ EncodeInit
  BY DEF Init, EncodeInit
<1>2. Encoding(program, ffrom, fto, encoded, blocks)
  BY <1>1, ProgramsType, EncodeStarts
<1>3. Applicable => old = program.from
  BY InitialOld
<1> QED BY <1>1, <1>2, <1>3 DEF Prepared

LEMMA PreparedNext == Prepared /\ [Next]_vars => Prepared'
<1> SUFFICES ASSUME Prepared, [Next]_vars PROVE Prepared'
  OBVIOUS
<1>1. CASE Encode
  <2>1. ProgramType(program) /\ EncodeKind /\ UNCHANGED <<fault, format, doing, old>>
    BY <1>1, ProgramsType DEF Prepared, Encode, apply_vars
  <2>2. program' = program /\ Encoding(program, ffrom', fto', encoded', blocks')
    BY <2>1, EncodeKindEncodes DEF Prepared
  <2> QED BY <2>1, <2>2 DEF Prepared, Applicable
<1>2. CASE ~ Encode
  <2>1. UNCHANGED <<program, ffrom, fto, encoded, blocks, fault, format>>
    BY <1>2 DEF Next, Created, OutOfPatchData, ReadHeader, CreateReaders, ReadDiffSize, DiffChunk,
           ReadExtraSize, ExtraChunk, Adjust, Idle, Raise, Unread, vars, apply_vars, encode_vars
  <2>2. doing' \in {"create", "header", "readers"} =>
            doing \in {"create", "header", "readers"} /\ old' = old
    BY <1>2 DEF Next, Created, OutOfPatchData, ReadHeader, CreateReaders, ReadDiffSize, DiffChunk,
           ReadExtraSize, ExtraChunk, Adjust, Idle, Raise, Unread, vars, apply_vars
  <2> QED BY <2>1, <2>2 DEF Prepared, Applicable
<1> QED BY <1>1, <1>2

LEMMA ConvertInit == Init => ReadersConvert
  BY DEF Init, ReadersConvert

\* The readers are made,
LEMMA ConvertCreate ==
    ASSUME Convertible, Reached, Prepared, CreateReaders, format, Applicable
    PROVE  ReadersConvert'
<1> DEFINE readers == Readers(old, to_size)
<1>1. /\ ProgramType(program) /\ SegmentFits(program.segment.from) /\ Low(program.segment.to)
      /\ Encoding(program, ffrom, fto, encoded, blocks) /\ to_size \in Int
  <2>1. program \in Programs /\ SegmentsFit /\ PointersLow
    BY DEF Prepared, Convertible
  <2>2. SegmentFits(program.segment.from)
    BY <2>1 DEF SegmentsFit, SegmentFits
  <2>3. Low(program.segment.to)
    BY SMT, <2>1 DEF PointersLow, Low, Top
  <2> QED BY <2>1, <2>2, <2>3, ProgramsType, ReachedFacts DEF Prepared
<1>2. old = program.from
  BY DEF Prepared, CreateReaders
<1>3. /\ ~ readers.raised /\ readers.from = ffrom
      /\ readers.diff \in Seq(Byte) /\ Len(readers.diff) >= to_size
      /\ \A i \in 1 .. Len(fto) : i <= to_size => (fto[i] + readers.diff[i]) % 256 = program.to[i]
  BY <1>1, <1>2, ReadersRestore
<1>4. /\ doing' = "diff_size" /\ old' = readers.from /\ dfdiff' = readers.diff
      /\ UNCHANGED <<program, ffrom, fto, fault, format>>
  BY <1>3 DEF CreateReaders, encode_vars
<1> HIDE DEF readers
<1>5. to_size' = to_size /\ DOMAIN fto = 1 .. Len(fto)
  BY <1>4 DEF to_size, Reached, Images
<1> QED BY <1>3, <1>4, <1>5 DEF ReadersConvert, Byte

\* and stay what they are.
LEMMA ConvertNext ==
    ASSUME Convertible
    PROVE  Reached /\ Faithful /\ Prepared /\ ReadersConvert /\ [Next]_vars => ReadersConvert'
<1> SUFFICES ASSUME Reached, Faithful, Prepared, ReadersConvert, [Next]_vars, format', Applicable'
             PROVE  ReadersConvert'
  BY DEF ReadersConvert
<1>1. UNCHANGED <<fault, format>>
  BY DEF Next, Encode, Created, OutOfPatchData, ReadHeader, CreateReaders, ReadDiffSize, DiffChunk,
         ReadExtraSize, ExtraChunk, Adjust, Idle, Raise, Unread, vars, apply_vars
<1>2. format /\ Applicable
  BY <1>1 DEF Applicable
<1>3. CASE CreateReaders
  BY <1>2, <1>3, ConvertCreate
<1>4. CASE Encode
  <2>1. doing = "create" /\ doing' = doing
    BY <1>4 DEF Encode, apply_vars
  <2> QED BY <2>1 DEF ReadersConvert
<1>5. CASE Created \/ OutOfPatchData \/ ReadHeader
  <2>1. doing' \in {"header", "Error", "returned", "readers"}
    BY <1>5 DEF Created, OutOfPatchData, ReadHeader, Raise
  <2> QED BY <2>1 DEF ReadersConvert
<1>6. CASE ReadDiffSize \/ DiffChunk \/ ReadExtraSize \/ ExtraChunk \/ Adjust
  <2>1. /\ doing \in {"diff_size", "diff", "extra"}
        /\ UNCHANGED <<program, fto, ffrom, fault, old, dfdiff>>
    BY <1>6 DEF ReadDiffSize, DiffChunk, ReadExtraSize, ExtraChunk, Adjust, encode_vars
  <2>2. doing' # "Exception"
    <3>1. CASE DiffChunk
      BY <1>2, <3>1, FaithfulDiffChunk
    <3>2. CASE ReadDiffSize \/ ReadExtraSize \/ ExtraChunk \/ Adjust
      BY <2>1, <3>2 DEF ReadDiffSize, ReadExtraSize, ExtraChunk, Adjust
    <3> QED BY <1>6, <3>1, <3>2
  <2>3. to_size' = to_size
    BY <2>1 DEF to_size
  <2> QED BY <1>2, <2>1, <2>2, <2>3 DEF ReadersConvert
<1>7. CASE Idle \/ UNCHANGED vars
  BY <1>7, ZenonT(60) DEF Idle, vars, apply_vars, encode_vars, ReadersConvert, Applicable, to_size
<1> QED BY <1>3, <1>4, <1>5, <1>6, <1>7 DEF Next

\* Together they are inductive.
LEMMA ConvertAlways ==
    ASSUME Convertible
    PROVE  Spec => [](Reached /\ Faithful /\ Prepared /\ ReadersConvert)
  BY ReachedInit, FaithfulInit, PreparedInit, ConvertInit, ReachedNext, FaithfulNext, PreparedNext,
     ConvertNext, PTL DEF Spec

\* The data format: whatever words it finds in the images and in whatever way they overlap,
\* the FromReader and the DiffReader that the applier makes of the patch and the old image
\* are what the creator encoded and what gives the new image back
\* (data_format/__init__.py, arm_cortex_m4.py), and no exception is raised, if the segments
\* fit and the addresses are low; nothing is asked when no data format is given.
THEOREM ReadersConvertAlways ==
    ASSUME Convertible
    PROVE  Spec => []ReadersConvert
  BY ConvertAlways, PTL

-----------------------------------------------------------------------------
(* The new image *)

\* What is written is the beginning of the new image at all times, with a data format
\* or without, wherever the patch is cut and whatever size its header says.
THEOREM OutputIsImageAlways ==
    ASSUME Convertible
    PROVE  Spec => []OutputIsImage
<1>1. Reached /\ Faithful => OutputIsImage
  <2> SUFFICES ASSUME Reached, Faithful, Applicable PROVE IsPrefix(output, program.to)
    BY DEF OutputIsImage
  <2>1. PICK S : output \in Seq(S)
    BY DEF Reached, Sequence
  <2> DEFINE T == S \cup Byte
  <2>2. output \in Seq(T) /\ program.to \in Seq(T)
    <3>1. Len(output) \in Nat /\ output = [i \in 1 .. Len(output) |-> output[i]]
          /\ \A i \in 1 .. Len(output) : output[i] \in S
      BY <2>1
    <3>2. program.to \in Seq(Byte)
      BY DEF Reached, Images
    <3>3. Len(program.to) \in Nat /\ program.to = [i \in 1 .. Len(program.to) |-> program.to[i]]
          /\ \A i \in 1 .. Len(program.to) : program.to[i] \in Byte
      BY <3>2
    <3> QED BY <3>1, <3>3
  <2> HIDE DEF T
  <2>3. Len(output) <= Len(program.to) /\ \A i \in 1 .. Len(output) : output[i] = program.to[i]
    BY ReachedFacts DEF Reached, Positions, Faithful, to_pos
  <2>4. Begins(output, program.to) /\ Begins(output, output)
    BY <2>2, <2>3, BeginsPointwise, BeginsItself
  <2> QED BY <2>3, <2>4 DEF Begins, IsPrefix
<1> QED BY <1>1, ConvertAlways, PTL

\* A patch with nothing wrong, applied to the image it was made for.
Genuine == Applicable /\ fault.size = 0 /\ ~ fault.cut

\* Nothing is refused; an exception could only come from the data format.
Accepting == Genuine => doing # "Error" /\ (~ format => doing # "Exception")

LEMMA AcceptingInit == Init => Accepting
  BY DEF Init, Accepting

LEMMA AcceptingNext ==
    Reached /\ Faithful /\ Accepting /\ ReadersConvert /\ [Next]_vars => Accepting'
<1> SUFFICES ASSUME Reached, Faithful, Accepting, ReadersConvert, [Next]_vars, Genuine'
             PROVE  doing' # "Error" /\ (~ format' => doing' # "Exception")
  BY DEF Accepting
<1>1. UNCHANGED <<fault, format>> /\ (doing = "create" \/ UNCHANGED <<program, fto>>)
  BY DEF Next, Encode, Created, OutOfPatchData, ReadHeader, CreateReaders, ReadDiffSize, DiffChunk,
         ReadExtraSize, ExtraChunk, Adjust, Idle, Raise, Unread, vars, apply_vars, encode_vars
<1>2. /\ Genuine /\ Applicable /\ fault.size = 0 /\ ~ fault.cut
      /\ doing # "Error" /\ (~ format => doing # "Exception")
  BY <1>1 DEF Genuine, Accepting, Applicable
<1>3. to_size = Len(fto) /\ to_pos \in Nat /\ Len(fto) \in Nat
  BY <1>2, ReachedFacts DEF to_size
<1>4. CASE Encode \/ Created \/ ReadHeader \/ CreateReaders \/ ExtraChunk \/ Adjust \/ Idle \/ UNCHANGED vars
  BY <1>1, <1>2, <1>4
  DEF Encode, Created, ReadHeader, CreateReaders, ExtraChunk, Adjust, Idle, Unread, vars, apply_vars
<1>5. CASE OutOfPatchData
  <2>1. doing = "readers" /\ program.to = <<>> /\ to_size # 0
    BY <1>2, <1>5 DEF OutOfPatchData, Empty, Reached, Positions
  <2>2. Len(<<>>) = 0
    OBVIOUS
  <2> QED BY <1>3, <2>1, <2>2, ReachedFacts
<1>6. CASE ReadDiffSize
  <2>1. to_pos <= Len(fto)
    BY DEF Reached, Positions
  <2>2. CASE section' \in Sections /\ doing' = (IF TooLong(section'.diff) THEN "Error" ELSE "diff")
    <3>1. section'.diff \in Nat /\ section'.extra \in Nat /\ to_pos + section'.diff + section'.extra <= Len(fto)
      BY <2>2 DEF Sections
    <3>2. ~ TooLong(section'.diff)
      BY <1>3, <3>1 DEF TooLong
    <3> QED BY <2>2, <3>2
  <2>3. CASE to_pos < to_size /\ to_pos = Len(fto)
    BY <1>3, <2>3
  <2>4. CASE to_pos >= to_size /\ doing' = (IF eof THEN "returned" ELSE "Error")
    BY <1>2, <1>3, <2>1, <2>4 DEF eof
  <2> QED BY <1>6, <2>2, <2>3, <2>4 DEF ReadDiffSize
<1>7. CASE DiffChunk
  BY <1>2, <1>7, FaithfulDiffChunk
<1>8. CASE ReadExtraSize
  <2>1. doing = "diff" /\ offset = section.diff /\ doing' = IF TooLong(section.extra) THEN "Error" ELSE "extra"
    BY <1>8 DEF ReadExtraSize
  <2>2. to_pos + (section.diff - offset) + section.extra <= Len(fto)
    BY <2>1 DEF Reached, Positions, Room
  <2>3. ~ TooLong(section.extra)
    BY <1>3, <2>1, <2>2, ReachedFacts DEF TooLong
  <2> QED BY <2>1, <2>3
<1> QED BY <1>4, <1>5, <1>6, <1>7, <1>8 DEF Next

\* A patch with nothing wrong, applied to the image it was made for, is never refused,
\* and the applier returns with the new image.
THEOREM GenuineAppliesAlways ==
    ASSUME Convertible
    PROVE  Spec => []GenuineApplies
<1>1. Reached /\ Faithful /\ Accepting /\ ReadersConvert => GenuineApplies
  <2> SUFFICES ASSUME Reached, Faithful, Accepting, ReadersConvert, Genuine, Ended
               PROVE  doing = "returned" /\ output = program.to
    BY DEF GenuineApplies, Genuine
  <2>1. doing = "returned"
    BY DEF Accepting, ReadersConvert, Genuine, Ended, Reached
  <2>2. to_size = Len(program.to)
    BY ReachedFacts DEF Genuine, to_size
  <2>3. to_pos = Len(program.to)
    BY <2>1, <2>2, ReachedFacts DEF Reached, Positions
  <2>4. \A i \in 1 .. Len(program.to) : output[i] = program.to[i]
    BY <2>3 DEF Genuine, Faithful
  <2>5. Len(output) = Len(program.to) /\ Len(output) \in Nat
    BY <2>3, ReachedFacts DEF to_pos
  <2>6. output = [i \in 1 .. Len(output) |-> output[i]]
    BY DEF Reached, Sequence
  <2>7. program.to = [i \in 1 .. Len(program.to) |-> program.to[i]]
    BY DEF Reached, Images
  <2> QED BY <2>1, <2>4, <2>5, <2>6, <2>7
<1> QED BY <1>1, ConvertAlways, AcceptingInit, AcceptingNext, PTL DEF Spec
=============================================================================
