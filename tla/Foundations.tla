---------------------------- MODULE Foundations ----------------------------
(***************************************************************************)
(* What the proofs rest on that no state enters: induction over the        *)
(* natural numbers, and what a recursive definition computes, in terms of  *)
(* sets and functions; sequences that begin others or lie in them; powers  *)
(* and remainders; the format of CRLE; windows on the end of a sequence;   *)
(* the data of the decoders of heatshrink and LZMA.                        *)
(***************************************************************************)
EXTENDS Integers, Sequences, SequenceTheorems, WellFoundedInduction, TLAPS

Cf == INSTANCE CrleFormat

\* A set of numbers that is not empty has a least element.
LEMMA LeastElement ==
    ASSUME NEW T \in SUBSET Nat, T # {}
    PROVE  \E x \in T : \A y \in T : x <= y
<1> DEFINE R == OpToRel(<, Nat)
<1>1. IsWellFoundedOn(R, Nat)
  BY NatLessThanWellFounded
<1>2. \A x \in T, y \in T : <<y, x>> \in R <=> y < x
  BY DEF OpToRel
<1> HIDE DEF R
<1>3. PICK x \in T : \A y \in T : ~ (<<y, x>> \in R)
  BY <1>1, WFMin
<1>4. \A y \in T : ~ (y < x)
  BY <1>2, <1>3
<1>5. \A y \in T : x <= y
  BY <1>4
<1> QED BY <1>5

\* Induction: the set S holds the numbers with the property.
LEMMA InductionOnNat ==
    ASSUME NEW S, 0 \in S, \A n \in Nat : n \in S => n + 1 \in S
    PROVE  \A n \in Nat : n \in S
<1> SUFFICES ASSUME Nat \ S # {} PROVE FALSE
  OBVIOUS
<1>1. PICK x \in Nat \ S : \A y \in Nat \ S : x <= y
  BY LeastElement
<1>2. x - 1 \in Nat /\ x - 1 \in S
  BY <1>1
<1> QED BY <1>1, <1>2

\* The same for the numbers up to n.
LEMMA InductionUpTo ==
    ASSUME NEW n \in Nat, NEW S, 0 \in S, \A k \in 0 .. n - 1 : k \in S => k + 1 \in S
    PROVE  \A k \in 0 .. n : k \in S
<1> DEFINE T == {k \in Nat : k <= n => k \in S}
<1>1. 0 \in T
  OBVIOUS
<1>2. ASSUME NEW k \in Nat, k \in T PROVE k + 1 \in T
  BY <1>2
<1> HIDE DEF T
<1>3. \A k \in Nat : k \in T
  BY <1>1, <1>2, InductionOnNat
<1> QED BY <1>3 DEF T

\* A function of the numbers up to n can be given by its value at 0 and by how each
\* value follows from the one before: recursive definitions of this form define what
\* they say.
Recursion(g, base, step, n) ==
    g = [k \in 0 .. n |-> IF k = 0 THEN base ELSE step[<<k, g[k - 1]>>]]

LEMMA RecursionUpTo ==
    ASSUME NEW V, NEW base \in V, NEW N \in Nat, NEW step \in [(1 .. N) \X V -> V]
    PROVE  \E g \in [0 .. N -> V] : Recursion(g, base, step, N)
<1> DEFINE Defined(n) == \E g \in [0 .. n -> V] : Recursion(g, base, step, n)
           S == {n \in 0 .. N : Defined(n)}
<1>1. 0 \in S
  <2> DEFINE g == [k \in 0 .. 0 |-> base]
  <2>1. g \in [0 .. 0 -> V]
    OBVIOUS
  <2>2. Recursion(g, base, step, 0)
    BY DEF Recursion
  <2> HIDE DEF g
  <2>3. Defined(0)
    BY <2>1, <2>2
  <2>4. 0 \in 0 .. N
    OBVIOUS
  <2> HIDE DEF Defined
  <2> QED BY <2>3, <2>4
<1>2. ASSUME NEW n \in 0 .. N - 1, n \in S PROVE n + 1 \in S
  <2>1. PICK g \in [0 .. n -> V] : Recursion(g, base, step, n)
    BY <1>2
  <2> DEFINE v == step[<<n + 1, g[n]>>]
             h == [k \in 0 .. n + 1 |-> IF k <= n THEN g[k] ELSE v]
  <2>2. v \in V
    BY <2>1
  <2> HIDE DEF v
  <2>3. h \in [0 .. n + 1 -> V]
    BY <2>1, <2>2
  <2>4. (\A k \in 0 .. n : h[k] = g[k]) /\ h[n + 1] = v
    OBVIOUS
  <2> HIDE DEF h
  <2>8. g[0] = base /\ \A k \in 1 .. n : g[k] = step[<<k, g[k - 1]>>]
    BY <2>1 DEF Recursion
  <2>9. h[0] = base
    BY <2>4, <2>8
  <2>10. ASSUME NEW k \in 1 .. n + 1 PROVE h[k] = step[<<k, h[k - 1]>>]
    <3>1. CASE k \in 1 .. n
      <4>1. k - 1 \in 0 .. n /\ k \in 0 .. n
        BY <3>1
      <4> QED BY <2>4, <2>8, <3>1, <4>1
    <3>2. CASE k = n + 1
      <4>1. h[k - 1] = g[n]
        BY <2>4, <3>2
      <4> QED BY <2>4, <3>2, <4>1 DEF v
    <3> QED BY <3>1, <3>2
  <2>5. Recursion(h, base, step, n + 1)
    BY <2>3, <2>9, <2>10 DEF Recursion
  <2>6. Defined(n + 1)
    BY <2>3, <2>5
  <2>7. n + 1 \in 0 .. N
    OBVIOUS
  <2> HIDE DEF Defined
  <2> QED BY <2>6, <2>7
<1> HIDE DEF S
<1>3. \A n \in 0 .. N : n \in S
  BY <1>1, <1>2, InductionUpTo
<1>4. N \in S
  BY <1>3
<1> QED BY <1>4 DEF S

\* A recursion that goes on to another argument until it comes to an end, with a measure
\* of how far it is from there.
TailRecursion(f, args, last, base, next) ==
    f = [p \in args |-> IF p \in last THEN base[p] ELSE f[next[p]]]

Approaches(args, last, next, measure, n) ==
    /\ measure \in [args -> 0 .. n]
    /\ next \in [args -> args]
    /\ \A p \in args : p \in last \/ measure[next[p]] < measure[p]

LEMMA TailRecursionDefines ==
    ASSUME NEW V, NEW args, NEW last, NEW base \in [args -> V], NEW next, NEW measure,
           NEW n \in Nat, Approaches(args, last, next, measure, n)
    PROVE  \E f \in [args -> V] : TailRecursion(f, args, last, base, next)
<1> DEFINE F == [args -> V]
           step == [x \in (1 .. n + 1) \X F |->
                       [p \in args |-> IF p \in last THEN base[p] ELSE x[2][next[p]]]]
<1>0. /\ measure \in [args -> 0 .. n] /\ next \in [args -> args]
      /\ \A p \in args : p \in last \/ measure[next[p]] < measure[p]
  BY DEF Approaches
<1>1. step \in [(1 .. n + 1) \X F -> F]
  BY <1>0
<1>2. n + 1 \in Nat /\ base \in F
  OBVIOUS
<1>3. \A k \in 1 .. n + 1 : \A h \in F :
         step[<<k, h>>] = [p \in args |-> IF p \in last THEN base[p] ELSE h[next[p]]]
  OBVIOUS
<1> HIDE DEF step
<1>4. PICK g \in [0 .. n + 1 -> F] : Recursion(g, base, step, n + 1)
  BY <1>1, <1>2, RecursionUpTo
<1>5. g[0] = base
  BY <1>4 DEF Recursion
<1>6. \A k \in 1 .. n + 1 : g[k] = step[<<k, g[k - 1]>>]
  BY <1>4 DEF Recursion
<1>7. ASSUME NEW k \in 1 .. n + 1, NEW p \in args
      PROVE  g[k][p] = IF p \in last THEN base[p] ELSE g[k - 1][next[p]]
  <2>1. k - 1 \in 0 .. n + 1
    OBVIOUS
  <2>2. g[k - 1] \in F
    BY <1>4, <2>1
  <2>3. g[k] = [q \in args |-> IF q \in last THEN base[q] ELSE g[k - 1][next[q]]]
    BY <1>3, <1>6, <2>2
  <2> QED BY <2>3
<1> DEFINE Stable(k) == \A p \in args : measure[p] <= k => g[k + 1][p] = g[k][p]
           S == {k \in 0 .. n : Stable(k)}
<1>8. 0 \in S
  <2>1. ASSUME NEW p \in args, measure[p] <= 0 PROVE g[1][p] = g[0][p]
    <3>1. p \in last
      BY <1>0, <2>1
    <3>2. 1 \in 1 .. n + 1
      OBVIOUS
    <3> QED BY <1>5, <1>7, <3>1, <3>2
  <2> QED BY <2>1
<1>9. ASSUME NEW k \in 0 .. n - 1, k \in S PROVE k + 1 \in S
  <2>1. ASSUME NEW p \in args, measure[p] <= k + 1, p \notin last
        PROVE  g[k + 1 + 1][p] = g[k + 1][p]
    <3> DEFINE q == next[p]
    <3>1. q \in args /\ measure[q] <= k
      BY <1>0, <2>1
    <3> HIDE DEF q
    <3>2. k + 1 \in 1 .. n + 1 /\ k + 1 + 1 \in 1 .. n + 1
      OBVIOUS
    <3>3. g[k + 1 + 1][p] = g[k + 1][q] /\ g[k + 1][p] = g[k][q]
      BY <1>7, <2>1, <3>2 DEF q
    <3>4. g[k + 1][q] = g[k][q]
      BY <1>9, <3>1
    <3> QED BY <3>3, <3>4
  <2>2. ASSUME NEW p \in args, p \in last PROVE g[k + 1 + 1][p] = g[k + 1][p]
    <3>1. k + 1 \in 1 .. n + 1 /\ k + 1 + 1 \in 1 .. n + 1
      OBVIOUS
    <3> QED BY <1>7, <2>2, <3>1
  <2>3. k + 1 \in 0 .. n
    OBVIOUS
  <2> QED BY <2>1, <2>2, <2>3
<1> HIDE DEF S
<1>10. \A k \in 0 .. n : k \in S
  BY <1>8, <1>9, InductionUpTo
<1>11. Stable(n)
  BY <1>10 DEF S
<1> DEFINE f == g[n]
<1>12. f \in F
  BY <1>4
<1>13. ASSUME NEW p \in args PROVE f[p] = IF p \in last THEN base[p] ELSE f[next[p]]
  <2>1. measure[p] <= n /\ n + 1 \in 1 .. n + 1 /\ n + 1 - 1 = n
    BY <1>0
  <2>2. g[n + 1][p] = f[p]
    BY <1>11, <2>1
  <2>3. g[n + 1][p] = IF p \in last THEN base[p] ELSE g[n + 1 - 1][next[p]]
    BY <1>7, <2>1
  <2> QED BY <2>1, <2>2, <2>3
<1> HIDE DEF f
<1> QED BY <1>12, <1>13 DEF TailRecursion

\* Such a recursion defines one function only: its value lies in the set of the values
\* that it may end with.
LEMMA TailRecursionValue ==
    ASSUME NEW V, NEW args, NEW last, NEW base \in [args -> V], NEW next, NEW measure,
           NEW n \in Nat, Approaches(args, last, next, measure, n),
           NEW f, TailRecursion(f, args, last, base, next), NEW p \in args
    PROVE  f[p] \in V
<1> DEFINE Valued(k) == \A q \in args : measure[q] <= k => f[q] \in V
           S == {k \in 0 .. n : Valued(k)}
<1>0. /\ measure \in [args -> 0 .. n] /\ next \in [args -> args]
      /\ \A q \in args : q \in last \/ measure[next[q]] < measure[q]
  BY DEF Approaches
<1>1. \A q \in args : f[q] = IF q \in last THEN base[q] ELSE f[next[q]]
  BY DEF TailRecursion
<1>2. 0 \in S
  <2>1. ASSUME NEW q \in args, measure[q] <= 0 PROVE f[q] \in V
    <3>1. q \in last
      BY <1>0, <2>1
    <3> QED BY <1>1, <3>1
  <2> QED BY <2>1
<1>3. ASSUME NEW k \in 0 .. n - 1, k \in S PROVE k + 1 \in S
  <2>1. ASSUME NEW q \in args, measure[q] <= k + 1 PROVE f[q] \in V
    <3>1. CASE q \in last
      BY <1>1, <3>1
    <3>2. CASE q \notin last
      <4>1. next[q] \in args /\ measure[next[q]] <= k
        BY <1>0, <2>1, <3>2
      <4> QED BY <1>1, <1>3, <3>2, <4>1
    <3> QED BY <3>1, <3>2
  <2> QED BY <2>1
<1> HIDE DEF S
<1>4. \A k \in 0 .. n : k \in S
  BY <1>2, <1>3, InductionUpTo
<1>5. Valued(n)
  BY <1>4 DEF S
<1> QED BY <1>0, <1>5

\* A recursion over the natural numbers that goes on to a smaller one, whichever it is,
\* until it comes to one of the last.
Descent(f, last, base, next, step) ==
    f = [n \in Nat |-> IF n \in last THEN base[n] ELSE step[<<n, f[next[n]]>>]]

LEMMA DescentDefines ==
    ASSUME NEW V, NEW last, NEW base \in [Nat -> V], NEW next \in [Nat -> Nat],
           NEW step \in [Nat \X V -> V], \A n \in Nat : n \in last \/ next[n] < n
    PROVE  \E f \in [Nat -> V] : Descent(f, last, base, next, step)
<1> DEFINE Value(g, n) == IF n \in last THEN base[n] ELSE step[<<n, g[next[n]]>>]
           Solves(g, N) == g \in [0 .. N -> V] /\ \A n \in 0 .. N : g[n] = Value(g, n)
           S == {N \in Nat : \E g \in [0 .. N -> V] : Solves(g, N)}
<1>1. ASSUME NEW N \in Nat, NEW g, N = 0 \/ g \in [0 .. N - 1 -> V],
             N > 0 => Solves(g, N - 1)
      PROVE  \E h \in [0 .. N -> V] : Solves(h, N)
  <2> DEFINE v == Value(g, N)
             h == [n \in 0 .. N |-> IF n = N THEN v ELSE g[n]]
  <2>1. v \in V
    <3>1. CASE N \in last
      BY <3>1
    <3>2. CASE N \notin last
      <4>1. next[N] \in 0 .. N - 1
        BY <3>2
      <4>2. g[next[N]] \in V
        BY <1>1, <4>1
      <4> QED BY <3>2, <4>2
    <3> QED BY <3>1, <3>2
  <2> HIDE DEF v
  <2>2. h \in [0 .. N -> V] /\ h[N] = v /\ \A n \in 0 .. N - 1 : h[n] = g[n]
    <3>1. \A n \in 0 .. N : n # N => n \in 0 .. N - 1 /\ N # 0
      OBVIOUS
    <3>2. \A n \in 0 .. N : n # N => g[n] \in V
      BY <1>1, <3>1
    <3> QED BY <2>1, <3>2
  <2> HIDE DEF h
  <2>3. ASSUME NEW n \in 0 .. N PROVE h[n] = Value(h, n)
    <3>1. CASE n \in last
      <4>1. CASE n = N
        BY <2>2, <3>1, <4>1 DEF v
      <4>2. CASE n # N
        <5>1. n \in 0 .. N - 1 /\ N > 0
          BY <4>2
        <5>2. g[n] = Value(g, n)
          BY <1>1, <5>1
        <5> QED BY <2>2, <3>1, <5>1, <5>2
      <4> QED BY <4>1, <4>2
    <3>2. CASE n \notin last
      <4>1. next[n] \in 0 .. N - 1 /\ N > 0
        BY <3>2
      <4>2. h[next[n]] = g[next[n]]
        BY <2>2, <4>1
      <4>3. CASE n = N
        BY <2>2, <3>2, <4>2, <4>3 DEF v
      <4>4. CASE n # N
        <5>1. n \in 0 .. N - 1
          BY <4>4
        <5>2. g[n] = Value(g, n)
          BY <1>1, <4>1, <5>1
        <5> QED BY <2>2, <3>2, <4>2, <5>1, <5>2
      <4> QED BY <4>3, <4>4
    <3> QED BY <3>1, <3>2
  <2> QED BY <2>2, <2>3
<1>2. 0 \in S
  <2>1. ASSUME NEW g PROVE \E h \in [0 .. 0 -> V] : Solves(h, 0)
    <3> DEFINE N == 0
    <3>1. N \in Nat /\ N = 0 /\ ~ (N > 0)
      OBVIOUS
    <3> HIDE DEF Solves, N
    <3>2. \E h \in [0 .. N -> V] : Solves(h, N)
      BY <1>1, <3>1
    <3> QED BY <3>2 DEF N
  <2> QED BY <2>1
<1>3. ASSUME NEW N \in Nat, N \in S PROVE N + 1 \in S
  <2>1. PICK g \in [0 .. N -> V] : Solves(g, N)
    BY <1>3
  <2>2. (N + 1) - 1 = N /\ N + 1 \in Nat
    OBVIOUS
  <2>4. g \in [0 .. (N + 1) - 1 -> V] /\ Solves(g, (N + 1) - 1)
    BY <2>1, <2>2, Zenon
  <2> HIDE DEF Solves
  <2>3. \E h \in [0 .. N + 1 -> V] : Solves(h, N + 1)
    BY <1>1, <2>2, <2>4
  <2> QED BY <2>2, <2>3
<1> HIDE DEF S
<1>4. \A N \in Nat : N \in S
  BY <1>2, <1>3, InductionOnNat
<1> DEFINE G(N) == CHOOSE g \in [0 .. N -> V] : Solves(g, N)
<1>5. \A N \in Nat : Solves(G(N), N)
  <2> HIDE DEF Solves
  <2> QED BY <1>4 DEF S
<1> HIDE DEF G
<1>6. ASSUME NEW N \in Nat, NEW M \in Nat PROVE \A n \in Nat : n <= N /\ n <= M => G(N)[n] = G(M)[n]
  <2> DEFINE D == {n \in Nat : n <= N /\ n <= M /\ G(N)[n] # G(M)[n]}
  <2>1. SUFFICES ASSUME D # {} PROVE FALSE
    OBVIOUS
  <2>2. PICK n \in D : \A m \in D : n <= m
    BY <2>1, LeastElement
  <2>3. n \in 0 .. N /\ n \in 0 .. M
    OBVIOUS
  <2>4. G(N)[n] = Value(G(N), n) /\ G(M)[n] = Value(G(M), n)
    BY <1>5, <2>3
  <2>5. CASE n \in last
    BY <2>4, <2>5
  <2>6. CASE n \notin last
    <3>1. next[n] \in Nat /\ next[n] < n
      BY <2>6
    <3>2. next[n] \notin D
      BY <2>2, <3>1
    <3>3. G(N)[next[n]] = G(M)[next[n]]
      BY <3>1, <3>2
    <3> QED BY <2>4, <2>6, <3>3
  <2> QED BY <2>5, <2>6
<1> DEFINE f == [n \in Nat |-> G(n)[n]]
<1>7. f \in [Nat -> V]
  <2>1. \A n \in Nat : G(n)[n] \in V
    BY <1>5
  <2> QED BY <2>1
<1>8. ASSUME NEW n \in Nat PROVE f[n] = Value(f, n)
  <2>1. G(n)[n] = Value(G(n), n)
    <3>1. Solves(G(n), n)
      BY <1>5
    <3>2. n \in 0 .. n
      OBVIOUS
    <3> QED BY <3>1, <3>2
  <2>2. CASE n \in last
    BY <2>1, <2>2
  <2>3. CASE n \notin last
    <3>1. next[n] \in Nat /\ next[n] <= n
      BY <2>3
    <3>2. G(n)[next[n]] = G(next[n])[next[n]]
      BY <1>6, <3>1
    <3> QED BY <2>1, <2>3, <3>1, <3>2
  <2> QED BY <2>2, <2>3
<1> HIDE DEF f
<1> QED BY <1>7, <1>8 DEF Descent

-----------------------------------------------------------------------------
\* A sequence begins another.
Begins(s, t) == Len(s) <= Len(t) /\ SubSeq(t, 1, Len(s)) = s

\* It does so when the elements of the first are those of the second.
LEMMA BeginsPointwise ==
    ASSUME NEW T, NEW s \in Seq(T), NEW t \in Seq(T)
    PROVE  Begins(s, t) <=> Len(s) <= Len(t) /\ \A i \in 1 .. Len(s) : s[i] = t[i]
<1> DEFINE p == SubSeq(t, 1, Len(s))
<1>1. Len(s) \in Nat /\ Len(t) \in Nat
  OBVIOUS
<1>2. ASSUME Len(s) <= Len(t)
      PROVE  p \in Seq(T) /\ Len(p) = Len(s) /\ \A i \in 1 .. Len(s) : p[i] = t[i]
  <2>1. \A i \in 1 .. Len(s) : t[i] \in T
    BY <1>1, <1>2
  <2> QED BY <1>1, <2>1, SubSeqProperties
<1> HIDE DEF p
<1>3. ASSUME Len(s) <= Len(t), \A i \in 1 .. Len(s) : s[i] = t[i] PROVE p = s
  BY <1>1, <1>2, <1>3, SeqEqual
<1>4. ASSUME Len(s) <= Len(t), p = s PROVE \A i \in 1 .. Len(s) : s[i] = t[i]
  BY <1>2, <1>4
<1> QED BY <1>3, <1>4 DEF Begins, p

\* A sequence begins itself,
LEMMA BeginsItself ==
    ASSUME NEW T, NEW s \in Seq(T)
    PROVE  Begins(s, s)
<1>1. Len(s) \in Nat
  OBVIOUS
<1> QED BY <1>1, BeginsPointwise

\* what the sequences that it begins begin,
LEMMA BeginsTransitive ==
    ASSUME NEW T, NEW s \in Seq(T), NEW t \in Seq(T), NEW u \in Seq(T),
           Begins(s, t), Begins(t, u)
    PROVE  Begins(s, u)
<1>1. Len(s) \in Nat /\ Len(t) \in Nat /\ Len(u) \in Nat
  OBVIOUS
<1>2. Len(s) <= Len(t) /\ \A i \in 1 .. Len(s) : s[i] = t[i]
  BY BeginsPointwise
<1>3. Len(t) <= Len(u) /\ \A i \in 1 .. Len(t) : t[i] = u[i]
  BY BeginsPointwise
<1>4. \A i \in 1 .. Len(s) : s[i] = u[i]
  BY <1>1, <1>2, <1>3
<1> QED BY <1>1, <1>2, <1>3, <1>4, BeginsPointwise

\* and any sequence that goes on from it.
LEMMA BeginsConcat ==
    ASSUME NEW T, NEW s \in Seq(T), NEW t \in Seq(T)
    PROVE  Begins(s, s \o t)
<1>1. Len(s) \in Nat /\ Len(t) \in Nat
  OBVIOUS
<1>2. s \o t \in Seq(T) /\ Len(s \o t) = Len(s) + Len(t)
      /\ \A i \in 1 .. Len(s) : (s \o t)[i] = s[i]
  BY <1>1, ConcatProperties
<1> DEFINE u == s \o t
<1>3. u \in Seq(T) /\ Len(s) <= Len(u) /\ \A i \in 1 .. Len(s) : s[i] = u[i]
  BY <1>1, <1>2
<1> HIDE DEF u
<1>4. Begins(s, u)
  BY <1>3, BeginsPointwise
<1> QED BY <1>4 DEF u

\* It begins with it still when the next elements of the second are appended.
LEMMA BeginsFurther ==
    ASSUME NEW T, NEW s \in Seq(T), NEW p \in Seq(T), NEW t \in Seq(T), Begins(s, t),
           Len(s) + Len(p) <= Len(t), \A j \in 1 .. Len(p) : p[j] = t[Len(s) + j]
    PROVE  Begins(s \o p, t)
<1>1. Len(s) \in Nat /\ Len(p) \in Nat /\ Len(t) \in Nat
  OBVIOUS
<1>2. /\ s \o p \in Seq(T) /\ Len(s \o p) = Len(s) + Len(p)
      /\ \A i \in 1 .. Len(s) + Len(p) :
            (s \o p)[i] = IF i <= Len(s) THEN s[i] ELSE p[i - Len(s)]
  BY <1>1, ConcatProperties
<1>3. \A i \in 1 .. Len(s) : s[i] = t[i]
  BY BeginsPointwise
<1>4. ASSUME NEW i \in 1 .. Len(s) + Len(p) PROVE (s \o p)[i] = t[i]
  <2>1. CASE i <= Len(s)
    BY <1>1, <1>2, <1>3, <2>1
  <2>2. CASE i > Len(s)
    <3>1. i - Len(s) \in 1 .. Len(p) /\ Len(s) + (i - Len(s)) = i
      BY <1>1, <2>2
    <3> QED BY <1>1, <1>2, <2>2, <3>1
  <2> QED BY <1>1, <2>1, <2>2
<1> DEFINE u == s \o p
<1>5. u \in Seq(T) /\ Len(u) <= Len(t) /\ \A i \in 1 .. Len(u) : u[i] = t[i]
  BY <1>1, <1>2, <1>4
<1> HIDE DEF u
<1>6. Begins(u, t)
  BY <1>5, BeginsPointwise
<1> QED BY <1>6 DEF u

\* The beginnings of a sequence grow element by element.
LEMMA AppendNext ==
    ASSUME NEW T, NEW s \in Seq(T), NEW n \in 0 .. Len(s) - 1
    PROVE  /\ SubSeq(s, 1, n) \in Seq(T) /\ Len(SubSeq(s, 1, n)) = n /\ s[n + 1] \in T
           /\ Append(SubSeq(s, 1, n), s[n + 1]) = SubSeq(s, 1, n + 1)
<1>1. Len(s) \in Nat /\ n + 1 \in 1 .. Len(s) /\ s[n + 1] \in T
      /\ \A i \in 1 .. n : s[i] \in T
  OBVIOUS
<1>2. SubSeq(s, 1, n) \in Seq(T) /\ Len(SubSeq(s, 1, n)) = n
  BY <1>1, SubSeqProperties
<1>3. SubSeq(s, 1, n + 1) = SubSeq(s, 1, (n + 1) - 1) \o <<s[n + 1]>>
  BY <1>1, SubSeqRecursiveSecond
<1>4. (n + 1) - 1 = n
  BY <1>1
<1>5. Append(SubSeq(s, 1, n), s[n + 1]) = SubSeq(s, 1, n) \o <<s[n + 1]>>
  BY <1>1, <1>2, AppendIsConcat
<1> QED BY <1>1, <1>2, <1>3, <1>4, <1>5

\* So does what they are appended to.
LEMMA ConcatNext ==
    ASSUME NEW T, NEW s \in Seq(T), NEW t \in Seq(T), NEW n \in 0 .. Len(t) - 1
    PROVE  Append(s \o SubSeq(t, 1, n), t[n + 1]) = s \o SubSeq(t, 1, n + 1)
<1> DEFINE p == SubSeq(t, 1, n)
           x == t[n + 1]
           q == SubSeq(t, 1, n + 1)
<1>1. p \in Seq(T) /\ x \in T /\ Append(p, x) = q
  BY AppendNext
<1> HIDE DEF p, x, q
<1>2. <<x>> \in Seq(T) /\ s \o p \in Seq(T)
  BY <1>1, ConcatProperties
<1>3. Append(s \o p, x) = (s \o p) \o <<x>> /\ q = p \o <<x>>
  BY <1>1, <1>2, AppendIsConcat
<1>4. (s \o p) \o <<x>> = s \o (p \o <<x>>)
  BY <1>1, <1>2, ConcatAssociative, SMTT(30)
<1> QED BY <1>3, <1>4 DEF p, x, q

-----------------------------------------------------------------------------
(***************************************************************************)
(* Sequences.                                                              *)
(***************************************************************************)
U8 == 0 .. 255

LEMMA Bytes == \A b \in U8 : b \in Nat /\ b \in Int /\ b <= 255
  BY DEF U8

LEMMA LengthIsNat == \A s \in Seq(U8) : Len(s) \in Nat
  OBVIOUS

LEMMA ElementsIn ==
    ASSUME NEW T, NEW s \in Seq(T)
    PROVE  \A k \in 1 .. Len(s) : s[k] \in T
  OBVIOUS

\* A part of a sequence, element by element.
LEMMA Part ==
    ASSUME NEW T, NEW s \in Seq(T), NEW a \in 0 .. Len(s), NEW b \in a .. Len(s)
    PROVE  /\ SubSeq(s, a + 1, b) \in Seq(T)
           /\ Len(SubSeq(s, a + 1, b)) = b - a
           /\ \A j \in 1 .. b - a : SubSeq(s, a + 1, b)[j] = s[a + j]
<1>1. Len(s) \in Nat /\ a \in Int /\ b \in Int /\ a + 1 \in Int
  OBVIOUS
<1>2. \A i \in a + 1 .. b : s[i] \in T
  BY <1>1
<1> QED BY <1>1, <1>2, SubSeqProperties

\* Two sequences one after the other.
LEMMA TwoParts ==
    ASSUME NEW T, NEW s \in Seq(T), NEW t \in Seq(T)
    PROVE  /\ s \o t \in Seq(T) /\ Len(s) \in Nat /\ Len(t) \in Nat
           /\ Len(s \o t) = Len(s) + Len(t)
           /\ \A j \in 1 .. Len(s) : (s \o t)[j] = s[j]
           /\ \A j \in 1 .. Len(t) : (s \o t)[Len(s) + j] = t[j]
<1>1. Len(s) \in Nat /\ Len(t) \in Nat
  OBVIOUS
<1> DEFINE u == s \o t
<1>2. /\ u \in Seq(T) /\ Len(u) = Len(s) + Len(t)
      /\ \A j \in 1 .. Len(s) + Len(t) : u[j] = IF j <= Len(s) THEN s[j] ELSE t[j - Len(s)]
  BY ConcatProperties
<1> HIDE DEF u
<1>3. \A j \in 1 .. Len(s) : u[j] = s[j]
  BY <1>1, <1>2
<1>4. ASSUME NEW j \in 1 .. Len(t) PROVE u[Len(s) + j] = t[j]
  <2>1. /\ Len(s) + j \in 1 .. Len(s) + Len(t) /\ ~ (Len(s) + j <= Len(s))
        /\ (Len(s) + j) - Len(s) = j
    BY <1>1
  <2>2. u[Len(s) + j] = t[(Len(s) + j) - Len(s)]
    BY <1>2, <2>1, Zenon
  <2> QED BY <2>1, <2>2
<1> QED BY <1>1, <1>2, <1>3, <1>4 DEF u

\* Three sequences one after the other.
LEMMA ThreeParts ==
    ASSUME NEW T, NEW x \in T, NEW p \in Seq(T), NEW r \in Seq(T)
    PROVE  LET q == <<x>> \o p \o r
           IN  /\ q \in Seq(T) /\ Len(q) = 1 + Len(p) + Len(r) /\ q[1] = x
               /\ \A j \in 1 .. Len(p) : q[1 + j] = p[j]
               /\ \A j \in 1 .. Len(r) : q[1 + Len(p) + j] = r[j]
<1> DEFINE h == <<x>>
           i == h \o p
           q == i \o r
<1>1. h \in Seq(T) /\ Len(h) = 1 /\ h[1] = x /\ Len(p) \in Nat /\ Len(r) \in Nat
  OBVIOUS
<1> HIDE DEF h
<1>2. /\ i \in Seq(T) /\ Len(i) = 1 + Len(p) /\ i[1] = x
      /\ \A j \in 1 .. Len(p) : i[1 + j] = p[j]
  <2>1. /\ i \in Seq(T) /\ Len(i) = Len(h) + Len(p)
        /\ \A j \in 1 .. Len(h) : i[j] = h[j]
        /\ \A j \in 1 .. Len(p) : i[Len(h) + j] = p[j]
    <3>1. h \in Seq(T)
      BY <1>1
    <3> QED BY <3>1, TwoParts
  <2> HIDE DEF i
  <2> QED BY <1>1, <2>1
<1> HIDE DEF i
<1>3. /\ q \in Seq(T) /\ Len(q) = Len(i) + Len(r)
      /\ \A j \in 1 .. Len(i) : q[j] = i[j]
      /\ \A j \in 1 .. Len(r) : q[Len(i) + j] = r[j]
  <2>1. i \in Seq(T)
    BY <1>2
  <2> QED BY <2>1, TwoParts
<1> HIDE DEF q
<1>4. q[1] = x
  <2>1. 1 \in 1 .. Len(i)
    BY <1>1, <1>2
  <2> QED BY <1>2, <1>3, <2>1
<1>5. ASSUME NEW j \in 1 .. Len(p) PROVE q[1 + j] = p[j]
  <2>1. 1 + j \in 1 .. Len(i)
    BY <1>1, <1>2
  <2> QED BY <1>2, <1>3, <2>1
<1>6. ASSUME NEW j \in 1 .. Len(r) PROVE q[1 + Len(p) + j] = r[j]
  BY <1>2, <1>3
<1>7. q \in Seq(T) /\ Len(q) = 1 + Len(p) + Len(r)
  BY <1>1, <1>2, <1>3
<1> QED BY <1>4, <1>5, <1>6, <1>7 DEF q, i, h

\* What follows the first m elements of a sequence, up to the first n.
LEMMA Grown ==
    ASSUME NEW T, NEW d \in Seq(T), NEW m \in 0 .. Len(d), NEW n \in m .. Len(d),
           NEW p \in Seq(T), Len(p) = n - m, \A j \in 1 .. n - m : p[j] = d[m + j]
    PROVE  SubSeq(d, 1, m) \o p = SubSeq(d, 1, n)
<1> DEFINE a == SubSeq(d, 1, m)
           c == SubSeq(d, 1, n)
           q == a \o p
<1>1. Len(d) \in Nat /\ m \in Nat /\ n \in Nat /\ n <= Len(d) /\ m <= n
  OBVIOUS
<1>2. a \in Seq(T) /\ Len(a) = m /\ \A j \in 1 .. m : a[j] = d[j]
  <2>1. \A i \in 1 .. m : d[i] \in T
    BY <1>1
  <2> QED BY <1>1, <2>1, SubSeqProperties
<1>3. c \in Seq(T) /\ Len(c) = n /\ \A j \in 1 .. n : c[j] = d[j]
  <2>1. \A i \in 1 .. n : d[i] \in T
    BY <1>1
  <2> QED BY <1>1, <2>1, SubSeqProperties
<1> HIDE DEF a, c
<1>4. /\ q \in Seq(T) /\ Len(q) = n
      /\ \A j \in 1 .. m : q[j] = a[j]
      /\ \A j \in 1 .. n - m : q[m + j] = p[j]
  <2>1. a \in Seq(T)
    BY <1>2
  <2>2. /\ q \in Seq(T) /\ Len(q) = Len(a) + Len(p)
        /\ \A j \in 1 .. Len(a) : q[j] = a[j]
        /\ \A j \in 1 .. Len(p) : q[Len(a) + j] = p[j]
    <3>1. a \in Seq(T) /\ p \in Seq(T)
      BY <2>1
    <3> QED BY ONLY <3>1, TwoParts DEF q
  <2> HIDE DEF q
  <2>3. Len(a) = m /\ Len(p) = n - m
    BY <1>2
  <2>4. Len(q) = n
    BY <1>1, <2>2, <2>3
  <2> QED BY <2>2, <2>3, <2>4, Zenon
<1> HIDE DEF q
<1>5. ASSUME NEW i \in 1 .. n PROVE q[i] = c[i]
  <2>1. CASE i <= m
    <3>1. i \in 1 .. m
      BY <1>1, <2>1
    <3> QED BY <1>2, <1>3, <1>4, <3>1
  <2>2. CASE i > m
    <3> DEFINE j == i - m
    <3>1. j \in 1 .. n - m /\ m + j = i
      BY <1>1, <2>2
    <3>2. q[m + j] = p[j] /\ p[j] = d[m + j]
      BY <1>4, <3>1
    <3> QED BY <1>3, <3>1, <3>2
  <2> QED BY <1>1, <2>1, <2>2
<1>6. q = c
  BY <1>3, <1>4, <1>5, SeqEqual
<1> QED BY <1>6 DEF q, a, c

LEMMA BeginsWhole ==
    ASSUME NEW s \in Seq(U8), NEW t \in Seq(U8), Begins(s, t), Len(s) = Len(t)
    PROVE  s = t
<1>1. \A i \in 1 .. Len(s) : s[i] = t[i]
  BY BeginsPointwise
<1> QED BY <1>1, SeqEqual

\* Sequences of which each begins the next.
LEMMA BeginsAll ==
    ASSUME NEW T, NEW n \in Nat, NEW f \in [0 .. n -> Seq(T)],
           \A k \in 1 .. n : Begins(f[k - 1], f[k])
    PROVE  \A j \in 0 .. n, k \in 0 .. n : j <= k => Begins(f[j], f[k])
<1> DEFINE S == {k \in 0 .. n : \A j \in 0 .. k : Begins(f[j], f[k])}
<1>1. 0 \in S
  <2>1. 0 \in 0 .. n /\ \A j \in 0 .. 0 : j = 0
    OBVIOUS
  <2>2. f[0] \in Seq(T)
    BY <2>1
  <2>3. Begins(f[0], f[0])
    BY <2>2, BeginsItself
  <2> QED BY <2>1, <2>3
<1>2. ASSUME NEW k \in 0 .. n - 1, k \in S PROVE k + 1 \in S
  <2>1. k + 1 \in 1 .. n /\ (k + 1) - 1 = k /\ k + 1 \in 0 .. n /\ k \in 0 .. n
    OBVIOUS
  <2>2. Begins(f[k], f[k + 1]) /\ f[k] \in Seq(T) /\ f[k + 1] \in Seq(T)
    BY <2>1
  <2>3. ASSUME NEW j \in 0 .. k + 1 PROVE Begins(f[j], f[k + 1])
    <3>1. CASE j = k + 1
      BY <2>2, <3>1, BeginsItself
    <3>2. CASE j # k + 1
      <4>1. j \in 0 .. k /\ j \in 0 .. n
        BY <3>2
      <4>2. Begins(f[j], f[k]) /\ f[j] \in Seq(T)
        BY <1>2, <4>1
      <4> QED BY <2>2, <4>2, BeginsTransitive
    <3> QED BY <3>1, <3>2
  <2> QED BY <2>1, <2>3
<1> HIDE DEF S
<1>3. \A k \in 0 .. n : k \in S
  BY ONLY n \in Nat, <1>1, <1>2, InductionUpTo
<1> QED BY <1>3 DEF S

\* The whole of a sequence.
LEMMA Full ==
    ASSUME NEW o \in Seq(U8)
    PROVE  SubSeq(o, 1, Len(o) - 0) = o
<1>1. Len(o) \in Nat
  BY LengthIsNat, Zenon
<1>2. Len(o) - 0 = Len(o)
  BY <1>1
<1>3. Begins(o, o)
  BY BeginsItself
<1>4. SubSeq(o, 1, Len(o)) = o
  BY <1>3 DEF Begins
<1> QED BY <1>2, <1>4, Zenon

\* What finished calls have delivered does not change in a call.
LEMMA HsGrows ==
    ASSUME NEW o \in Seq(U8), NEW q \in Seq(U8), NEW g \in Nat, g <= Len(o)
    PROVE  /\ SubSeq(o \o q, 1, Len(o \o q) - (g + Len(q))) = SubSeq(o, 1, Len(o) - g)
           /\ g + Len(q) <= Len(o \o q) /\ Len(o \o q) = Len(o) + Len(q)
<1> DEFINE n == Len(o)
           m == Len(q)
           a == SubSeq(o \o q, 1, n - g)
           b == SubSeq(o, 1, n - g)
<1>1. n \in Nat /\ m \in Nat /\ g <= n /\ Len(o \o q) = n + m
  OBVIOUS
<1>2. a = b
  BY <1>1
<1> HIDE DEF a, b, n, m
<1>3. (n + m) - (g + m) = n - g /\ g + m <= n + m
  BY <1>1
<1>4. g + m <= Len(o \o q)
  BY <1>1, <1>3, Zenon
<1>5. SubSeq(o \o q, 1, Len(o \o q) - (g + m)) = a
  BY <1>1, <1>3, Zenon DEF a
<1> QED BY <1>1, <1>2, <1>4, <1>5, Zenon DEF b, n, m

\* The z bytes p are what comes next in d after o, and are appended.
NextOf(d, o, p, z) ==
    /\ d \in Seq(U8) /\ o \in Seq(U8) /\ p \in Seq(U8) /\ Begins(o, d)
    /\ z \in Nat /\ Len(p) = z /\ Len(o) + z <= Len(d)
    /\ \A j \in 1 .. z : p[j] = d[Len(o) + j]

LEMMA Appends ==
    ASSUME NEW d, NEW o, NEW p, NEW z, NextOf(d, o, p, z)
    PROVE  o \o p \in Seq(U8) /\ Len(o \o p) = Len(o) + z /\ Begins(o \o p, d)
<1>0. /\ d \in Seq(U8) /\ o \in Seq(U8) /\ p \in Seq(U8) /\ Begins(o, d)
      /\ z \in Nat /\ Len(p) = z /\ Len(o) + z <= Len(d)
      /\ \A j \in 1 .. z : p[j] = d[Len(o) + j]
  BY DEF NextOf
<1>1. Begins(o \o p, d)
  <2>1. /\ d \in Seq(U8) /\ o \in Seq(U8) /\ p \in Seq(U8) /\ Begins(o, d)
        /\ Len(o) + Len(p) <= Len(d) /\ \A j \in 1 .. Len(p) : p[j] = d[Len(o) + j]
    BY <1>0
  <2> QED BY ONLY <2>1, BeginsFurther
<1>2. o \o p \in Seq(U8) /\ Len(o \o p) = Len(o) + Len(p)
  <2>1. o \in Seq(U8) /\ p \in Seq(U8)
    BY <1>0
  <2> QED BY ONLY <2>1, TwoParts
<1> QED BY <1>0, <1>1, <1>2

\* A sequence of numbers that never gets smaller.
LEMMA Ascends ==
    ASSUME NEW n \in Nat, NEW f, \A k \in 0 .. n : f[k] \in Int,
           \A k \in 1 .. n : f[k - 1] <= f[k]
    PROVE  \A j \in 0 .. n, k \in 0 .. n : j <= k => f[j] <= f[k]
<1> DEFINE S == {k \in 0 .. n : \A j \in 0 .. k : f[j] <= f[k]}
<1>1. 0 \in S
  OBVIOUS
<1>2. ASSUME NEW k \in 0 .. n - 1, k \in S PROVE k + 1 \in S
  <2>1. k + 1 \in 1 .. n /\ (k + 1) - 1 = k /\ k + 1 \in 0 .. n
    OBVIOUS
  <2>2. f[k] <= f[k + 1]
    BY <2>1
  <2>3. ASSUME NEW j \in 0 .. k + 1 PROVE f[j] <= f[k + 1]
    <3>1. CASE j = k + 1
      BY <2>1, <3>1
    <3>2. CASE j # k + 1
      <4>1. j \in 0 .. k
        BY <3>2
      <4>2. f[j] <= f[k]
        BY <1>2, <4>1
      <4>3. f[j] \in Int /\ f[k] \in Int /\ f[k + 1] \in Int
        BY <2>1, <4>1
      <4> QED BY <2>2, <4>2, <4>3
    <3> QED BY <3>1, <3>2
  <2> QED BY <2>1, <2>3
<1> HIDE DEF S
<1>3. \A k \in 0 .. n : k \in S
  BY ONLY n \in Nat, <1>1, <1>2, InductionUpTo
<1> QED BY <1>3 DEF S

\* The bytes of the stream from a on, up to b: a byte is its position.
Following(a, b) == [k \in 1 .. b - a |-> a + k]

LEMMA FollowingIs ==
    ASSUME NEW a \in Nat, NEW b \in Nat, a <= b
    PROVE  /\ Following(a, b) \in Seq(Nat) /\ Len(Following(a, b)) = b - a
           /\ Following(a, b) = <<>> <=> a = b
<1>1. b - a \in Nat /\ \A k \in 1 .. b - a : a + k \in Nat
  OBVIOUS
<1> DEFINE s == Following(a, b)
<1>2. s \in Seq(Nat) /\ Len(s) = b - a
  BY <1>1 DEF Following
<1> HIDE DEF s
<1>3. s = <<>> <=> Len(s) = 0
  BY <1>2
<1>4. s = <<>> <=> a = b
  BY <1>2, <1>3
<1> QED BY <1>2, <1>4 DEF s

LEMMA FollowingJoined ==
    ASSUME NEW a \in Nat, NEW b \in Nat, NEW c \in Nat, a <= b, b <= c
    PROVE  Following(a, b) \o [k \in 1 .. c - b |-> b + k] = Following(a, c)
<1> DEFINE s == Following(a, b)
           t == Following(b, c)
           u == Following(a, c)
           q == s \o t
<1>1. /\ s \in Seq(Nat) /\ Len(s) = b - a /\ t \in Seq(Nat) /\ Len(t) = c - b
      /\ u \in Seq(Nat) /\ Len(u) = c - a
  <2>1. s \in Seq(Nat) /\ Len(s) = b - a
    BY ONLY a \in Nat, b \in Nat, a <= b, FollowingIs
  <2>2. t \in Seq(Nat) /\ Len(t) = c - b
    BY ONLY b \in Nat, c \in Nat, b <= c, FollowingIs
  <2>3. a <= c
    OBVIOUS
  <2>4. u \in Seq(Nat) /\ Len(u) = c - a
    BY ONLY a \in Nat, c \in Nat, <2>3, FollowingIs
  <2> QED BY <2>1, <2>2, <2>4
<1>2. /\ \A k \in 1 .. b - a : s[k] = a + k
      /\ \A k \in 1 .. c - b : t[k] = b + k
      /\ \A k \in 1 .. c - a : u[k] = a + k
  BY DEF Following
<1>3. t = [k \in 1 .. c - b |-> b + k]
  BY DEF Following
<1> HIDE DEF s, t, u
<1>4. /\ q \in Seq(Nat) /\ Len(q) = Len(s) + Len(t)
      /\ \A j \in 1 .. Len(s) : q[j] = s[j]
      /\ \A j \in 1 .. Len(t) : q[Len(s) + j] = t[j]
  <2>1. s \in Seq(Nat) /\ t \in Seq(Nat)
    BY <1>1
  <2> QED BY ONLY <2>1, TwoParts
<1> HIDE DEF q
<1>5. Len(q) = Len(u)
  BY <1>1, <1>4
<1>6. ASSUME NEW j \in 1 .. Len(q) PROVE q[j] = u[j]
  <2>1. j \in 1 .. c - a
    BY <1>1, <1>4
  <2>2. CASE j <= Len(s)
    <3>1. j \in 1 .. Len(s) /\ j \in 1 .. b - a
      BY <1>1, <2>2
    <3> QED BY <1>2, <1>4, <2>1, <3>1
  <2>3. CASE ~ (j <= Len(s))
    <3> DEFINE i == j - Len(s)
    <3>1. i \in 1 .. Len(t) /\ i \in 1 .. c - b /\ Len(s) + i = j /\ b + i = a + j
      BY <1>1, <2>1, <2>3
    <3> HIDE DEF i
    <3>2. q[j] = t[i] /\ t[i] = b + i /\ u[j] = a + j
      BY <1>2, <1>4, <2>1, <3>1
    <3> QED BY <3>1, <3>2
  <2> QED BY <2>2, <2>3
<1>7. q = u
  BY <1>1, <1>4, <1>5, <1>6, SeqEqual
<1> QED BY <1>3, <1>7 DEF q, s, u

-----------------------------------------------------------------------------
(***************************************************************************)
(* A sequence inside another one.                                          *)
(***************************************************************************)
\* q lies in d behind its first o elements.
Lies(q, d, o) ==
    o + Len(q) <= Len(d) /\ \A j \in 1 .. Len(q) : q[j] = d[o + j]

LEMMA LiesJoined ==
    ASSUME NEW q \in Seq(U8), NEW r \in Seq(U8), NEW d \in Seq(U8), NEW o \in Nat,
           Lies(q, d, o), Lies(r, d, o + Len(q))
    PROVE  q \o r \in Seq(U8) /\ Len(q \o r) = Len(q) + Len(r) /\ Lies(q \o r, d, o)
<1> DEFINE t == q \o r
<1>1. /\ t \in Seq(U8) /\ Len(q) \in Nat /\ Len(r) \in Nat /\ Len(t) = Len(q) + Len(r)
      /\ \A j \in 1 .. Len(q) : t[j] = q[j]
      /\ \A j \in 1 .. Len(r) : t[Len(q) + j] = r[j]
  BY TwoParts
<1> HIDE DEF t
<1>2. /\ o + Len(q) <= Len(d) /\ \A j \in 1 .. Len(q) : q[j] = d[o + j]
      /\ o + Len(q) + Len(r) <= Len(d) /\ \A j \in 1 .. Len(r) : r[j] = d[o + Len(q) + j]
  BY DEF Lies
<1>3. ASSUME NEW j \in 1 .. Len(t) PROVE t[j] = d[o + j]
  <2>1. CASE j <= Len(q)
    <3>1. j \in 1 .. Len(q)
      BY <1>1, <2>1
    <3> QED BY <1>1, <1>2, <3>1
  <2>2. CASE j > Len(q)
    <3>1. /\ j - Len(q) \in 1 .. Len(r) /\ Len(q) + (j - Len(q)) = j
          /\ o + Len(q) + (j - Len(q)) = o + j
      BY <1>1, <2>2
    <3>2. t[Len(q) + (j - Len(q))] = r[j - Len(q)]
          /\ r[j - Len(q)] = d[o + Len(q) + (j - Len(q))]
      BY <1>1, <1>2, <3>1
    <3> QED BY <3>1, <3>2
  <2> QED BY <1>1, <2>1, <2>2
<1>4. o + Len(t) <= Len(d)
  BY <1>1, <1>2
<1> QED BY <1>1, <1>3, <1>4 DEF t, Lies

LEMMA LiesPart ==
    ASSUME NEW q \in Seq(U8), NEW d \in Seq(U8), NEW o \in Nat, Lies(q, d, o),
           NEW a \in 0 .. Len(q), NEW b \in a .. Len(q)
    PROVE  /\ SubSeq(q, a + 1, b) \in Seq(U8) /\ Len(SubSeq(q, a + 1, b)) = b - a
           /\ Lies(SubSeq(q, a + 1, b), d, o + a)
<1> DEFINE t == SubSeq(q, a + 1, b)
<1>1. t \in Seq(U8) /\ Len(t) = b - a /\ \A j \in 1 .. b - a : t[j] = q[a + j]
  BY Part
<1> HIDE DEF t
<1>2. Len(q) \in Nat /\ Len(d) \in Nat /\ o + Len(q) <= Len(d)
      /\ \A j \in 1 .. Len(q) : q[j] = d[o + j]
  BY DEF Lies
<1>3. ASSUME NEW j \in 1 .. Len(t) PROVE t[j] = d[o + a + j]
  <2>1. j \in 1 .. b - a /\ a + j \in 1 .. Len(q) /\ o + (a + j) = o + a + j
    BY <1>1, <1>2
  <2>2. t[j] = q[a + j] /\ q[a + j] = d[o + (a + j)]
    BY <1>1, <1>2, <2>1
  <2> QED BY <2>1, <2>2
<1>4. o + a + Len(t) <= Len(d)
  BY <1>1, <1>2
<1> QED BY <1>1, <1>3, <1>4 DEF t, Lies

LEMMA LiesIn ==
    ASSUME NEW d \in Seq(U8), NEW a \in 0 .. Len(d), NEW b \in a .. Len(d)
    PROVE  /\ SubSeq(d, a + 1, b) \in Seq(U8) /\ Len(SubSeq(d, a + 1, b)) = b - a
           /\ Lies(SubSeq(d, a + 1, b), d, a)
<1> DEFINE t == SubSeq(d, a + 1, b)
<1>1. t \in Seq(U8) /\ Len(t) = b - a /\ \A j \in 1 .. b - a : t[j] = d[a + j]
  BY Part
<1> HIDE DEF t
<1>2. a + Len(t) <= Len(d) /\ \A j \in 1 .. Len(t) : t[j] = d[a + j]
  BY <1>1
<1> QED BY <1>1, <1>2 DEF t, Lies

LEMMA LiesFirst ==
    ASSUME NEW q \in Seq(U8), NEW d \in Seq(U8)
    PROVE  Lies(q, d, 0) <=> Begins(q, d)
<1>1. Len(q) \in Nat /\ Len(d) \in Nat /\ \A j \in 1 .. Len(q) : 0 + j = j
  OBVIOUS
<1>2. Lies(q, d, 0) <=> Len(q) <= Len(d) /\ \A j \in 1 .. Len(q) : q[j] = d[j]
  BY <1>1 DEF Lies
<1> QED BY <1>2, BeginsPointwise

\* Nothing lies anywhere.
LEMMA LiesNothing ==
    ASSUME NEW d \in Seq(U8), NEW o \in 0 .. Len(d)
    PROVE  <<>> \in Seq(U8) /\ Len(<<>>) = 0 /\ Lies(<<>>, d, o)
<1> DEFINE q == <<>>
<1>1. q \in Seq(U8) /\ Len(q) = 0 /\ Len(d) \in Nat
  OBVIOUS
<1> HIDE DEF q
<1>2. o + Len(q) <= Len(d) /\ \A j \in 1 .. Len(q) : q[j] = d[o + j]
  BY <1>1
<1> QED BY <1>1, <1>2 DEF Lies, q

LEMMA LiesSplit ==
    ASSUME NEW T, NEW q \in Seq(T), NEW r \in Seq(T), NEW d \in Seq(T), NEW o \in Nat,
           Lies(q \o r, d, o)
    PROVE  Lies(q, d, o) /\ Lies(r, d, o + Len(q))
<1> DEFINE t == q \o r
           m == Len(q)
<1>1. /\ m \in Nat /\ Len(r) \in Nat /\ Len(t) = m + Len(r)
      /\ (\A j \in 1 .. m : t[j] = q[j]) /\ \A j \in 1 .. Len(r) : t[m + j] = r[j]
  BY TwoParts
<1>2. o + Len(t) <= Len(d) /\ (\A j \in 1 .. Len(t) : t[j] = d[o + j]) /\ Len(d) \in Nat
  BY DEF Lies
<1> HIDE DEF t, m
<1>3. \A j \in 1 .. m : q[j] = d[o + j]
  <2>1. \A j \in 1 .. m : j \in 1 .. Len(t)
    BY <1>1
  <2> QED BY <1>1, <1>2, <2>1, Zenon
<1>4. ASSUME NEW j \in 1 .. Len(r) PROVE r[j] = d[o + m + j]
  <2>1. m + j \in 1 .. Len(t) /\ o + (m + j) = o + m + j
    BY <1>1
  <2>2. t[m + j] = r[j] /\ t[m + j] = d[o + (m + j)]
    BY <1>1, <1>2, <2>1, Zenon
  <2> QED BY <2>1, <2>2, Zenon
<1>5. o + m <= Len(d) /\ o + m + Len(r) <= Len(d)
  BY <1>1, <1>2
<1> QED BY <1>3, <1>4, <1>5, Zenon DEF Lies, m

-----------------------------------------------------------------------------
(***************************************************************************)
(* Powers, quotients and remainders.                                       *)
(***************************************************************************)
LEMMA PowersOfTwo ==
    /\ \A k \in 0 .. 19 : 2 ^ k \in Nat /\ 2 ^ k > 0
    /\ \A k \in 0 .. 18 : 2 ^ (k + 1) = 2 * 2 ^ k
<1>1. /\ 2 ^ 0 \in Nat /\ 2 ^ 0 > 0 /\ 2 ^ 1 \in Nat /\ 2 ^ 1 > 0 /\ 2 ^ 2 \in Nat /\ 2 ^ 2 > 0
      /\ 2 ^ 3 \in Nat /\ 2 ^ 3 > 0 /\ 2 ^ 4 \in Nat /\ 2 ^ 4 > 0 /\ 2 ^ 5 \in Nat /\ 2 ^ 5 > 0
      /\ 2 ^ 6 \in Nat /\ 2 ^ 6 > 0 /\ 2 ^ 7 \in Nat /\ 2 ^ 7 > 0 /\ 2 ^ 8 \in Nat /\ 2 ^ 8 > 0
      /\ 2 ^ 9 \in Nat /\ 2 ^ 9 > 0 /\ 2 ^ 10 \in Nat /\ 2 ^ 10 > 0 /\ 2 ^ 11 \in Nat /\ 2 ^ 11 > 0
      /\ 2 ^ 12 \in Nat /\ 2 ^ 12 > 0 /\ 2 ^ 13 \in Nat /\ 2 ^ 13 > 0 /\ 2 ^ 14 \in Nat /\ 2 ^ 14 > 0
      /\ 2 ^ 15 \in Nat /\ 2 ^ 15 > 0 /\ 2 ^ 16 \in Nat /\ 2 ^ 16 > 0 /\ 2 ^ 17 \in Nat /\ 2 ^ 17 > 0
      /\ 2 ^ 18 \in Nat /\ 2 ^ 18 > 0 /\ 2 ^ 19 \in Nat /\ 2 ^ 19 > 0
  BY SMT
<1>2. /\ 2 ^ 1 = 2 * 2 ^ 0 /\ 2 ^ 2 = 2 * 2 ^ 1 /\ 2 ^ 3 = 2 * 2 ^ 2 /\ 2 ^ 4 = 2 * 2 ^ 3
      /\ 2 ^ 5 = 2 * 2 ^ 4 /\ 2 ^ 6 = 2 * 2 ^ 5 /\ 2 ^ 7 = 2 * 2 ^ 6 /\ 2 ^ 8 = 2 * 2 ^ 7
      /\ 2 ^ 9 = 2 * 2 ^ 8 /\ 2 ^ 10 = 2 * 2 ^ 9 /\ 2 ^ 11 = 2 * 2 ^ 10 /\ 2 ^ 12 = 2 * 2 ^ 11
      /\ 2 ^ 13 = 2 * 2 ^ 12 /\ 2 ^ 14 = 2 * 2 ^ 13 /\ 2 ^ 15 = 2 * 2 ^ 14 /\ 2 ^ 16 = 2 * 2 ^ 15
      /\ 2 ^ 17 = 2 * 2 ^ 16 /\ 2 ^ 18 = 2 * 2 ^ 17 /\ 2 ^ 19 = 2 * 2 ^ 18
  BY SMT
<1>3. ASSUME NEW k \in 0 .. 19 PROVE 2 ^ k \in Nat /\ 2 ^ k > 0
  <2>1. \/ k = 0 \/ k = 1 \/ k = 2 \/ k = 3 \/ k = 4 \/ k = 5 \/ k = 6 \/ k = 7 \/ k = 8 \/ k = 9
        \/ k = 10 \/ k = 11 \/ k = 12 \/ k = 13 \/ k = 14 \/ k = 15 \/ k = 16 \/ k = 17 \/ k = 18 \/ k = 19
    OBVIOUS
  <2> QED BY <1>1, <2>1, Zenon
<1>4. ASSUME NEW k \in 0 .. 18 PROVE 2 ^ (k + 1) = 2 * 2 ^ k
  <2>1. \/ (k = 0 /\ k + 1 = 1) \/ (k = 1 /\ k + 1 = 2) \/ (k = 2 /\ k + 1 = 3) \/ (k = 3 /\ k + 1 = 4)
        \/ (k = 4 /\ k + 1 = 5) \/ (k = 5 /\ k + 1 = 6) \/ (k = 6 /\ k + 1 = 7) \/ (k = 7 /\ k + 1 = 8)
        \/ (k = 8 /\ k + 1 = 9) \/ (k = 9 /\ k + 1 = 10) \/ (k = 10 /\ k + 1 = 11) \/ (k = 11 /\ k + 1 = 12)
        \/ (k = 12 /\ k + 1 = 13) \/ (k = 13 /\ k + 1 = 14) \/ (k = 14 /\ k + 1 = 15) \/ (k = 15 /\ k + 1 = 16)
        \/ (k = 16 /\ k + 1 = 17) \/ (k = 17 /\ k + 1 = 18) \/ (k = 18 /\ k + 1 = 19)
    OBVIOUS
  <2> QED BY <1>2, <2>1, Zenon
<1> QED BY <1>3, <1>4

LEMMA PowersAscend ==
    \A j \in 0 .. 19, k \in 0 .. 19 : j <= k => 2 ^ j <= 2 ^ k
<1> DEFINE f == [k \in 0 .. 19 |-> 2 ^ k]
<1>1. \A k \in 0 .. 19 : f[k] \in Int /\ f[k] = 2 ^ k
  BY PowersOfTwo
<1>2. \A k \in 1 .. 19 : f[k - 1] <= f[k]
  <2>1. ASSUME NEW k \in 1 .. 19 PROVE f[k - 1] <= f[k]
    <3>1. k - 1 \in 0 .. 18 /\ (k - 1) + 1 = k /\ k - 1 \in 0 .. 19 /\ k \in 0 .. 19
      OBVIOUS
    <3> HIDE DEF f
    <3>2. 2 ^ ((k - 1) + 1) = 2 * 2 ^ (k - 1) /\ 2 ^ (k - 1) \in Nat
      BY <3>1, PowersOfTwo
    <3>3. f[k] = 2 ^ k /\ f[k - 1] = 2 ^ (k - 1)
      BY <1>1, <3>1
    <3>4. 2 ^ k = 2 * 2 ^ (k - 1)
      BY <3>1, <3>2, Zenon
    <3> DEFINE x == 2 ^ (k - 1)
               y == 2 ^ k
    <3>5. x \in Nat /\ y = 2 * x /\ f[k] = y /\ f[k - 1] = x
      BY <3>2, <3>3, <3>4, Zenon
    <3> HIDE DEF x, y
    <3> QED BY ONLY <3>5
  <2> QED BY <2>1
<1> HIDE DEF f
<1> DEFINE n == 19
<1>3. n \in Nat /\ (\A k \in 0 .. n : f[k] \in Int) /\ \A k \in 1 .. n : f[k - 1] <= f[k]
  BY <1>1, <1>2
<1> HIDE DEF n
<1>4. \A j \in 0 .. n, k \in 0 .. n : j <= k => f[j] <= f[k]
  BY ONLY <1>3, Ascends
<1> QED BY <1>1, <1>4 DEF n

\* Numbers that differ by a multiple have the same remainder.
LEMMA SameRemainder ==
    ASSUME NEW W \in Nat, W > 0, NEW x \in Int, NEW y \in Int, NEW q \in Int, x = y + W * q
    PROVE  x % W = y % W
<1> DEFINE a == x % W
           b == y % W
           c == x \div W
           d == y \div W
           e == c - (d + q)
<1>1. /\ a \in Int /\ b \in Int /\ c \in Int /\ d \in Int
      /\ 0 <= a /\ a < W /\ 0 <= b /\ b < W /\ x = W * c + a /\ y = W * d + b
  OBVIOUS
<1> HIDE DEF a, b, c, d
<1>2. e \in Int /\ W * e = W * c - (W * d + W * q)
  BY <1>1
<1> HIDE DEF e
<1>3. W * e = b - a
  BY <1>1, <1>2
<1>4. e = 0
  <2>1. CASE e >= 1
    <3>1. W * e >= W
      BY <1>2, <2>1
    <3> QED BY <1>1, <1>3, <3>1
  <2>2. CASE e <= -1
    <3>1. W * e <= -W
      BY <1>2, <2>2
    <3> QED BY <1>1, <1>3, <3>1
  <2> QED BY <1>2, <2>1, <2>2
<1>5. a = b
  BY <1>1, <1>3, <1>4
<1> QED BY <1>5 DEF a, b

LEMMA SmallRemainder ==
    ASSUME NEW W \in Nat, NEW x \in 0 .. W - 1
    PROVE  x % W = x
<1> DEFINE a == x % W
           c == x \div W
<1>1. W > 0
  OBVIOUS
<1>2. a \in Int /\ c \in Int /\ 0 <= a /\ a < W /\ x = W * c + a
  BY <1>1
<1> HIDE DEF a, c
<1>3. c = 0
  <2>1. CASE c >= 1
    <3>1. W * c >= W
      BY <1>1, <1>2, <2>1
    <3> QED BY <1>2, <3>1
  <2>2. CASE c <= -1
    <3>1. W * c <= -W
      BY <1>1, <1>2, <2>2
    <3> QED BY <1>2, <3>1
  <2> QED BY <1>2, <2>1, <2>2
<1>4. a = x
  BY <1>2, <1>3
<1> QED BY <1>4 DEF a

LEMMA Remainder ==
    ASSUME NEW W \in Nat, W > 0, NEW x \in Int
    PROVE  /\ x % W \in 0 .. W - 1 /\ x % W \in Int /\ x \div W \in Int
           /\ x = W * (x \div W) + (x % W)
  OBVIOUS

\* Halves of quotients.
LEMMA HalfQuotient ==
    ASSUME NEW v \in Nat, NEW p \in Nat, p > 0
    PROVE  /\ v \div p \in Nat /\ v \div (2 * p) \in Nat
           /\ v \div p = 2 * (v \div (2 * p)) + ((v \div p) % 2)
<1> DEFINE x == v \div p
           y == v \div (2 * p)
           r == v % p
           s == v % (2 * p)
           z == x - 2 * y
<1>1. 2 * p \in Nat /\ 2 * p > 0
  OBVIOUS
<1>2. /\ x \in Int /\ y \in Int /\ r \in Int /\ s \in Int /\ 0 <= r /\ r < p /\ 0 <= s /\ s < 2 * p
      /\ v = p * x + r /\ v = (2 * p) * y + s
  BY <1>1
<1>3. x \in Nat /\ y \in Nat
  BY <1>1
<1> HIDE DEF x, y, r, s
<1>4. z \in Int /\ p * z = p * x - (2 * p) * y
  BY <1>2
<1> HIDE DEF z
<1>5. p * z = s - r
  BY <1>2, <1>4
<1>6. z = 0 \/ z = 1
  <2>1. CASE z >= 2
    <3>1. p * z >= 2 * p
      BY <1>4, <2>1
    <3> QED BY <1>2, <1>5, <3>1
  <2>2. CASE z <= -1
    <3>1. p * z <= -p
      BY <1>4, <2>2
    <3> QED BY <1>2, <1>5, <3>1
  <2> QED BY <1>4, <2>1, <2>2
<1>7. x = 2 * y + z
  BY <1>3, <1>6 DEF z
<1>8. x % 2 = z
  BY <1>3, <1>6, <1>7
<1> QED BY <1>3, <1>7, <1>8 DEF x, y

LEMMA SmallQuotient ==
    ASSUME NEW v \in Nat, NEW p \in Nat, v < p
    PROVE  v \div p = 0
<1> DEFINE x == v \div p
           r == v % p
<1>1. p > 0
  OBVIOUS
<1>2. x \in Int /\ r \in Int /\ 0 <= r /\ r < p /\ v = p * x + r
  BY <1>1
<1> HIDE DEF x, r
<1>3. x = 0
  <2>1. CASE x >= 1
    <3>1. p * x >= p
      BY <1>1, <1>2, <2>1
    <3> QED BY <1>2, <3>1
  <2>2. CASE x <= -1
    <3>1. p * x <= -p
      BY <1>1, <1>2, <2>2
    <3> QED BY <1>2, <3>1
  <2> QED BY <1>2, <2>1, <2>2
<1> QED BY <1>3 DEF x

LEMMA HsBack ==
    ASSUME NEW b \in Nat \ {0}, NEW j \in Int
    PROVE  j % b \in 0 .. b - 1 /\ j % b \in Nat
  OBVIOUS

\* Bits in steps of 7.
Shifts(k, r) ==
    /\ 2 ^ k \in Nat /\ 2 ^ (k + 7) \in Nat
    /\ (r % 128) * 2 ^ k \in Nat /\ (r \div 128) * 2 ^ (k + 7) \in Nat
    /\ r * 2 ^ k = (r % 128) * 2 ^ k + (r \div 128) * 2 ^ (k + 7)

LEMMA Shifted ==
    ASSUME NEW k \in {0, 7, 14, 21}, NEW r \in Nat
    PROVE  Shifts(k, r)
<1> DEFINE q == r \div 128
           m == r % 128
<1>1. q \in Nat /\ m \in Nat /\ r = 128 * q + m
  BY SMT
<1> HIDE DEF q, m
<1>2. ASSUME k = 0 PROVE /\ 2 ^ k \in Nat /\ 2 ^ (k + 7) \in Nat /\ m * 2 ^ k \in Nat
                         /\ q * 2 ^ (k + 7) \in Nat /\ r * 2 ^ k = m * 2 ^ k + q * 2 ^ (k + 7)
  BY <1>1, <1>2, SMT
<1>3. ASSUME k = 7 PROVE /\ 2 ^ k \in Nat /\ 2 ^ (k + 7) \in Nat /\ m * 2 ^ k \in Nat
                         /\ q * 2 ^ (k + 7) \in Nat /\ r * 2 ^ k = m * 2 ^ k + q * 2 ^ (k + 7)
  BY <1>1, <1>3, SMT
<1>4. ASSUME k = 14 PROVE /\ 2 ^ k \in Nat /\ 2 ^ (k + 7) \in Nat /\ m * 2 ^ k \in Nat
                          /\ q * 2 ^ (k + 7) \in Nat /\ r * 2 ^ k = m * 2 ^ k + q * 2 ^ (k + 7)
  BY <1>1, <1>4, SMT
<1>5. ASSUME k = 21 PROVE /\ 2 ^ k \in Nat /\ 2 ^ (k + 7) \in Nat /\ m * 2 ^ k \in Nat
                          /\ q * 2 ^ (k + 7) \in Nat /\ r * 2 ^ k = m * 2 ^ k + q * 2 ^ (k + 7)
  BY <1>1, <1>5, SMT
<1> QED BY <1>2, <1>3, <1>4, <1>5 DEF q, m, Shifts

-----------------------------------------------------------------------------
(***************************************************************************)
(* The format of CRLE: sizes.                                              *)
(***************************************************************************)
\* A size is one byte or more, of which only the last is below 128.
PackedSizes ==
    {p \in Seq(U8) : /\ Len(p) >= 1 /\ p[Len(p)] < 128
                       /\ \A j \in 1 .. Len(p) - 1 : p[j] >= 128}

LEMMA LongerSize ==
    ASSUME NEW v \in Nat, NEW p \in PackedSizes
    PROVE  LET q == <<128 + (v % 128)>> \o p
           IN  /\ q \in PackedSizes /\ Len(q) = 1 + Len(p) /\ q[1] = 128 + (v % 128)
               /\ \A j \in 1 .. Len(p) : q[1 + j] = p[j]
<1> DEFINE h == <<128 + (v % 128)>>
           q == h \o p
<1>1. h \in Seq(U8) /\ Len(h) = 1 /\ h[1] = 128 + (v % 128)
  BY DEF U8
<1>2. p \in Seq(U8) /\ Len(p) \in Nat /\ Len(p) >= 1 /\ p[Len(p)] < 128
      /\ \A j \in 1 .. Len(p) - 1 : p[j] >= 128
  BY DEF PackedSizes
<1> HIDE DEF h
<1>3. /\ q \in Seq(U8) /\ Len(q) = 1 + Len(p)
      /\ \A j \in 1 .. 1 + Len(p) : q[j] = IF j <= 1 THEN h[j] ELSE p[j - 1]
  <2>1. /\ q \in Seq(U8) /\ Len(q) = Len(h) + Len(p)
        /\ \A j \in 1 .. Len(h) + Len(p) : q[j] = IF j <= Len(h) THEN h[j] ELSE p[j - Len(h)]
    <3>1. p \in Seq(U8)
      BY <1>2
    <3> QED BY <1>1, <3>1, ConcatProperties, Zenon
  <2> QED BY <1>1, <2>1, Zenon
<1> HIDE DEF q
<1>4. q[1] = 128 + (v % 128)
  BY <1>1, <1>2, <1>3
<1>5. ASSUME NEW j \in 1 .. Len(p) PROVE q[1 + j] = p[j]
  <2>1. 1 + j \in 1 .. 1 + Len(p) /\ ~ (1 + j <= 1) /\ (1 + j) - 1 = j
    BY <1>2
  <2> QED BY <1>3, <2>1
<1>6. q[Len(q)] < 128
  BY <1>2, <1>3, <1>5
<1>7. ASSUME NEW j \in 1 .. Len(q) - 1 PROVE q[j] >= 128
  <2>1. CASE j = 1
    BY <1>4, <2>1
  <2>2. CASE j # 1
    <3>1. j - 1 \in 1 .. Len(p) - 1 /\ 1 + (j - 1) = j /\ j - 1 \in 1 .. Len(p)
      BY <1>2, <1>3, <2>2
    <3>2. p[j - 1] >= 128
      BY <1>2, <3>1
    <3>3. q[1 + (j - 1)] = p[j - 1]
      BY <1>5, <3>1
    <3> QED BY <3>1, <3>2, <3>3
  <2> QED BY <2>1, <2>2
<1>8. q \in PackedSizes
  BY <1>2, <1>3, <1>6, <1>7 DEF PackedSizes
<1> QED BY <1>3, <1>4, <1>5, <1>8 DEF q, h

LEMMA PackUsizeDefined ==
    /\ Cf!PackUsize \in [Nat -> PackedSizes]
    /\ \A v \in Nat :
          Cf!PackUsize[v] = IF v < 128 THEN <<v>>
                           ELSE <<128 + (v % 128)>> \o Cf!PackUsize[v \div 128]
<1> DEFINE last == {v \in Nat : v < 128}
           base == [v \in Nat |-> <<v % 128>>]
           next == [v \in Nat |-> v \div 128]
           step == [x \in Nat \X PackedSizes |-> <<128 + (x[1] % 128)>> \o x[2]]
<1>1. ASSUME NEW v \in Nat PROVE <<v % 128>> \in PackedSizes
  BY DEF PackedSizes, U8
<1>2. base \in [Nat -> PackedSizes]
  BY <1>1
<1>3. next \in [Nat -> Nat] /\ \A v \in Nat : v \in last \/ next[v] < v
  OBVIOUS
<1>4. step \in [Nat \X PackedSizes -> PackedSizes]
  <2>1. ASSUME NEW v \in Nat, NEW p \in PackedSizes
        PROVE  <<128 + (v % 128)>> \o p \in PackedSizes
    BY LongerSize
  <2> QED BY <2>1
<1>5. \A v \in Nat : base[v] = <<v % 128>> /\ next[v] = v \div 128
  OBVIOUS
<1>6. \A v \in Nat, p \in PackedSizes : step[<<v, p>>] = <<128 + (v % 128)>> \o p
  OBVIOUS
<1> HIDE DEF base, next, step
<1>7. PICK f \in [Nat -> PackedSizes] : Descent(f, last, base, next, step)
  <2> HIDE DEF last
  <2>1. last \in SUBSET Nat
    BY DEF last
  <2> QED BY <1>2, <1>3, <1>4, <2>1, DescentDefines
<1>8. f = [v \in Nat |-> IF v < 128 THEN <<v>> ELSE <<128 + (v % 128)>> \o f[v \div 128]]
  <2>1. ASSUME NEW v \in Nat
        PROVE  f[v] = IF v < 128 THEN <<v>> ELSE <<128 + (v % 128)>> \o f[v \div 128]
    <3>1. f[v] = IF v \in last THEN base[v] ELSE step[<<v, f[next[v]]>>]
      BY <1>7 DEF Descent
    <3>2. CASE v < 128
      <4>1. v \in last /\ v % 128 = v
        BY <3>2
      <4> HIDE DEF last
      <4> QED BY <1>5, <3>1, <3>2, <4>1, Zenon
    <3>3. CASE ~ (v < 128)
      <4>1. v \div 128 \in Nat /\ v \notin last
        BY <3>3
      <4> HIDE DEF last
      <4>2. f[v \div 128] \in PackedSizes
        BY <1>7, <4>1, Zenon
      <4>3. step[<<v, f[v \div 128]>>] = <<128 + (v % 128)>> \o f[v \div 128]
        BY <1>6, <4>2, ZenonT(60)
      <4> QED BY <1>5, <3>1, <3>3, <4>1, <4>3, Zenon
    <3> QED BY <3>2, <3>3
  <2>2. f = [v \in Nat |-> f[v]]
    BY <1>7
  <2> QED BY <2>1, <2>2, Zenon
<1> DEFINE Packs(g) ==
      g = [v \in Nat |-> IF v < 128 THEN <<v>> ELSE <<128 + (v % 128)>> \o g[v \div 128]]
<1>9. Cf!PackUsize = CHOOSE g : Packs(g)
  BY DEF Cf!PackUsize
<1>10. Packs(f)
  BY <1>8
<1> HIDE DEF Packs
<1>11. Packs(Cf!PackUsize)
  BY <1>9, <1>10
<1> DEFINE g == Cf!PackUsize
<1>12. \A v \in Nat : g[v] = IF v < 128 THEN <<v>> ELSE <<128 + (v % 128)>> \o g[v \div 128]
  BY <1>11 DEF Packs
<1>13. DOMAIN g = Nat
  BY <1>11 DEF Packs
<1> HIDE DEF g
<1>14. ASSUME NEW v \in Nat PROVE g[v] = f[v]
  <2> DEFINE D == {w \in Nat : g[w] # f[w]}
  <2>1. SUFFICES ASSUME D # {} PROVE FALSE
    OBVIOUS
  <2>2. PICK w \in D : \A u \in D : w <= u
    BY <2>1, LeastElement
  <2>3. f[w] = IF w < 128 THEN <<w>> ELSE <<128 + (w % 128)>> \o f[w \div 128]
    BY <1>8
  <2>4. CASE w < 128
    <3>1. g[w] = <<w>> /\ f[w] = <<w>>
      BY <1>12, <2>3, <2>4, Zenon
    <3> QED BY <2>2, <3>1
  <2>5. CASE ~ (w < 128)
    <3>1. w \div 128 \in Nat /\ w \div 128 < w
      BY <2>5
    <3>2. w \div 128 \notin D
      BY <2>2, <3>1
    <3>3. g[w \div 128] = f[w \div 128]
      BY <3>1, <3>2
    <3>4. g[w] = <<128 + (w % 128)>> \o g[w \div 128]
      BY <1>12, <2>5, Zenon
    <3>5. g[w] = f[w]
      BY <2>3, <2>5, <3>3, <3>4, Zenon
    <3> QED BY <2>2, <3>5
  <2> QED BY <2>4, <2>5
<1>15. g = [v \in Nat |-> g[v]]
  BY <1>11 DEF Packs, g
<1>16. g \in [Nat -> PackedSizes]
  BY <1>7, <1>14, <1>15
<1> QED BY <1>12, <1>16 DEF g

\* The first byte of a size, and what the others stand for.
LEMMA SizeHead ==
    ASSUME NEW v \in Nat
    PROVE  LET p == Cf!PackUsize[v]
               q == Cf!PackUsize[v \div 128]
           IN  \/ v < 128 /\ Len(p) = 1 /\ p[1] = v
               \/ /\ v >= 128 /\ Len(p) = 1 + Len(q) /\ p[1] = 128 + (v % 128)
                  /\ \A j \in 1 .. Len(q) : p[1 + j] = q[j]
<1> DEFINE g == Cf!PackUsize
<1>1. g \in [Nat -> PackedSizes]
      /\ g[v] = IF v < 128 THEN <<v>> ELSE <<128 + (v % 128)>> \o g[v \div 128]
  BY PackUsizeDefined
<1> HIDE DEF g
<1>2. CASE v < 128
  <2>1. g[v] = <<v>>
    BY <1>1, <1>2, Zenon
  <2> QED BY <1>2, <2>1 DEF g
<1>3. CASE ~ (v < 128)
  <2>1. v \div 128 \in Nat
    OBVIOUS
  <2>2. g[v \div 128] \in PackedSizes
    BY <1>1, <2>1, Zenon
  <2>3. g[v] = <<128 + (v % 128)>> \o g[v \div 128]
    BY <1>1, <1>3, Zenon
  <2>4. v >= 128
    BY <1>3
  <2> DEFINE q == g[v \div 128]
             p == <<128 + (v % 128)>> \o q
  <2>5. q \in PackedSizes
    BY <2>2
  <2> HIDE DEF q
  <2>6. Len(p) = 1 + Len(q) /\ p[1] = 128 + (v % 128) /\ \A j \in 1 .. Len(q) : p[1 + j] = q[j]
    BY <2>5, LongerSize
  <2>7. g[v] = p
    BY <2>3 DEF q
  <2> HIDE DEF p
  <2> QED BY <2>4, <2>6, <2>7 DEF g, q
<1> QED BY <1>2, <1>3

\* The size v stands in s after k bytes.
UsizeFollows(s, k, v) ==
    LET p == Cf!PackUsize[v]
    IN  k + Len(p) <= Len(s) /\ \A j \in 1 .. Len(p) : s[k + j] = p[j]

LEMMA LeastIs ==
    ASSUME NEW S \in SUBSET Nat, NEW x \in S, \A y \in S : x <= y
    PROVE  Cf!Least(S) = x
<1> DEFINE y == Cf!Least(S)
<1>1. y \in S /\ \A z \in S : y <= z
  BY DEF Cf!Least
<1> HIDE DEF y
<1>2. y \in Nat /\ x \in Nat /\ y <= x /\ x <= y
  BY <1>1
<1>3. y = x
  BY <1>2
<1> QED BY <1>3 DEF y

\* Where a size ends, and what it is.
LEMMA SizeIsRead ==
    ASSUME NEW s \in Seq(U8), NEW k \in Nat, NEW v \in Nat, UsizeFollows(s, k, v)
    PROVE  /\ Cf!SizeEnd(s, k + 1) = k + Len(Cf!PackUsize[v])
           /\ Cf!UsizeAt(s, k + 1) = v
<1> DEFINE p == Cf!PackUsize[v]
           last == k + Len(p)
           top == Len(p) - 1
<1>1. p \in PackedSizes
  BY PackUsizeDefined
<1>2. p \in Seq(U8) /\ Len(p) \in Nat /\ Len(p) >= 1 /\ p[Len(p)] < 128
      /\ \A j \in 1 .. Len(p) - 1 : p[j] >= 128
  BY <1>1 DEF PackedSizes
<1>3. last <= Len(s) /\ \A j \in 1 .. Len(p) : s[k + j] = p[j]
  BY DEF UsizeFollows
<1> HIDE DEF p
<1>4. last \in Nat /\ top \in Nat /\ last - (k + 1) = top /\ Len(s) \in Nat
  BY <1>2
<1>5. Cf!SizeEnd(s, k + 1) = last
  <2> DEFINE S == {j \in k + 1 .. Len(s) : s[j] < 128}
  <2>1. last \in S
    BY <1>2, <1>3, <1>4
  <2>2. ASSUME NEW j \in S PROVE last <= j
    <3>1. SUFFICES ASSUME j < last PROVE FALSE
      BY <1>4
    <3>2. j - k \in 1 .. Len(p) - 1 /\ k + (j - k) = j /\ j - k \in 1 .. Len(p)
      BY <1>2, <1>4, <3>1
    <3>3. s[k + (j - k)] = p[j - k] /\ p[j - k] >= 128
      BY <1>2, <1>3, <3>2
    <3>4. s[j] < 128
      OBVIOUS
    <3>5. s[j] >= 128
      BY <3>2, <3>3, Zenon
    <3>6. s[j] \in U8
      BY <1>4
    <3>7. s[j] \in Int
      BY <3>6, Bytes
    <3> QED BY <3>4, <3>5, <3>7
  <2>3. S \in SUBSET Nat
    OBVIOUS
  <2> HIDE DEF S
  <2>4. Cf!Least(S) = last
    BY <2>1, <2>2, <2>3, LeastIs
  <2> QED BY <2>4 DEF Cf!SizeEnd, S
<1> DEFINE Sums(f, m, n) ==
      f = [j \in 0 .. n |-> IF j = 0 THEN s[m] ELSE 128 * f[j - 1] + (s[m - j] % 128)]
           Values(f) == Sums(f, last, top)
<1>6. Cf!UsizeAt(s, k + 1) = (CHOOSE f : Values(f))[top]
  <2> DEFINE m == Cf!SizeEnd(s, k + 1)
  <2>1. Cf!UsizeAt(s, k + 1) = (CHOOSE f : Sums(f, m, m - (k + 1)))[m - (k + 1)]
    BY DEF Cf!UsizeAt
  <2>2. m = last /\ m - (k + 1) = top
    BY <1>4, <1>5
  <2> HIDE DEF m, last, top, Sums
  <2> QED BY <2>1, <2>2, Zenon
<1>7. ASSUME NEW j \in 0 .. top PROVE last - j \in 1 .. Len(s) /\ s[last - j] \in U8
  <2>1. last - j \in 1 .. Len(s)
    BY <1>2, <1>3, <1>4
  <2> QED BY <2>1
<1>8. \E f : Values(f)
  <2> DEFINE step == [x \in (1 .. top) \X Nat |-> 128 * x[2] + (s[last - x[1]] % 128)]
  <2>1. s[last] \in Nat
    <3>1. last \in 1 .. Len(s)
      BY <1>2, <1>3, <1>4
    <3>2. s[last] \in U8
      BY <3>1
    <3> QED BY <3>2, Bytes
  <2>2. \A j \in 1 .. top : s[last - j] \in Nat
    <3>1. ASSUME NEW j \in 1 .. top PROVE s[last - j] \in Nat
      <4>1. j \in 0 .. top
        BY <1>4
      <4>2. s[last - j] \in U8
        BY <1>7, <4>1, Zenon
      <4> QED BY <4>2, Bytes
    <3> QED BY <3>1
  <2>3. step \in [(1 .. top) \X Nat -> Nat]
    <3> HIDE DEF last, top
    <3> QED BY <2>2
  <2>4. \A j \in 1 .. top, n \in Nat : step[<<j, n>>] = 128 * n + (s[last - j] % 128)
    OBVIOUS
  <2> HIDE DEF step
  <2>5. PICK f \in [0 .. top -> Nat] : Recursion(f, s[last], step, top)
    BY <1>4, <2>1, <2>3, RecursionUpTo
  <2>6. ASSUME NEW j \in 0 .. top
        PROVE  f[j] = IF j = 0 THEN s[last] ELSE 128 * f[j - 1] + (s[last - j] % 128)
    <3>1. f[j] = IF j = 0 THEN s[last] ELSE step[<<j, f[j - 1]>>]
      BY <2>5 DEF Recursion
    <3>2. CASE j = 0
      BY <3>1, <3>2
    <3>3. CASE j # 0
      <4>1. j \in 1 .. top /\ j - 1 \in 0 .. top
        BY <1>4, <3>3
      <4>2. f[j - 1] \in Nat
        BY <2>5, <4>1
      <4>3. step[<<j, f[j - 1]>>] = 128 * f[j - 1] + (s[last - j] % 128)
        BY <2>4, <4>1, <4>2, Zenon
      <4> QED BY <3>1, <3>3, <4>3, Zenon
    <3> QED BY <3>2, <3>3
  <2>7. f = [j \in 0 .. top |-> f[j]]
    BY <2>5
  <2> HIDE DEF last, top
  <2>8. Values(f)
    BY <2>6, <2>7, Zenon
  <2> QED BY <2>8
<1> DEFINE g == CHOOSE f : Values(f)
<1>9. Values(g)
  <2> HIDE DEF Values
  <2> QED BY <1>8
<1> HIDE DEF g
<1>10. \A j \in 0 .. top :
          g[j] = IF j = 0 THEN s[last] ELSE 128 * g[j - 1] + (s[last - j] % 128)
  <2> HIDE DEF last, top
  <2> QED BY <1>9
\* The last j + 1 bytes stand for u.
<1> DEFINE Stands(j, u) == LET q == Cf!PackUsize[u]
                           IN  Len(q) = j + 1 /\ \A i \in 1 .. j + 1 : s[last - j - 1 + i] = q[i]
           T == {j \in 0 .. top : \A u \in Nat : Stands(j, u) => g[j] = u}
<1>11. 0 \in T
  <2>1. ASSUME NEW u \in Nat, Stands(0, u) PROVE g[0] = u
    <3> DEFINE q == Cf!PackUsize[u]
               r == Cf!PackUsize[u \div 128]
    <3>1. Len(q) = 1 /\ s[last - 0 - 1 + 1] = q[1]
      BY <2>1
    <3>2. r \in PackedSizes
      BY PackUsizeDefined
    <3>3. Len(r) >= 1 /\ Len(r) \in Nat
      BY <3>2 DEF PackedSizes
    <3>4. \/ u < 128 /\ Len(q) = 1 /\ q[1] = u
          \/ Len(q) = 1 + Len(r)
      BY SizeHead
    <3> HIDE DEF q, r
    <3>5. q[1] = u
      BY <3>1, <3>3, <3>4
    <3>6. last - 0 - 1 + 1 = last /\ 0 \in 0 .. top
      BY <1>4
    <3>7. g[0] = s[last]
      BY <1>10, <3>6
    <3> QED BY <3>1, <3>5, <3>6, <3>7, Zenon
  <2> HIDE DEF Stands
  <2> QED BY <1>4, <2>1
<1>12. ASSUME NEW j \in 0 .. top - 1, j \in T PROVE j + 1 \in T
  <2>1. ASSUME NEW u \in Nat, Stands(j + 1, u) PROVE g[j + 1] = u
    <3> DEFINE q == Cf!PackUsize[u]
               w == u \div 128
               r == Cf!PackUsize[w]
    <3>1. Len(q) = j + 1 + 1 /\ \A i \in 1 .. j + 1 + 1 : s[last - (j + 1) - 1 + i] = q[i]
      BY <2>1
    <3>2. \/ u < 128 /\ Len(q) = 1 /\ q[1] = u
          \/ /\ u >= 128 /\ Len(q) = 1 + Len(r) /\ q[1] = 128 + (u % 128)
             /\ \A i \in 1 .. Len(r) : q[1 + i] = r[i]
      BY SizeHead
    <3>3. w \in Nat /\ r \in PackedSizes
      BY PackUsizeDefined
    <3>4. Len(r) \in Nat
      BY <3>3 DEF PackedSizes
    <3>5. u = 128 * w + (u % 128) /\ (u % 128) \in 0 .. 127
      OBVIOUS
    <3> HIDE DEF q, r, w
    <3>6. /\ Len(r) = j + 1 /\ q[1] = 128 + (u % 128)
          /\ \A i \in 1 .. j + 1 : q[1 + i] = r[i]
      BY <3>1, <3>2, <3>4
    <3>7. ASSUME NEW i \in 1 .. j + 1 PROVE s[last - j - 1 + i] = r[i]
      <4>1. 1 + i \in 1 .. j + 1 + 1 /\ last - (j + 1) - 1 + (1 + i) = last - j - 1 + i
        BY <1>4
      <4>2. s[last - (j + 1) - 1 + (1 + i)] = q[1 + i]
        BY <3>1, <4>1
      <4> QED BY <3>6, <4>1, <4>2
    <3>8. Stands(j, w)
      BY <3>6, <3>7 DEF r
    <3>9. g[j] = w
      <4> HIDE DEF Stands
      <4> QED BY <1>12, <3>3, <3>8
    <3>10. s[last - (j + 1)] = q[1]
      <4>1. 1 \in 1 .. j + 1 + 1 /\ last - (j + 1) - 1 + 1 = last - (j + 1)
        BY <1>4
      <4>2. s[last - (j + 1) - 1 + 1] = q[1]
        BY <3>1, <4>1
      <4> QED BY <4>1, <4>2
    <3>11. j + 1 \in 0 .. top /\ j + 1 # 0 /\ (j + 1) - 1 = j
      BY <1>4
    <3>12. g[j + 1] = 128 * g[(j + 1) - 1] + (s[last - (j + 1)] % 128)
      BY <1>10, <3>11, Zenon
    <3>13. g[j + 1] = 128 * w + ((128 + (u % 128)) % 128)
      BY <3>6, <3>9, <3>10, <3>11, <3>12, Zenon
    <3>14. (128 + (u % 128)) % 128 = u % 128
      OBVIOUS
    <3> QED BY <3>3, <3>5, <3>13, <3>14
  <2>2. j + 1 \in 0 .. top
    BY <1>4
  <2> HIDE DEF Stands
  <2> QED BY <2>1, <2>2
<1> HIDE DEF T
<1>13. \A j \in 0 .. top : j \in T
  BY <1>4, <1>11, <1>12, InductionUpTo
<1>14. top \in T
  BY <1>4, <1>13
<1>15. Stands(top, v)
  <2>1. Len(p) = top + 1
    BY <1>2
  <2>2. ASSUME NEW i \in 1 .. top + 1 PROVE s[last - top - 1 + i] = p[i]
    <3>1. last - top - 1 + i = k + i /\ i \in 1 .. Len(p)
      BY <1>2
    <3> QED BY <1>3, <3>1
  <2> QED BY <2>1, <2>2 DEF p
<1>16. g[top] = v
  <2> HIDE DEF Stands
  <2> QED BY <1>14, <1>15 DEF T
<1>17. Cf!UsizeAt(s, k + 1) = g[top]
  BY <1>6 DEF g
<1> QED BY <1>5, <1>16, <1>17 DEF p

\* A run is as long as its bytes are equal.
LEMMA LeastIn ==
    ASSUME NEW S \in SUBSET Nat, S # {}
    PROVE  Cf!Least(S) \in S /\ \A y \in S : Cf!Least(S) <= y
<1>1. \E x \in S : \A y \in S : x <= y
  BY LeastElement
<1> QED BY <1>1 DEF Cf!Least

LEMMA SizeLength == \A v \in Nat : /\ Cf!PackUsize[v] \in Seq(U8)
                                   /\ Len(Cf!PackUsize[v]) \in Nat /\ Len(Cf!PackUsize[v]) >= 1
<1>1. ASSUME NEW v \in Nat PROVE Cf!PackUsize[v] \in PackedSizes
  BY PackUsizeDefined
<1> QED BY <1>1 DEF PackedSizes

Offsets == {0, 7, 14, 21, 28}

\* Of the size v the bytes of r are still to be read.
UsizeRead(size, v, r) ==
    \E k \in Offsets : /\ size = [value |-> v - r * 2 ^ k, offset |-> k]
                       /\ r * 2 ^ k <= v /\ (k > 0 => r > 0)

LEMMA UsizeLarge ==
    ASSUME NEW size, NEW v \in Nat, NEW r \in Nat, UsizeRead(size, v, r)
    PROVE  /\ size.offset \in Nat
           /\ size.offset + 7 > 32 => v >= 2 ^ 28
           /\ size.offset + 7 <= 32 => size.offset \in {0, 7, 14, 21}
<1>1. PICK k \in Offsets : /\ size = [value |-> v - r * 2 ^ k, offset |-> k]
                           /\ r * 2 ^ k <= v /\ (k > 0 => r > 0)
  BY DEF UsizeRead
<1>2. size.offset = k
  BY <1>1
<1>3. k \in {0, 7, 14, 21, 28}
  BY DEF Offsets
<1>4. k + 7 <= 32 => k \in {0, 7, 14, 21}
  BY <1>3
<1>5. ASSUME k + 7 > 32 PROVE v >= 2 ^ 28
  <2>1. k = 28
    BY <1>3, <1>5
  <2>2. r * 2 ^ 28 <= v /\ r > 0
    BY <1>1, <2>1
  <2> QED BY <2>2, SMT
<1> QED BY <1>2, <1>3, <1>4, <1>5

\* The next byte of a size.
LEMMA UsizeByte ==
    ASSUME NEW s \in Seq(U8), NEW k \in Nat, NEW r \in Nat, UsizeFollows(s, k, r)
    PROVE  LET n == Len(Cf!PackUsize[r])
           IN  /\ k + n <= Len(s) /\ n \in Nat /\ n >= 1
               /\ \/ r < 128 /\ n = 1 /\ s[k + 1] = r
                  \/ /\ r >= 128 /\ s[k + 1] = 128 + (r % 128) /\ r \div 128 \in Nat
                     /\ n = 1 + Len(Cf!PackUsize[r \div 128])
                     /\ UsizeFollows(s, k + 1, r \div 128)
<1> DEFINE p == Cf!PackUsize[r]
           q == Cf!PackUsize[r \div 128]
           n == Len(p)
<1>1. k + n <= Len(s) /\ \A j \in 1 .. n : s[k + j] = p[j]
  BY DEF UsizeFollows
<1>2. r \div 128 \in Nat /\ n \in Nat /\ n >= 1 /\ Len(q) \in Nat /\ Len(s) \in Nat
  <2>1. r \div 128 \in Nat
    BY SMT
  <2> QED BY <2>1, SizeLength
<1>3. \/ r < 128 /\ n = 1 /\ p[1] = r
      \/ /\ r >= 128 /\ n = 1 + Len(q) /\ p[1] = 128 + (r % 128)
         /\ \A j \in 1 .. Len(q) : p[1 + j] = q[j]
  BY SizeHead
<1> HIDE DEF p, q
<1>4. s[k + 1] = p[1]
  <2>1. 1 \in 1 .. n
    BY <1>2
  <2> QED BY <1>1, <2>1
<1>5. CASE r < 128 /\ n = 1 /\ p[1] = r
  BY <1>1, <1>2, <1>4, <1>5 DEF p
<1>6. CASE /\ r >= 128 /\ n = 1 + Len(q) /\ p[1] = 128 + (r % 128)
           /\ \A j \in 1 .. Len(q) : p[1 + j] = q[j]
  <2>1. ASSUME NEW j \in 1 .. Len(q) PROVE s[k + 1 + j] = q[j]
    <3>1. 1 + j \in 1 .. n /\ k + (1 + j) = k + 1 + j
      BY <1>2, <1>6
    <3>2. s[k + (1 + j)] = p[1 + j]
      BY <1>1, <3>1
    <3> QED BY <1>6, <3>1, <3>2
  <2>2. k + 1 + Len(q) <= Len(s)
    BY <1>1, <1>2, <1>6
  <2>3. UsizeFollows(s, k + 1, r \div 128)
    BY <2>1, <2>2 DEF UsizeFollows, q
  <2> QED BY <1>1, <1>2, <1>4, <1>6, <2>3 DEF p, q
<1> QED BY <1>3, <1>5, <1>6

-----------------------------------------------------------------------------
(***************************************************************************)
(* The format of CRLE: a sequence of segments that stand for the data,     *)
(* in order.                                                               *)
(***************************************************************************)
\* The bytes b + 1 .. e of the stream s are a segment that stands for the bytes
\* m + 1 .. n of the data d.  A segment that stands for none is all there is.
SegmentAt(s, d, b, e, m, n) ==
    LET body == b + 1 + Len(Cf!PackUsize[n - m])
    IN  /\ e <= Len(s) /\ UsizeFollows(s, b + 1, n - m)
        /\ \/ /\ s[b + 1] = 0 /\ e = body + (n - m)
              /\ \A j \in 1 .. n - m : s[body + j] = d[m + j]
           \/ /\ s[b + 1] = 1 /\ e = body + 1 /\ n > m
              /\ \A j \in 1 .. n - m : s[body + 1] = d[m + j]
        /\ n = m => d = <<>> /\ e = Len(s)

\* Where segments begin and end, and what of the data they begin or end with.
Cuts(s, d, at) ==
    /\ DOMAIN at \subseteq 0 .. Len(s) /\ at \in [DOMAIN at -> 0 .. Len(d)]
    /\ 0 \in DOMAIN at /\ at[0] = 0 /\ Len(s) \in DOMAIN at
    /\ \A b \in DOMAIN at : b < Len(s) =>
          \E e \in DOMAIN at : b < e /\ at[b] <= at[e] /\ SegmentAt(s, d, b, e, at[b], at[e])

\* A segment stays one when more is written behind it.
LEMMA SegmentStays ==
    ASSUME NEW s \in Seq(U8), NEW u \in Seq(U8), NEW d,
           NEW b \in Nat, NEW e \in Nat, NEW m \in Nat, NEW n \in Nat, m < n,
           SegmentAt(s, d, b, e, m, n)
    PROVE  SegmentAt(s \o u, d, b, e, m, n)
<1> DEFINE t == s \o u
           Ln == Len(Cf!PackUsize[n - m])
           p == Cf!PackUsize[n - m]
           body == b + 1 + Ln
<1>1. Len(s) \in Nat /\ Len(u) \in Nat /\ n - m \in Nat
  OBVIOUS
<1>2. Ln \in Nat /\ Ln >= 1
  BY <1>1, SizeLength
<1>3. t \in Seq(U8) /\ Len(t) = Len(s) + Len(u) /\ \A i \in 1 .. Len(s) : t[i] = s[i]
  BY <1>1, ConcatProperties
<1> HIDE DEF t, Ln
<1>4. /\ e <= Len(s) /\ UsizeFollows(s, b + 1, n - m)
      /\ \/ /\ s[b + 1] = 0 /\ e = body + (n - m)
            /\ \A j \in 1 .. n - m : s[body + j] = d[m + j]
         \/ /\ s[b + 1] = 1 /\ e = body + 1 /\ n > m
            /\ \A j \in 1 .. n - m : s[body + 1] = d[m + j]
  BY DEF SegmentAt, Ln
<1>5. body + 1 <= Len(s) /\ body + 1 <= e
  BY <1>1, <1>2, <1>4
<1>6. UsizeFollows(t, b + 1, n - m)
  <2>1. b + 1 + Ln <= Len(s) /\ \A j \in 1 .. Ln : s[b + 1 + j] = p[j]
    BY <1>4 DEF UsizeFollows, Ln
  <2>2. ASSUME NEW j \in 1 .. Ln PROVE t[b + 1 + j] = p[j]
    <3>1. b + 1 + j \in 1 .. Len(s)
      BY <1>1, <1>2, <2>1
    <3> QED BY <1>3, <2>1, <3>1
  <2>3. b + 1 + Ln <= Len(t)
    BY <1>1, <1>2, <1>3, <2>1
  <2> QED BY <2>2, <2>3 DEF UsizeFollows, Ln
<1>7. t[b + 1] = s[b + 1]
  <2>1. b + 1 \in 1 .. Len(s)
    BY <1>1, <1>2, <1>5
  <2> QED BY <1>3, <2>1
<1>8. e <= Len(t)
  BY <1>1, <1>3, <1>4
<1> DEFINE Copy == t[b + 1] = 0 /\ e = body + (n - m) /\ \A j \in 1 .. n - m : t[body + j] = d[m + j]
           Run == t[b + 1] = 1 /\ e = body + 1 /\ n > m /\ \A j \in 1 .. n - m : t[body + 1] = d[m + j]
<1>11. Copy \/ Run => SegmentAt(t, d, b, e, m, n)
  <2>1. n # m
    OBVIOUS
  <2> HIDE DEF Copy, Run
  <2> SUFFICES ASSUME Copy \/ Run PROVE SegmentAt(t, d, b, e, m, n)
    OBVIOUS
  <2> QED BY <1>6, <1>8, <2>1, Zenon DEF SegmentAt, Ln, Copy, Run
<1>9. CASE s[b + 1] = 0 /\ e = body + (n - m)
           /\ \A j \in 1 .. n - m : s[body + j] = d[m + j]
  <2>1. ASSUME NEW j \in 1 .. n - m PROVE t[body + j] = d[m + j]
    <3>1. body + j \in 1 .. Len(s)
      BY <1>1, <1>2, <1>4, <1>9
    <3> QED BY <1>3, <1>9, <3>1
  <2>2. Copy
    BY <1>7, <1>9, <2>1
  <2> QED BY <1>11, <2>2 DEF t
<1>10. CASE s[b + 1] = 1 /\ e = body + 1 /\ n > m
            /\ \A j \in 1 .. n - m : s[body + 1] = d[m + j]
  <2>1. t[body + 1] = s[body + 1]
    <3>1. body + 1 \in 1 .. Len(s)
      BY <1>1, <1>2, <1>5
    <3> QED BY <1>3, <3>1
  <2>2. \A j \in 1 .. n - m : t[body + 1] = d[m + j]
    BY <1>10, <2>1
  <2>3. Run
    BY <1>7, <1>10, <2>2
  <2> QED BY <1>11, <2>3 DEF t
<1> QED BY <1>4, <1>9, <1>10

\* The bytes p are a part of the data, which may be written as a segment of that kind.
PartOf(d, kind, m, n, p) ==
    /\ d \in Seq(U8) /\ p \in Seq(U8) /\ kind \in {0, 1}
    /\ m \in 0 .. Len(d) /\ n \in m .. Len(d)
    /\ Len(p) = n - m /\ \A j \in 1 .. n - m : p[j] = d[m + j]
    /\ kind = 1 => n > m /\ \A j \in 1 .. n - m : p[j] = p[1]
    /\ n = m => d = <<>>

\* What the compressor writes behind s is a segment.
LEMMA SegmentWritten ==
    ASSUME NEW s \in Seq(U8), NEW d, NEW kind, NEW m, NEW n, NEW p,
           PartOf(d, kind, m, n, p)
    PROVE  LET t == s \o Cf!Segment(kind, p)
           IN  /\ t \in Seq(U8) /\ Len(t) > Len(s)
               /\ SegmentAt(t, d, Len(s), Len(t), m, n)
<1> DEFINE u == Cf!PackUsize[n - m]
           r == IF kind = 0 THEN p ELSE <<p[1]>>
           g == Cf!Segment(kind, p)
           t == s \o g
           b == Len(s)
           e == Len(t)
           Ln == Len(u)
           body == b + 1 + Ln
<1>0. /\ d \in Seq(U8) /\ p \in Seq(U8) /\ kind \in {0, 1}
      /\ m \in 0 .. Len(d) /\ n \in m .. Len(d)
      /\ Len(p) = n - m /\ \A j \in 1 .. n - m : p[j] = d[m + j]
      /\ kind = 1 => n > m /\ \A j \in 1 .. n - m : p[j] = p[1]
      /\ n = m => d = <<>>
  BY DEF PartOf
<1>1. /\ Len(s) \in Nat /\ Len(p) \in Nat /\ n - m \in Nat /\ kind \in U8
      /\ m \in Nat /\ n \in Nat /\ Len(d) \in Nat
  BY <1>0 DEF U8
<1>2. u \in Seq(U8) /\ Ln \in Nat /\ Ln >= 1
  BY <1>1, SizeLength
<1>3. r \in Seq(U8) /\ Len(r) = IF kind = 0 THEN n - m ELSE 1
  <2>1. CASE kind = 0
    BY <1>0, <2>1
  <2>2. CASE kind = 1
    <3>1. p[1] \in U8
      BY <1>0, <1>1, <2>2
    <3> QED BY <2>2, <3>1
  <2> QED BY <1>0, <2>1, <2>2
<1>4. g = <<kind>> \o u \o r
  BY <1>0, Zenon DEF Cf!Segment, Cf!Scattered
<1> HIDE DEF u, r, g
<1>5. /\ g \in Seq(U8) /\ Len(g) = 1 + Ln + Len(r) /\ g[1] = kind
      /\ \A j \in 1 .. Ln : g[1 + j] = u[j]
      /\ \A j \in 1 .. Len(r) : g[1 + Ln + j] = r[j]
  <2> DEFINE q == <<kind>> \o u \o r
  <2>1. /\ q \in Seq(U8) /\ Len(q) = 1 + Len(u) + Len(r) /\ q[1] = kind
        /\ \A j \in 1 .. Len(u) : q[1 + j] = u[j]
        /\ \A j \in 1 .. Len(r) : q[1 + Len(u) + j] = r[j]
    <3>1. kind \in U8 /\ u \in Seq(U8) /\ r \in Seq(U8)
      BY <1>1, <1>2, <1>3
    <3> QED BY <3>1, ThreeParts
  <2>2. g = q
    BY <1>4
  <2> HIDE DEF q
  <2> QED BY <2>1, <2>2
<1>6. Len(r) \in Nat
  BY <1>1, <1>3
<1> HIDE DEF Ln
<1>7. /\ t \in Seq(U8) /\ Len(t) = b + Len(g)
      /\ \A j \in 1 .. Len(g) : t[b + j] = g[j]
  <2>1. g \in Seq(U8)
    BY <1>5
  <2> QED BY <2>1, TwoParts
<1> HIDE DEF t
<1>8. ASSUME NEW j \in 1 .. Len(g) PROVE t[b + j] = g[j]
  BY <1>7
<1>9. t[b + 1] = kind
  <2>1. 1 \in 1 .. Len(g)
    BY <1>2, <1>5, <1>6
  <2> QED BY <1>5, <1>8, <2>1
<1>10. UsizeFollows(t, b + 1, n - m)
  <2>1. ASSUME NEW j \in 1 .. Ln PROVE t[b + 1 + j] = u[j]
    <3>1. 1 + j \in 1 .. Len(g) /\ b + (1 + j) = b + 1 + j
      BY <1>1, <1>2, <1>5, <1>6
    <3>2. t[b + (1 + j)] = g[1 + j]
      BY <1>8, <3>1
    <3> QED BY <1>5, <3>1, <3>2
  <2>2. b + 1 + Ln <= Len(t)
    BY <1>1, <1>2, <1>5, <1>6, <1>7
  <2> QED BY <2>1, <2>2 DEF UsizeFollows, Ln, u
<1>11. ASSUME NEW j \in 1 .. Len(r) PROVE t[body + j] = r[j]
  <2>1. 1 + Ln + j \in 1 .. Len(g) /\ b + (1 + Ln + j) = body + j
    BY <1>1, <1>2, <1>5, <1>6
  <2>2. t[b + (1 + Ln + j)] = g[1 + Ln + j]
    BY <1>8, <2>1
  <2> QED BY <1>5, <2>1, <2>2
<1>12. e = body + Len(r) /\ e \in Nat /\ b \in Nat /\ e > b
  BY <1>1, <1>2, <1>5, <1>6, <1>7
<1> HIDE DEF e
<1> DEFINE Copy == t[b + 1] = 0 /\ e = body + (n - m) /\ \A j \in 1 .. n - m : t[body + j] = d[m + j]
           Run == t[b + 1] = 1 /\ e = body + 1 /\ n > m /\ \A j \in 1 .. n - m : t[body + 1] = d[m + j]
<1>13. ASSUME kind = 0 PROVE Copy
  <2>1. Len(r) = n - m /\ r = p
    BY <1>3, <1>13 DEF r
  <2>2. \A j \in 1 .. n - m : t[body + j] = d[m + j]
    BY <1>0, <1>11, <2>1
  <2> QED BY <1>9, <1>12, <1>13, <2>1, <2>2
<1>14. ASSUME kind = 1 PROVE Run
  <2>1. Len(r) = 1 /\ r = <<p[1]>> /\ n > m
    BY <1>0, <1>3, <1>14 DEF r
  <2>2. 1 \in 1 .. Len(r) /\ r[1] = p[1]
    BY <2>1
  <2>3. t[body + 1] = p[1]
    BY <1>11, <2>2
  <2>4. \A j \in 1 .. n - m : t[body + 1] = d[m + j]
    BY <1>0, <1>14, <2>3
  <2> QED BY <1>9, <1>12, <1>14, <2>1, <2>4
<1>15. Copy \/ Run
  BY <1>0, <1>13, <1>14
<1>16. SegmentAt(t, d, b, e, m, n)
  <2>1. e <= Len(t)
    BY <1>7, <1>12 DEF e
  <2>2. n = m => d = <<>> /\ e = Len(t)
    BY <1>0 DEF e
  <2> QED BY <1>10, <1>15, <2>1, <2>2, Zenon DEF SegmentAt, Ln, u
<1> QED BY <1>7, <1>12, <1>16 DEF t, g, e

\* With it the stream goes on.
LEMMA CutsGrow ==
    ASSUME NEW s \in Seq(U8), NEW d \in Seq(U8), NEW at, Cuts(s, d, at),
           NEW n \in at[Len(s)] .. Len(d), NEW u \in Seq(U8), s = <<>> \/ at[Len(s)] < n,
           SegmentAt(s \o u, d, Len(s), Len(s \o u), at[Len(s)], n), Len(s \o u) > Len(s)
    PROVE  \E cut : Cuts(s \o u, d, cut) /\ cut[Len(s \o u)] = n
<1> DEFINE t == s \o u
           D == DOMAIN at
           cut == [b \in D \cup {Len(t)} |-> IF b = Len(t) THEN n ELSE at[b]]
<1>1. /\ D \subseteq 0 .. Len(s) /\ at \in [D -> 0 .. Len(d)]
      /\ 0 \in D /\ at[0] = 0 /\ Len(s) \in D
  BY DEF Cuts
<1>2. ASSUME NEW b \in D, b < Len(s)
      PROVE  \E e \in D : b < e /\ at[b] <= at[e] /\ SegmentAt(s, d, b, e, at[b], at[e])
  BY <1>2 DEF Cuts
<1>3. t \in Seq(U8) /\ Len(t) \in Nat /\ Len(s) \in Nat /\ Len(d) \in Nat /\ Len(t) > Len(s)
  BY ConcatProperties
<1> HIDE DEF t, D
<1>4. Len(t) \notin D
  BY <1>1, <1>3
<1>5. DOMAIN cut = D \cup {Len(t)} /\ cut[Len(t)] = n /\ \A b \in D : cut[b] = at[b]
  BY <1>4
<1>6. n \in 0 .. Len(d)
  BY <1>1, <1>3
<1>7. cut \in [D \cup {Len(t)} -> 0 .. Len(d)]
  BY <1>1, <1>6
<1> HIDE DEF cut
<1>8. ASSUME NEW b \in DOMAIN cut, b < Len(t)
      PROVE  \E e \in DOMAIN cut : b < e /\ cut[b] <= cut[e]
                                   /\ SegmentAt(t, d, b, e, cut[b], cut[e])
  <2>1. b \in D /\ b \in Nat /\ b <= Len(s) /\ cut[b] = at[b] /\ at[b] \in 0 .. Len(d)
    <3>1. b \in D
      BY <1>3, <1>5, <1>8
    <3>2. b \in 0 .. Len(s) /\ at[b] \in 0 .. Len(d)
      BY <1>1, <3>1
    <3> QED BY <1>3, <1>5, <3>1, <3>2
  <2>2. CASE b = Len(s)
    <3>1. at[b] <= n /\ SegmentAt(t, d, b, Len(t), at[b], n)
      BY <2>1, <2>2 DEF t
    <3> QED BY <1>5, <1>8, <2>1, <3>1
  <2>3. CASE b < Len(s)
    <3>1. PICK e \in D : b < e /\ at[b] <= at[e] /\ SegmentAt(s, d, b, e, at[b], at[e])
      BY <1>2, <2>1, <2>3
    <3>2. e \in Nat /\ at[e] \in 0 .. Len(d) /\ at[Len(s)] \in 0 .. Len(d)
      BY <1>1, <1>3
    <3>3. at[b] # at[e]
      <4>1. SUFFICES ASSUME at[b] = at[e] PROVE FALSE
        OBVIOUS
      <4>2. d = <<>>
        BY <3>1, <4>1, Zenon DEF SegmentAt
      <4>3. Len(d) = 0
        BY <4>2
      <4>4. s = <<>>
        BY <1>3, <3>2, <4>3
      <4>5. Len(s) = 0
        BY <4>4
      <4> QED BY <2>1, <2>3, <4>5
    <3>4. SegmentAt(s \o u, d, b, e, at[b], at[e])
      <4> DEFINE m == at[b]
                 k == at[e]
      <4>1. m \in Nat /\ k \in Nat /\ m < k
        BY <2>1, <3>1, <3>2, <3>3
      <4>2. SegmentAt(s, d, b, e, m, k)
        BY <3>1
      <4> HIDE DEF m, k
      <4>3. SegmentAt(s \o u, d, b, e, m, k)
        BY <2>1, <3>2, <4>1, <4>2, SegmentStays
      <4> QED BY <4>3 DEF m, k
    <3>5. e \in DOMAIN cut /\ cut[e] = at[e]
      BY <1>5
    <3> QED BY <2>1, <3>1, <3>4, <3>5 DEF t
  <2> QED BY <1>3, <2>1, <2>2, <2>3
<1>9. Cuts(t, d, cut)
  <2>1. DOMAIN cut \subseteq 0 .. Len(t)
    <3>1. \A b \in D : b \in 0 .. Len(t)
      BY <1>1, <1>3
    <3>2. Len(t) \in 0 .. Len(t)
      BY <1>3
    <3>3. \A b \in DOMAIN cut : b \in D \/ b = Len(t)
      BY <1>5
    <3> QED BY <3>1, <3>2, <3>3, Zenon
  <2>2. 0 \in DOMAIN cut /\ cut[0] = 0 /\ Len(t) \in DOMAIN cut
    BY <1>1, <1>5
  <2> QED BY <1>5, <1>7, <1>8, <2>1, <2>2 DEF Cuts
<1> QED BY <1>5, <1>9 DEF t

\* The data that is not compressed yet is the end of what has been handed over, and
\* the stream stands for the rest of it.
HeldBack(d, s, top, held) ==
    /\ held \in Seq(U8) /\ s \in Seq(U8) /\ Len(held) <= top
    /\ \A j \in 1 .. Len(held) : held[j] = d[top - Len(held) + j]
    /\ \E at : Cuts(s, d, at) /\ at[Len(s)] = top - Len(held)

LEMMA HoldsNothing ==
    ASSUME NEW d \in Seq(U8)
    PROVE  HeldBack(d, <<>>, 0, <<>>)
<1> DEFINE at == [b \in {0} |-> 0]
           s == <<>>
<1>1. s \in Seq(U8) /\ Len(s) = 0 /\ Len(d) \in Nat
  OBVIOUS
<1> HIDE DEF s
<1>2. DOMAIN at = {0} /\ at[0] = 0 /\ at \in [{0} -> 0 .. Len(d)]
  BY <1>1
<1> HIDE DEF at
<1>3. Cuts(s, d, at)
  <2>1. \A b \in DOMAIN at : ~ (b < Len(s))
    BY <1>1, <1>2
  <2>2. DOMAIN at \subseteq 0 .. Len(s)
    BY <1>1, <1>2
  <2> QED BY <1>1, <1>2, <2>1, <2>2 DEF Cuts
<1>4. HeldBack(d, s, 0, s)
  <2>1. at[Len(s)] = 0 - Len(s) /\ Len(s) <= 0
    BY <1>1, <1>2
  <2>2. \A j \in 1 .. Len(s) : s[j] = d[0 - Len(s) + j]
    BY <1>1
  <2> QED BY <1>1, <1>3, <2>1, <2>2 DEF HeldBack
<1> QED BY <1>4 DEF s

\* What is handed over in a call is held with what has been before.
LEMMA HoldsMore ==
    ASSUME NEW d \in Seq(U8), NEW s, NEW held, NEW top \in 0 .. Len(d),
           HeldBack(d, s, top, held), NEW n \in 0 .. Len(d) - top
    PROVE  HeldBack(d, s, top + n, held \o SubSeq(d, top + 1, top + n))
<1> DEFINE p == SubSeq(d, top + 1, top + n)
           h == held \o p
<1>1. /\ held \in Seq(U8) /\ s \in Seq(U8) /\ Len(held) <= top
      /\ \A j \in 1 .. Len(held) : held[j] = d[top - Len(held) + j]
      /\ \E at : Cuts(s, d, at) /\ at[Len(s)] = top - Len(held)
  BY DEF HeldBack
<1>2. top \in Nat /\ n \in Nat /\ Len(d) \in Nat /\ Len(held) \in Nat
  BY <1>1
<1>3. p \in Seq(U8) /\ Len(p) = n /\ \A j \in 1 .. n : p[j] = d[top + j]
  <2> DEFINE e == top + n
  <2>1. e \in top .. Len(d) /\ e - top = n
    BY <1>2
  <2> HIDE DEF e
  <2>2. /\ SubSeq(d, top + 1, e) \in Seq(U8) /\ Len(SubSeq(d, top + 1, e)) = e - top
        /\ \A j \in 1 .. e - top : SubSeq(d, top + 1, e)[j] = d[top + j]
    BY <2>1, Part
  <2> QED BY <2>1, <2>2 DEF e
<1> HIDE DEF p
<1>4. /\ h \in Seq(U8) /\ Len(h) = Len(held) + n
      /\ \A j \in 1 .. Len(held) : h[j] = held[j]
      /\ \A j \in 1 .. n : h[Len(held) + j] = p[j]
  <2>1. held \in Seq(U8) /\ p \in Seq(U8)
    BY <1>1, <1>3
  <2>2. /\ h \in Seq(U8) /\ Len(h) = Len(held) + Len(p)
        /\ \A j \in 1 .. Len(held) : h[j] = held[j]
        /\ \A j \in 1 .. Len(p) : h[Len(held) + j] = p[j]
    BY <2>1, TwoParts
  <2>3. Len(p) = n
    BY <1>3
  <2> HIDE DEF h
  <2> QED BY <2>2, <2>3, Zenon
<1> HIDE DEF h
<1>5. ASSUME NEW j \in 1 .. Len(h) PROVE h[j] = d[top + n - Len(h) + j]
  <2>1. CASE j <= Len(held)
    <3>1. j \in 1 .. Len(held) /\ top + n - Len(h) + j = top - Len(held) + j
      BY <1>2, <1>4, <2>1
    <3> QED BY <1>1, <1>4, <3>1
  <2>2. CASE j > Len(held)
    <3> DEFINE i == j - Len(held)
    <3>1. i \in 1 .. n /\ Len(held) + i = j /\ top + n - Len(h) + j = top + i
      BY <1>2, <1>4, <2>2
    <3>2. h[Len(held) + i] = p[i] /\ p[i] = d[top + i]
      BY <1>3, <1>4, <3>1
    <3> QED BY <3>1, <3>2
  <2> QED BY <1>2, <1>4, <2>1, <2>2
<1>6. Len(h) <= top + n /\ top + n - Len(h) = top - Len(held)
  BY <1>1, <1>2, <1>4
<1>7. \E at : Cuts(s, d, at) /\ at[Len(s)] = top + n - Len(h)
  BY <1>1, <1>6
<1>8. HeldBack(d, s, top + n, h)
  BY <1>1, <1>4, <1>5, <1>6, <1>7 DEF HeldBack
<1> QED BY <1>8 DEF h, p

\* A stream of segments, seen from the beginning of one of them.
Segments(s, d, at) == s \in Seq(U8) /\ d \in Seq(U8) /\ Cuts(s, d, at)

\* There is one more after b: what the format says of it.
LEMMA SegmentAfter ==
    ASSUME NEW s, NEW d, NEW at, Segments(s, d, at),
           NEW b \in DOMAIN at, b < Len(s)
    PROVE  \E e \in DOMAIN at :
              /\ b \in Nat /\ e \in Nat /\ b + 2 <= e /\ e <= Len(s) /\ Len(s) \in Nat
              /\ at[b] \in Nat /\ at[e] \in Nat /\ at[b] <= at[e] /\ at[e] <= Len(d)
              /\ SegmentAt(s, d, b, e, at[b], at[e])
<1>1. /\ s \in Seq(U8) /\ d \in Seq(U8)
      /\ DOMAIN at \subseteq 0 .. Len(s) /\ at \in [DOMAIN at -> 0 .. Len(d)]
  BY DEF Cuts, Segments
<1>2. PICK e \in DOMAIN at : b < e /\ at[b] <= at[e] /\ SegmentAt(s, d, b, e, at[b], at[e])
  BY DEF Cuts, Segments
<1>3. b \in 0 .. Len(s) /\ e \in 0 .. Len(s) /\ at[b] \in 0 .. Len(d) /\ at[e] \in 0 .. Len(d)
  BY <1>1
<1>4. Len(s) \in Nat /\ Len(d) \in Nat /\ at[e] - at[b] \in Nat
  BY <1>1, <1>2, <1>3
<1> DEFINE v == at[e] - at[b]
           Ln == Len(Cf!PackUsize[v])
<1>5. Ln \in Nat /\ Ln >= 1
  BY <1>4, SizeLength
<1>6. e = b + 1 + Ln + v \/ e = b + 1 + Ln + 1
  BY <1>2, Zenon DEF SegmentAt
<1> HIDE DEF Ln
<1>7. b + 2 <= e
  BY <1>3, <1>4, <1>5, <1>6, SMTT(30)
<1> QED BY <1>2, <1>3, <1>4, <1>7

\* The size and the body of a segment, as the format has them.
IsSegment(s, d, b, e, m, n) ==
    /\ s \in Seq(U8) /\ b \in Nat /\ m \in Nat /\ n \in Nat /\ m <= n
    /\ SegmentAt(s, d, b, e, m, n)

SegmentIn(s, d, b, e, m, n, body) ==
    /\ body = b + 1 + Len(Cf!PackUsize[n - m]) /\ body \in Nat /\ body >= b + 2
    /\ Cf!UsizeAt(s, b + 2) = n - m
    /\ e <= Len(s) /\ Len(s) \in Nat
    /\ s[b + 1] \in {0, 1}
    /\ s[b + 1] = 0 => e = body + (n - m) /\ \A j \in 1 .. n - m : s[body + j] = d[m + j]
    /\ s[b + 1] = 1 => e = body + 1 /\ n > m /\ \A j \in 1 .. n - m : s[body + 1] = d[m + j]

LEMMA SegmentParts ==
    ASSUME NEW s, NEW d, NEW b, NEW e, NEW m, NEW n, IsSegment(s, d, b, e, m, n)
    PROVE  SegmentIn(s, d, b, e, m, n, Cf!SizeEnd(s, b + 2))
<1>0. /\ s \in Seq(U8) /\ b \in Nat /\ m \in Nat /\ n \in Nat /\ m <= n
      /\ SegmentAt(s, d, b, e, m, n)
  BY DEF IsSegment
<1> DEFINE Ln == Len(Cf!PackUsize[n - m])
           body == b + 1 + Ln
           v == n - m
<1>1. v \in Nat /\ b + 1 \in Nat /\ (b + 1) + 1 = b + 2 /\ Len(s) \in Nat
  BY <1>0
<1>2. Ln \in Nat /\ Ln >= 1
  BY <1>1, SizeLength
<1>3. /\ e <= Len(s) /\ UsizeFollows(s, b + 1, v)
      /\ \/ /\ s[b + 1] = 0 /\ e = body + v
            /\ \A j \in 1 .. v : s[body + j] = d[m + j]
         \/ /\ s[b + 1] = 1 /\ e = body + 1 /\ n > m
            /\ \A j \in 1 .. v : s[body + 1] = d[m + j]
  BY <1>0 DEF SegmentAt
<1>4. Cf!SizeEnd(s, (b + 1) + 1) = b + 1 + Ln /\ Cf!UsizeAt(s, (b + 1) + 1) = v
  <2> DEFINE k == b + 1
  <2>1. k \in Nat /\ UsizeFollows(s, k, v)
    BY <1>1, <1>3
  <2> HIDE DEF k, v
  <2>2. Cf!SizeEnd(s, k + 1) = k + Len(Cf!PackUsize[v]) /\ Cf!UsizeAt(s, k + 1) = v
    BY <1>0, <1>1, <2>1, SizeIsRead
  <2> QED BY <2>2 DEF k, v
<1>5. Cf!SizeEnd(s, b + 2) = body /\ Cf!UsizeAt(s, b + 2) = v
  <2> HIDE DEF body, v, Ln
  <2> QED BY <1>1, <1>4, Zenon DEF body
<1> HIDE DEF Ln
<1>6. body \in Nat /\ body >= b + 2
  BY <1>0, <1>2
<1> HIDE DEF body, v
<1>7. s[b + 1] \in {0, 1}
  BY <1>3
<1>8. s[b + 1] = 0 => e = body + v /\ \A j \in 1 .. v : s[body + j] = d[m + j]
  <2>1. 0 # 1
    OBVIOUS
  <2> QED BY <1>3, <2>1, Zenon
<1>9. s[b + 1] = 1 => e = body + 1 /\ n > m /\ \A j \in 1 .. v : s[body + 1] = d[m + j]
  <2>1. 0 # 1
    OBVIOUS
  <2> QED BY <1>3, <2>1, Zenon
<1>10. body = b + 1 + Len(Cf!PackUsize[v])
  BY DEF body, Ln, v
<1>11. e <= Len(s)
  BY <1>3
<1>12. SegmentIn(s, d, b, e, m, n, body)
  BY <1>1, <1>5, <1>6, <1>7, <1>8, <1>9, <1>10, <1>11, Zenon DEF SegmentIn, v
<1> QED BY <1>5, <1>12, Zenon

InScattered(s, b, e, m, n, c, tk, ln) ==
    /\ c.state = "scattered_data" /\ s[b + 1] = 0
    /\ tk \in Cf!SizeEnd(s, b + 2) .. e /\ ln = m + (tk - Cf!SizeEnd(s, b + 2))
    /\ c.left = n - ln /\ (n = m \/ tk < e)

InRun(s, b, e, m, n, c, tk, ln) ==
    /\ s[b + 1] = 1
    /\ \/ c.state = "repeated_data" /\ tk = Cf!SizeEnd(s, b + 2) /\ ln = m /\ c.left = n - m
       \/ /\ c.state = "repeated_data_read" /\ tk = e /\ c.value = s[e]
          /\ ln \in m .. n - 1 /\ c.left = n - ln

\* A whole stream.
Whole(s, d, at) == Segments(s, d, at) /\ at[Len(s)] = Len(d)

\* The segment that the reader is in.
SegmentOf(s, d, at, b, e) ==
    /\ b \in DOMAIN at /\ e \in DOMAIN at /\ b < Len(s) /\ e \in Nat /\ at[e] <= Len(d)
    /\ IsSegment(s, d, b, e, at[b], at[e])

LEMMA SegmentOfCut ==
    ASSUME NEW s, NEW d, NEW at, Segments(s, d, at), NEW b \in DOMAIN at, b < Len(s)
    PROVE  \E e : SegmentOf(s, d, at, b, e)
<1>1. PICK e \in DOMAIN at :
              /\ b \in Nat /\ e \in Nat /\ b + 2 <= e /\ e <= Len(s) /\ Len(s) \in Nat
              /\ at[b] \in Nat /\ at[e] \in Nat /\ at[b] <= at[e] /\ at[e] <= Len(d)
              /\ SegmentAt(s, d, b, e, at[b], at[e])
  BY SegmentAfter
<1>2. s \in Seq(U8)
  BY DEF Segments
<1> QED BY <1>1, <1>2 DEF SegmentOf, IsSegment

LEMMA SegmentFacts ==
    ASSUME NEW s, NEW d, NEW at, NEW b, NEW e, SegmentOf(s, d, at, b, e)
    PROVE  /\ SegmentIn(s, d, b, e, at[b], at[e], Cf!SizeEnd(s, b + 2))
           /\ b \in DOMAIN at /\ e \in DOMAIN at /\ b \in Nat /\ e \in Nat
           /\ b < Len(s) /\ e <= Len(s) /\ Len(s) \in Nat
           /\ at[b] \in Nat /\ at[e] \in Nat /\ at[b] <= at[e] /\ at[e] <= Len(d)
<1>1. b \in DOMAIN at /\ e \in DOMAIN at /\ b < Len(s) /\ e \in Nat /\ at[e] <= Len(d)
      /\ IsSegment(s, d, b, e, at[b], at[e])
  BY DEF SegmentOf
<1> DEFINE m == at[b]
           n == at[e]
<1>2. s \in Seq(U8) /\ b \in Nat /\ m \in Nat /\ n \in Nat /\ m <= n
  BY <1>1 DEF IsSegment
<1>3. IsSegment(s, d, b, e, m, n)
  BY <1>1
<1> HIDE DEF m, n
<1>4. SegmentIn(s, d, b, e, m, n, Cf!SizeEnd(s, b + 2))
  BY <1>3, SegmentParts
<1>5. e <= Len(s) /\ Len(s) \in Nat
  BY <1>4 DEF SegmentIn
<1> QED BY <1>1, <1>2, <1>4, <1>5 DEF m, n

-----------------------------------------------------------------------------
(***************************************************************************)
(* A window on the end of a sequence.                                      *)
(***************************************************************************)
HsByte(d, k) == IF k < 1 THEN 0 ELSE d[k]

\* It holds the last W bytes that were delivered, each at its place, and zeros before
\* the first.
HsWindow(b, W, d) ==
    \A i \in Int : Len(d) - W < i /\ i <= Len(d) => b[(i - 1) % W] = HsByte(d, i)

HsWritten(b, W, m, q) ==
    [a \in 0 .. W - 1 |-> IF (a - m) % W < Len(q) THEN q[((a - m) % W) + 1] ELSE b[a]]

LEMMA HsPushed ==
    ASSUME NEW W \in Nat \ {0}, NEW b \in [0 .. W - 1 -> U8], NEW d \in Seq(U8),
           NEW q \in Seq(U8), Len(q) <= W, HsWindow(b, W, d), NEW c, c = HsWritten(b, W, Len(d), q)
    PROVE  c \in [0 .. W - 1 -> U8] /\ HsWindow(c, W, d \o q)
<1> DEFINE m == Len(d)
           n == Len(q)
           e == d \o q
           off(a) == (a - m) % W
<1>1. /\ e \in Seq(U8) /\ m \in Nat /\ n \in Nat /\ Len(e) = m + n
      /\ (\A j \in 1 .. m : e[j] = d[j]) /\ \A j \in 1 .. n : e[m + j] = q[j]
  BY TwoParts
<1>2. \A j \in 1 .. n : q[j] \in U8
  BY ElementsIn
<1>3. W \in Nat /\ W > 0 /\ n <= W
  OBVIOUS
<1>4. \A a \in Int : off(a) \in 0 .. W - 1 /\ off(a) \in Int
  <2>1. ASSUME NEW a \in Int PROVE (a - m) % W \in 0 .. W - 1 /\ (a - m) % W \in Int
    <3>1. a - m \in Int
      BY <1>1
    <3> DEFINE x == a - m
    <3> HIDE DEF x
    <3>2. x % W \in 0 .. W - 1 /\ x % W \in Int
      BY <1>3, <3>1, Remainder DEF x
    <3> QED BY <3>2 DEF x
  <2> QED BY <2>1
<1>5. \A a \in 0 .. W - 1 : c[a] = IF off(a) < n THEN q[off(a) + 1] ELSE b[a]
  BY Zenon DEF HsWritten
<1>6. c = [a \in 0 .. W - 1 |-> c[a]]
  BY DEF HsWritten
<1> HIDE DEF off, e, m, n
<1>7. ASSUME NEW a \in 0 .. W - 1 PROVE c[a] \in U8
  <2>1. CASE off(a) < n
    <3>1. off(a) + 1 \in 1 .. n
      <4> DEFINE f == off(a)
      <4>1. f \in 0 .. W - 1 /\ f < n
        BY <1>4, <2>1
      <4> HIDE DEF f
      <4>2. f + 1 \in 1 .. n
        BY <1>1, <1>3, <4>1
      <4> QED BY <4>2 DEF f
    <3> QED BY <1>2, <1>5, <2>1, <3>1, Zenon
  <2>2. CASE ~ (off(a) < n)
    <3>1. b[a] \in U8
      OBVIOUS
    <3> QED BY <1>5, <2>2, <3>1, Zenon
  <2> QED BY <2>1, <2>2
<1>8. c \in [0 .. W - 1 -> U8]
  BY <1>6, <1>7
<1>9. ASSUME NEW i \in Int, Len(e) - W < i, i <= Len(e)
      PROVE  c[(i - 1) % W] = HsByte(e, i)
  <2> DEFINE a == (i - 1) % W
             z == (i - 1) \div W
             y == i - 1 - m
  <2>1. a \in 0 .. W - 1 /\ a \in Int /\ z \in Int /\ i - 1 = W * z + a
    <3> DEFINE x == i - 1
    <3>1. x \in Int
      OBVIOUS
    <3> HIDE DEF x
    <3>2. x % W \in 0 .. W - 1 /\ x % W \in Int /\ x \div W \in Int /\ x = W * (x \div W) + (x % W)
      BY <1>3, <3>1, Remainder
    <3> QED BY <3>2 DEF x
  <2> HIDE DEF a, z
  <2>2. off(a) = y % W
    <3> DEFINE x == a - m
               u == -z
    <3>1. x \in Int /\ y \in Int /\ u \in Int
      BY <1>1, <2>1
    <3>2. W * u = -(W * z)
      BY <1>3, <2>1
    <3>3. x = y + W * u
      BY <1>1, <1>3, <2>1, <3>2
    <3> HIDE DEF x, y, u
    <3>4. x % W = y % W
      BY ONLY <1>3, <3>1, <3>3, SameRemainder
    <3> QED BY <3>4 DEF off, x
  <2>3. CASE i > m
    <3>1. y \in 0 .. W - 1 /\ y < n /\ y + 1 = i - m /\ i - m \in 1 .. n /\ m + (i - m) = i /\ ~ (i < 1)
      BY <1>1, <1>3, <1>9, <2>3
    <3> HIDE DEF y
    <3>2. off(a) = y
      BY <1>3, <2>2, <3>1, SmallRemainder
    <3>3. c[a] = q[y + 1]
      BY <1>5, <2>1, <3>1, <3>2, Zenon
    <3>4. e[m + (i - m)] = q[i - m]
      BY <1>1, <3>1
    <3>5. HsByte(e, i) = e[i]
      BY <3>1, Zenon DEF HsByte
    <3> QED BY <3>1, <3>3, <3>4, <3>5, Zenon DEF a
  <2>4. CASE ~ (i > m)
    <3> DEFINE x == y + W
               one == 1
    <3>1. x \in 0 .. W - 1 /\ x >= n /\ x \in Int /\ y \in Int /\ x = y + W * one /\ one \in Int
          /\ m - W < i /\ i <= m
      BY <1>1, <1>3, <1>9, <2>4
    <3> HIDE DEF x, y, one
    <3>2. x % W = y % W
      BY ONLY <1>3, <3>1, SameRemainder
    <3>3. x % W = x
      BY <1>3, <3>1, SmallRemainder
    <3>4. ~ (off(a) < n)
      <4>1. off(a) = x
        BY <2>2, <3>2, <3>3, Zenon
      <4>2. ~ (x < n)
        BY <1>1, <3>1
      <4> QED BY <4>1, <4>2
    <3>5. c[a] = b[a]
      BY <1>5, <2>1, <3>4, Zenon
    <3>6. b[a] = HsByte(d, i)
      BY <3>1 DEF HsWindow, a, m
    <3>7. HsByte(e, i) = HsByte(d, i)
      <4>1. CASE i < 1
        BY <4>1, Zenon DEF HsByte
      <4>2. CASE ~ (i < 1)
        <5>1. i \in 1 .. m
          BY <1>1, <3>1, <4>2
        <5> QED BY <1>1, <4>2, <5>1, Zenon DEF HsByte
      <4> QED BY <4>1, <4>2
    <3> QED BY <3>5, <3>6, <3>7, Zenon DEF a
  <2> QED BY <2>3, <2>4
<1>10. HsWindow(c, W, e)
  BY <1>9 DEF HsWindow
<1> QED BY <1>8, <1>10 DEF e

\* d and a copy of count bytes begin e.
HsCopyOf(d, e, back, count) ==
    \A j \in 1 .. count : e[Len(d) + j] = HsByte(d, Len(d) - back + 1 + ((j - 1) % back))

\* The j-th byte from o on is in the window.
HsFound(b, W, o, e, back, j) == b[(Len(o) - back + ((j - 1) % back)) % W] = e[Len(o) + j]

\* A copy that has come to o is found in the window, whatever it reaches into.
LEMMA HsCopied ==
    ASSUME NEW W \in Nat \ {0}, NEW b, NEW d \in Seq(U8), NEW e \in Seq(U8),
           NEW o \in Seq(U8), HsWindow(b, W, o), NEW back \in 1 .. W, NEW count \in Nat,
           Begins(d, e), Begins(o, e), Len(d) <= Len(o), HsCopyOf(d, e, back, count),
           NEW j \in Nat \ {0}, Len(o) + j <= Len(d) + count
    PROVE  HsFound(b, W, o, e, back, j)
<1> DEFINE m == Len(d)
           k == Len(o)
           g == k - m
           r == (j - 1) % back
           z == (j - 1) \div back
           i == k - back + 1 + r
           x == g + j - 1
           r2 == x % back
<1>1. /\ m \in Nat /\ k \in Nat /\ m <= k /\ k + j <= m + count
      /\ (\A p \in 1 .. m : d[p] = e[p]) /\ \A p \in 1 .. k : o[p] = e[p]
  <2>1. m \in Nat /\ k \in Nat
    BY LengthIsNat, Zenon
  <2>2. \A p \in 1 .. m : d[p] = e[p]
    BY BeginsPointwise
  <2>3. \A p \in 1 .. k : o[p] = e[p]
    BY BeginsPointwise
  <2> QED BY <2>1, <2>2, <2>3
<1>2. back \in Nat /\ back > 0 /\ back <= W /\ j \in Nat /\ j >= 1 /\ count \in Nat /\ back \in Int
  OBVIOUS
<1>3. \A p \in 1 .. count : e[m + p] = HsByte(d, m - back + 1 + ((p - 1) % back))
  BY Zenon DEF HsCopyOf
<1>4. \A p \in Int : k - W < p /\ p <= k => b[(p - 1) % W] = HsByte(o, p)
  BY DEF HsWindow
<1> HIDE DEF m, k
<1>5. r \in 0 .. back - 1 /\ r \in Int /\ z \in Int /\ j - 1 = back * z + r
  <2> DEFINE y == j - 1
  <2>1. y \in Int
    OBVIOUS
  <2> HIDE DEF y
  <2>2. y % back \in 0 .. back - 1 /\ y % back \in Int /\ y \div back \in Int
        /\ y = back * (y \div back) + (y % back)
    BY ONLY <1>2, <2>1, Remainder
  <2> QED BY <2>2 DEF y
<1> HIDE DEF r, z
<1>6. g \in Nat /\ x \in Int /\ i \in Int /\ k - W < i /\ i <= k /\ i - 1 = k - back + r /\ g + j \in 1 .. count
      /\ m + (g + j) = k + j /\ (g + j) - 1 = x
  BY <1>1, <1>2, <1>5
<1>7. b[(k - back + r) % W] = HsByte(o, i)
  <2> HIDE DEF i
  <2>1. b[(i - 1) % W] = HsByte(o, i)
    BY <1>4, <1>6
  <2> QED BY <1>6, <2>1
<1>8. e[k + j] = HsByte(d, m - back + 1 + r2)
  <2>1. e[m + (g + j)] = HsByte(d, m - back + 1 + (((g + j) - 1) % back))
    BY <1>3, <1>6
  <2> QED BY <1>6, <2>1, Zenon
<1>9. HsByte(o, i) = HsByte(d, m - back + 1 + r2)
  <2>1. CASE i <= m
    <3> DEFINE y == g + r
    <3>1. y \in 0 .. back - 1 /\ y \in Int /\ x = y + back * z
      BY <1>1, <1>2, <1>5, <1>6, <2>1
    <3>2. i = m - back + 1 + y
      BY <1>1, <1>2, <1>5
    <3> HIDE DEF x, y
    <3>3. x % back = y % back
      <4>1. back \in Nat /\ back > 0 /\ x \in Int /\ y \in Int /\ z \in Int /\ x = y + back * z
        BY <1>2, <1>5, <1>6, <3>1
      <4> QED BY ONLY <4>1, SameRemainder
    <3>4. y % back = y
      BY ONLY <1>2, <3>1, SmallRemainder
    <3>5. i = m - back + 1 + r2
      BY <3>2, <3>3, <3>4, Zenon DEF r2
    <3> HIDE DEF i, r2
    <3>6. HsByte(o, i) = HsByte(d, i)
      <4>1. CASE i < 1
        BY <4>1, Zenon DEF HsByte
      <4>2. CASE ~ (i < 1)
        <5>1. i \in 1 .. m /\ i \in 1 .. k
          BY <1>1, <1>6, <2>1, <4>2
        <5> QED BY <1>1, <4>2, <5>1, Zenon DEF HsByte
      <4> QED BY <4>1, <4>2
    <3> QED BY <3>5, <3>6, Zenon
  <2>2. CASE ~ (i <= m)
    <3> DEFINE p == i - m
               y == p - 1
               u == z + 1
    <3>1. p \in 1 .. count /\ y \in Int /\ u \in Int /\ m + p = i /\ ~ (i < 1) /\ i \in 1 .. k
      BY <1>1, <1>2, <1>5, <1>6, <2>2
    <3>2. back * u = back * z + back
      BY <1>2, <1>5
    <3>3. x = y + back * u
      <4>1. back * z \in Int
        BY <1>2, <1>5
      <4> DEFINE v == back * z
                 w == back * u
      <4>2. v \in Int /\ w = v + back /\ j - 1 = v + r
        BY <1>5, <3>2, <4>1
      <4>3. x = (k - m) + j - 1 /\ y = ((k - back + 1 + r) - m) - 1
        OBVIOUS
      <4> HIDE DEF v, w, u, x, y
      <4>4. k \in Int /\ m \in Int /\ back \in Int /\ r \in Int /\ j \in Int
        BY <1>1, <1>2, <1>5
      <4>5. x = y + w
        BY ONLY <4>2, <4>3, <4>4
      <4> QED BY <4>5 DEF w
    <3>4. HsByte(o, i) = e[m + p]
      BY <1>1, <3>1, Zenon DEF HsByte
    <3>5. e[m + p] = HsByte(d, m - back + 1 + (y % back))
      BY <1>3, <3>1, Zenon
    <3> HIDE DEF x, y, u
    <3>6. x % back = y % back
      <4>1. back \in Nat /\ back > 0 /\ x \in Int /\ y \in Int /\ u \in Int /\ x = y + back * u
        BY <1>2, <1>6, <3>1, <3>3
      <4> QED BY ONLY <4>1, SameRemainder
    <3> QED BY <3>4, <3>5, <3>6, Zenon DEF r2
  <2> QED BY <2>1, <2>2
<1> QED BY <1>7, <1>8, <1>9, Zenon DEF k, r, HsFound

-----------------------------------------------------------------------------
(***************************************************************************)
(* The decoder of heatshrink as a record.                                  *)
(***************************************************************************)
HsStates ==
    {"tag_bit", "yield_literal", "backref_index_msb", "backref_index_lsb", "backref_count_msb",
     "backref_count_lsb", "yield_backref"}

HsDecoders(W) ==
    [state : HsStates, bits : Nat, output_index : Nat, output_count : Nat, head_index : Nat,
     buffer : [0 .. W - 1 -> U8]]

\* A decoder as another one, but for where it is in a token.
HsLike(W, u, g, st) ==
    /\ g \in HsDecoders(W) /\ g.head_index = u.head_index /\ g.buffer = u.buffer /\ g.bits = u.bits
    /\ g.state = st

HsWithState(u, st) == [u EXCEPT !.state = st]

LEMMA HsSetState ==
    ASSUME NEW W, NEW u \in HsDecoders(W), NEW st \in HsStates
    PROVE  LET g == HsWithState(u, st) IN HsLike(W, u, g, st) /\ g.output_index = u.output_index /\ g.output_count = u.output_count
<1> DEFINE V == [0 .. W - 1 -> U8]
<1>1. u \in [state : HsStates, bits : Nat, output_index : Nat, output_count : Nat, head_index : Nat,
              buffer : V]
  BY DEF HsDecoders
<1> HIDE DEF V
<1> QED BY <1>1 DEF HsLike, HsDecoders, V, HsWithState

HsWithIndex(u, st, x) == [u EXCEPT !.state = st, !.output_index = x]

LEMMA HsSetIndex ==
    ASSUME NEW W, NEW u \in HsDecoders(W), NEW st \in HsStates, NEW x \in Nat
    PROVE  LET g == HsWithIndex(u, st, x) IN HsLike(W, u, g, st) /\ g.output_index = x /\ g.output_count = u.output_count
<1> DEFINE V == [0 .. W - 1 -> U8]
<1>1. u \in [state : HsStates, bits : Nat, output_index : Nat, output_count : Nat, head_index : Nat,
              buffer : V]
  BY DEF HsDecoders
<1> HIDE DEF V
<1> QED BY <1>1 DEF HsLike, HsDecoders, V, HsWithIndex

HsWithCount(u, st, y) == [u EXCEPT !.state = st, !.output_count = y]

LEMMA HsSetCount ==
    ASSUME NEW W, NEW u \in HsDecoders(W), NEW st \in HsStates, NEW y \in Nat
    PROVE  LET g == HsWithCount(u, st, y) IN HsLike(W, u, g, st) /\ g.output_index = u.output_index /\ g.output_count = y
<1> DEFINE V == [0 .. W - 1 -> U8]
<1>1. u \in [state : HsStates, bits : Nat, output_index : Nat, output_count : Nat, head_index : Nat,
              buffer : V]
  BY DEF HsDecoders
<1> HIDE DEF V
<1> QED BY <1>1 DEF HsLike, HsDecoders, V, HsWithCount

HsWithIndexMore(u, st, x, y) == [u EXCEPT !.state = st, !.output_index = @ + x + 1, !.output_count = y]

LEMMA HsSetIndexMore ==
    ASSUME NEW W, NEW u \in HsDecoders(W), NEW st \in HsStates, NEW x \in Nat, NEW y \in Nat
    PROVE  LET g == HsWithIndexMore(u, st, x, y) IN HsLike(W, u, g, st) /\ g.output_index = u.output_index + x + 1 /\ g.output_count = y
<1> DEFINE V == [0 .. W - 1 -> U8]
           g == HsWithIndexMore(u, st, x, y)
           z == u.output_index + x + 1
<1>1. u \in [state : HsStates, bits : Nat, output_index : Nat, output_count : Nat, head_index : Nat,
              buffer : V]
  BY DEF HsDecoders
<1>2. z \in Nat
  BY <1>1
<1>3. g = [[[u EXCEPT !.state = st] EXCEPT !.output_index = z] EXCEPT !.output_count = y]
  BY Zenon DEF HsWithIndexMore
<1> HIDE DEF V, g, z
<1>4. /\ g \in [state : HsStates, bits : Nat, output_index : Nat, output_count : Nat, head_index : Nat,
                 buffer : V]
      /\ g.head_index = u.head_index /\ g.buffer = u.buffer /\ g.bits = u.bits /\ g.state = st
      /\ g.output_index = z /\ g.output_count = y
  BY <1>1, <1>2, <1>3
<1> QED BY <1>4, Zenon DEF HsLike, HsDecoders, V, g, z

HsWithCountMore(u, st, y) == [u EXCEPT !.state = st, !.output_count = @ + y + 1]

LEMMA HsSetCountMore ==
    ASSUME NEW W, NEW u \in HsDecoders(W), NEW st \in HsStates, NEW y \in Nat
    PROVE  LET g == HsWithCountMore(u, st, y) IN HsLike(W, u, g, st) /\ g.output_index = u.output_index /\ g.output_count = u.output_count + y + 1
<1> DEFINE V == [0 .. W - 1 -> U8]
           g == HsWithCountMore(u, st, y)
           z == u.output_count + y + 1
<1>1. u \in [state : HsStates, bits : Nat, output_index : Nat, output_count : Nat, head_index : Nat,
              buffer : V]
  BY DEF HsDecoders
<1>2. z \in Nat
  BY <1>1
<1>3. g = [[u EXCEPT !.state = st] EXCEPT !.output_count = z]
  BY Zenon DEF HsWithCountMore
<1> HIDE DEF V, g, z
<1>4. /\ g \in [state : HsStates, bits : Nat, output_index : Nat, output_count : Nat, head_index : Nat,
                 buffer : V]
      /\ g.head_index = u.head_index /\ g.buffer = u.buffer /\ g.bits = u.bits /\ g.state = st
      /\ g.output_count = z /\ g.output_index = u.output_index
  BY <1>1, <1>2, <1>3
<1> QED BY <1>4, Zenon DEF HsLike, HsDecoders, V, g, z

\* A decoder with another head and another buffer.
HsWithWindow(h, i, b) == [h EXCEPT !.head_index = i, !.buffer = b]

HsLooksLike(W, h, i, b, g) ==
    /\ g \in HsDecoders(W) /\ g.head_index = i /\ g.buffer = b
    /\ g.bits = h.bits /\ g.state = h.state
    /\ g.output_index = h.output_index /\ g.output_count = h.output_count

LEMMA HsSetWindow ==
    ASSUME NEW W, NEW h \in HsDecoders(W), NEW i \in Nat, NEW b \in [0 .. W - 1 -> U8]
    PROVE  HsLooksLike(W, h, i, b, HsWithWindow(h, i, b))
<1> DEFINE V == [0 .. W - 1 -> U8]
           g == HsWithWindow(h, i, b)
<1>1. h \in [state : HsStates, bits : Nat, output_index : Nat, output_count : Nat, head_index : Nat,
              buffer : V]
  BY DEF HsDecoders
<1>2. b \in V
  OBVIOUS
<1>3. g = [[h EXCEPT !.head_index = i] EXCEPT !.buffer = b]
  BY Zenon DEF HsWithWindow
<1> HIDE DEF V, g
<1>4. /\ g \in [state : HsStates, bits : Nat, output_index : Nat, output_count : Nat, head_index : Nat,
                 buffer : V]
      /\ g.head_index = i /\ g.buffer = b /\ g.bits = h.bits /\ g.state = h.state
      /\ g.output_count = h.output_count /\ g.output_index = h.output_index
  BY <1>1, <1>2, <1>3
<1> QED BY <1>4, Zenon DEF HsDecoders, HsLooksLike, V, g

HsWithLess(u, st, m) == [u EXCEPT !.output_count = @ - m, !.state = st]

LEMMA HsSetLess ==
    ASSUME NEW W, NEW u \in HsDecoders(W), NEW st \in HsStates, NEW m \in Nat, m <= u.output_count
    PROVE  LET g == HsWithLess(u, st, m)
           IN  HsLike(W, u, g, st) /\ g.output_index = u.output_index /\ g.output_count = u.output_count - m
<1> DEFINE V == [0 .. W - 1 -> U8]
           g == HsWithLess(u, st, m)
           z == u.output_count - m
<1>1. u \in [state : HsStates, bits : Nat, output_index : Nat, output_count : Nat, head_index : Nat,
              buffer : V]
  BY DEF HsDecoders
<1>2. z \in Nat
  <2> DEFINE y == u.output_count
  <2>1. y \in Nat /\ m <= y
    BY <1>1
  <2> HIDE DEF y
  <2>2. y - m \in Nat
    BY <2>1
  <2> QED BY <2>2 DEF y
<1>3. g = [[u EXCEPT !.output_count = z] EXCEPT !.state = st]
  BY Zenon DEF HsWithLess
<1> HIDE DEF V, g, z
<1>4. /\ g \in [state : HsStates, bits : Nat, output_index : Nat, output_count : Nat, head_index : Nat,
                 buffer : V]
      /\ g.head_index = u.head_index /\ g.buffer = u.buffer /\ g.bits = u.bits /\ g.state = st
      /\ g.output_count = z /\ g.output_index = u.output_index
  BY <1>1, <1>2, <1>3
<1> QED BY <1>4, Zenon DEF HsLike, HsDecoders, V, g, z

-----------------------------------------------------------------------------
(***************************************************************************)
(* The tokens of LZMA, and a decoder that is between them.                 *)
(***************************************************************************)
\* Where n tokens end in the stream, and in the data.
LzTape(n, I, O) ==
    /\ n \in Nat \ {0} /\ I \in [0 .. n -> Nat] /\ O \in [0 .. n -> Nat]
    /\ I[0] = 0 /\ O[0] = 0 /\ O[n - 1] = O[n]
    /\ \A j \in 0 .. n, k \in 0 .. n : j < k => I[j] < I[k]
    /\ \A j \in 0 .. n, k \in 0 .. n : j <= k => O[j] <= O[k]

\* A decoder that has read r bytes and written w: it has read what stands for them, and
\* has had the space to begin all that it has read of.
LzPos(n, I, O, r, w) ==
    /\ \E j \in 0 .. n : r <= I[j] /\ (j = 0 \/ (I[j - 1] <= r /\ O[j - 1] <= w))
    /\ \E k \in 0 .. n : I[k] <= r /\ w <= O[k] /\ (k = 0 \/ O[k - 1] <= w)

\* The tokens that are begun, and those that are ended.
LzBegun(n, I, O, total, limit) ==
    {k \in 1 .. n : I[k - 1] <= total /\ O[k - 1] <= limit}

LzEnded(n, I, O, total, limit) ==
    {0} \cup {k \in LzBegun(n, I, O, total, limit) : I[k] <= total}

\* From r bytes read and w written the decoder goes on to r2 and w2.
LzReads(n, I, O, r, w, total, limit, r2, w2) ==
    /\ r2 \in Nat /\ w2 \in Nat /\ LzPos(n, I, O, r2, w2)
    /\ r <= r2 /\ r2 <= total /\ r2 <= I[n] /\ w <= w2 /\ w2 <= limit /\ w2 <= O[n]
    /\ \A k \in 1 .. n : I[k] <= r2 => k \in LzEnded(n, I, O, total, limit) \ {0}
    /\ total >= I[n] /\ w2 < limit => w2 = O[n]
    /\ total >= I[n] /\ w2 = O[n] => r2 = I[n]

\* A decoder that has read all the tokens has written what they stand for.
LEMMA LzReadAll ==
    ASSUME NEW n, NEW I, NEW O, LzTape(n, I, O), NEW w \in Nat, LzPos(n, I, O, I[n], w)
    PROVE  w = O[n]
<1>1. /\ n \in Nat /\ n \in 0 .. n /\ O[n - 1] = O[n]
      /\ \A k \in 0 .. n : I[k] \in Nat /\ O[k] \in Nat
  BY DEF LzTape
<1>2. /\ \A j \in 0 .. n, k \in 0 .. n : j < k => I[j] < I[k]
      /\ \A j \in 0 .. n, k \in 0 .. n : j <= k => O[j] <= O[k]
  BY DEF LzTape
<1>3. O[n] <= w
  <2>1. PICK j \in 0 .. n : I[n] <= I[j] /\ (j = 0 \/ (I[j - 1] <= I[n] /\ O[j - 1] <= w))
    BY DEF LzPos
  <2>2. j = n
    <3>1. SUFFICES ASSUME j < n PROVE FALSE
      BY <1>1
    <3>2. I[j] < I[n] /\ I[j] \in Nat /\ I[n] \in Nat
      BY <1>1, <1>2, <3>1
    <3> QED BY <2>1, <3>2
  <2>3. n # 0
    BY DEF LzTape
  <2> QED BY <1>1, <2>1, <2>2, <2>3
<1>4. w <= O[n]
  <2>1. PICK k \in 0 .. n : w <= O[k]
    BY DEF LzPos
  <2>2. O[k] <= O[n] /\ O[k] \in Nat /\ O[n] \in Nat
    BY <1>1, <1>2
  <2> QED BY <2>1, <2>2
<1> QED BY <1>1, <1>3, <1>4
=============================================================================
