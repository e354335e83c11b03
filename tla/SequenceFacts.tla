---------------------------- MODULE SequenceFacts ----------------------------
(***************************************************************************)
(* What the proofs need to know of the sequences that the models build: a  *)
(* set put in some order, an increasing list of positions, and sequences   *)
(* joined together.  The induction they rest on is over sets of numbers.   *)
(***************************************************************************)
EXTENDS Integers, SequencesExt, SequenceTheorems, FiniteSetTheorems,
        WellFoundedInduction, TLAPS

-----------------------------------------------------------------------------
(* Induction without a parameter that is an operator.                       *)

(* A set of natural numbers has a least element.                            *)
LEMMA LeastNumber ==
    ASSUME NEW T, T \subseteq Nat, T # {}
    PROVE  \E m \in T : \A n \in T : m <= n
  <1> DEFINE R == OpToRel(<, Nat)
  <1>1. IsWellFoundedOn(R, Nat)
    BY NatLessThanWellFounded
  <1>2. \A x, y \in Nat : <<y, x>> \in R <=> y < x
    BY DEF OpToRel
  <1> HIDE DEF R
  <1>3. PICK x \in T : \A y \in T : ~(<<y, x>> \in R)
    BY <1>1, WFMin
  <1>4. ASSUME NEW y \in T PROVE x <= y
    <2>1. x \in Nat /\ y \in Nat
      OBVIOUS
    <2>2. ~(y < x)
      BY <1>2, <1>3, <2>1, Zenon
    <2> QED
      BY <2>1, <2>2
  <1> QED
    BY <1>4

(* A set that has 0 and, with each number, the next one has them all.       *)
LEMMA NumberInduction ==
    ASSUME NEW S, 0 \in S, \A n \in Nat : n \in S => n + 1 \in S
    PROVE  Nat \subseteq S
  <1> DEFINE T == Nat \ S
  <1> SUFFICES ASSUME T # {} PROVE FALSE
    OBVIOUS
  <1>1. PICK m \in T : \A n \in T : m <= n
    BY LeastNumber
  <1>2. m # 0 /\ m - 1 \in Nat
    OBVIOUS
  <1>3. m - 1 \in S
    BY <1>1, <1>2
  <1> QED
    BY <1>2, <1>3

(* The same up to a bound.                                                  *)
LEMMA BoundedInduction ==
    ASSUME NEW S, NEW N \in Nat, 1 \in S,
           \A n \in 1..N : n \in S /\ n < N => n + 1 \in S
    PROVE  1..N \subseteq S
  <1> DEFINE T == {k \in Nat : k + 1 <= N => k + 1 \in S}
  <1>1. 0 \in T
    OBVIOUS
  <1>2. \A n \in Nat : n \in T => n + 1 \in T
    OBVIOUS
  <1>3. Nat \subseteq T
    <2> HIDE DEF T
    <2> QED
      BY <1>1, <1>2, NumberInduction
  <1>4. ASSUME NEW k \in 1..N PROVE k \in S
    <2>1. k - 1 \in Nat
      OBVIOUS
    <2> QED
      BY <1>3, <2>1
  <1> QED
    BY <1>4

(* A function can be defined by recursion.                                  *)
StaysIn(S, step)   == \A n \in Nat, x \in S : step[<<n, x>>] \in S
Iterates(f, b, step) == f[0] = b /\ \A n \in Nat : f[n + 1] = step[<<n, f[n]>>]

LEMMA Recursion ==
    ASSUME NEW S, NEW b, b \in S, NEW step, StaysIn(S, step)
    PROVE  \E f \in [Nat -> S] : Iterates(f, b, step)
  <1> USE DEF StaysIn, Iterates
  <1> DEFINE Upto(n, f) == f[0] = b /\ \A k \in 0..(n-1) : f[k + 1] = step[<<k, f[k]>>]
             Good == {n \in Nat : \E f \in [0..n -> S] : Upto(n, f)}
  <1>1. 0 \in Good
    <2>1. [k \in 0..0 |-> b] \in [0..0 -> S] /\ Upto(0, [k \in 0..0 |-> b])
      OBVIOUS
    <2> QED
      BY <2>1
  <1>2. ASSUME NEW n \in Nat, n \in Good PROVE n + 1 \in Good
    <2>1. PICK f \in [0..n -> S] : Upto(n, f)
      BY <1>2
    <2> DEFINE g == [k \in 0..(n+1) |-> IF k = n + 1 THEN step[<<n, f[n]>>] ELSE f[k]]
    <2>2. step[<<n, f[n]>>] \in S
      OBVIOUS
    <2>3. g \in [0..(n+1) -> S]
      BY <2>2
    <2>4. ASSUME NEW k \in 0..n PROVE g[k + 1] = step[<<k, g[k]>>]
      <3>1. g[k] = f[k]
        OBVIOUS
      <3>2. CASE k = n
        <4>1. g[n + 1] = step[<<n, f[n]>>]
          OBVIOUS
        <4> QED
          BY <3>1, <3>2, <4>1
      <3>3. CASE k < n
        <4>1. k \in 0..(n-1) /\ k + 1 \in 0..n /\ k + 1 # n + 1
          BY <3>3
        <4>2. g[k + 1] = f[k + 1]
          BY <4>1
        <4>3. f[k + 1] = step[<<k, f[k]>>]
          BY <2>1, <4>1
        <4> QED
          BY <3>1, <4>2, <4>3
      <3> QED
        BY <3>2, <3>3
    <2>5. g[0] = b
      BY <2>1
    <2>6. 0..((n + 1) - 1) = 0..n
      OBVIOUS
    <2> HIDE DEF g
    <2> QED
      BY <2>3, <2>4, <2>5, <2>6
  <1>3. Nat \subseteq Good
    <2> HIDE DEF Good
    <2> QED
      BY <1>1, <1>2, NumberInduction
  <1>4. \A n \in Nat : \E f \in [0..n -> S] : Upto(n, f)
    BY <1>3
  <1> DEFINE F(n) == CHOOSE f \in [0..n -> S] : Upto(n, f)
  <1>5. \A n \in Nat : F(n) \in [0..n -> S] /\ Upto(n, F(n))
    BY <1>4
  <1> HIDE DEF F
  <1>6. ASSUME NEW n \in Nat PROVE \A k \in 0..n : F(n)[k] = F(k)[k]
    <2> DEFINE E == {k \in Nat : \A m \in Nat : m >= k /\ m <= n => F(m)[k] = F(k)[k]}
    <2>1. 0 \in E
      BY <1>5
    <2>2. ASSUME NEW k \in Nat, k \in E PROVE k + 1 \in E
      <3>1. ASSUME NEW m \in Nat, m >= k + 1, m <= n
            PROVE  F(m)[k+1] = F(k+1)[k+1]
        <4>1. F(m)[k] = F(k)[k] /\ F(k+1)[k] = F(k)[k]
          BY <2>2, <3>1
        <4>2. F(m)[k+1] = step[<<k, F(m)[k]>>]
          <5>1. k \in 0..(m-1)
            BY <3>1
          <5> QED
            BY <1>5, <5>1
        <4>3. F(k+1)[k+1] = step[<<k, F(k+1)[k]>>]
          <5>1. k \in 0..((k+1)-1) /\ k + 1 \in Nat
            OBVIOUS
          <5> QED
            BY <1>5, <5>1
        <4> QED
          BY <4>1, <4>2, <4>3
      <3> QED
        BY <3>1
    <2>3. Nat \subseteq E
      <3> HIDE DEF E
      <3> QED
        BY <2>1, <2>2, NumberInduction
    <2> QED
      BY <2>3
  <1> DEFINE f == [n \in Nat |-> F(n)[n]]
  <1>7. f \in [Nat -> S]
    BY <1>5
  <1>8. f[0] = b
    BY <1>5
  <1>9. ASSUME NEW n \in Nat PROVE f[n + 1] = step[<<n, f[n]>>]
    <2>1. F(n + 1)[n + 1] = step[<<n, F(n + 1)[n]>>]
      <3>1. n \in 0..((n + 1) - 1) /\ n + 1 \in Nat
        OBVIOUS
      <3> QED
        BY <1>5, <3>1
    <2>2. F(n + 1)[n] = F(n)[n]
      <3>1. n + 1 \in Nat /\ n \in 0..(n + 1)
        OBVIOUS
      <3> QED
        BY <3>1, <1>6
    <2> QED
      BY <2>1, <2>2
  <1> HIDE DEF f
  <1> QED
    BY <1>7, <1>8, <1>9

-----------------------------------------------------------------------------
(* A set in some order: each element once, and no others.                   *)
LEMMA SetInOrder ==
    ASSUME NEW S, IsFiniteSet(S)
    PROVE  /\ SetToSeq(S) \in [1..Cardinality(S) -> S]
           /\ SetToSeq(S) \in Seq(S)
           /\ \A j, k \in 1..Cardinality(S) :
                 SetToSeq(S)[j] = SetToSeq(S)[k] => j = k
  <1>1. Cardinality(S) \in Nat /\ ExistsBijection(1..Cardinality(S), S)
    BY FS_CardinalityType
  <1>2. PICK f \in [1..Cardinality(S) -> S] : IsInjective(f)
    BY <1>1 DEF ExistsBijection, Bijection, Injection, IsInjective
  <1>3. /\ SetToSeq(S) \in [1..Cardinality(S) -> S]
        /\ IsInjective(SetToSeq(S))
    BY <1>2 DEF SetToSeq
  <1> HIDE DEF SetToSeq
  <1>4. SetToSeq(S) \in Seq(S)
    BY <1>1, <1>3, IsASeq
  <1> QED
    BY <1>3, <1>4 DEF IsInjective

(* The positions in a finite set of numbers can be listed in their order.   *)
LEMMA Ascending ==
    ASSUME NEW I, I \subseteq Nat, IsFiniteSet(I)
    PROVE  \E f \in [1..Cardinality(I) -> I] :
              \A j, k \in 1..Cardinality(I) : j < k => f[j] < f[k]
  <1> DEFINE Listed(J) == \E f \in [1..Cardinality(J) -> J] :
                             \A j, k \in 1..Cardinality(J) : j < k => f[j] < f[k]
             T == {n \in Nat : \A J \in SUBSET Nat :
                      IsFiniteSet(J) /\ Cardinality(J) = n => Listed(J)}
  <1>1. 0 \in T
    <2> SUFFICES ASSUME NEW J \in SUBSET Nat, IsFiniteSet(J), Cardinality(J) = 0
                 PROVE  Listed(J)
      OBVIOUS
    <2>1. J = {}
      BY FS_EmptySet
    <2>2. [k \in 1..0 |-> 0] \in [1..0 -> J]
      BY <2>1
    <2>3. \A j, k \in 1..0 : j < k => [i \in 1..0 |-> 0][j] < [i \in 1..0 |-> 0][k]
      OBVIOUS
    <2> QED
      BY <2>2, <2>3
  <1>2. ASSUME NEW n \in Nat, n \in T PROVE n + 1 \in T
    <2> SUFFICES ASSUME NEW J \in SUBSET Nat, IsFiniteSet(J), Cardinality(J) = n + 1
                 PROVE  Listed(J)
      OBVIOUS
    <2>1. J # {}
      BY FS_EmptySet
    <2>2. PICK m \in J : \A i \in J : m <= i
      BY <2>1, LeastNumber
    <2> DEFINE K == J \ {m}
    <2>3. IsFiniteSet(K) /\ Cardinality(K) = n /\ K \in SUBSET Nat
      BY FS_RemoveElement
    <2>4. PICK f \in [1..n -> K] : \A j, k \in 1..n : j < k => f[j] < f[k]
      BY <1>2, <2>3
    <2> DEFINE g == [k \in 1..(n + 1) |-> IF k = 1 THEN m ELSE f[k - 1]]
    <2>5. g \in [1..(n + 1) -> J]
      OBVIOUS
    <2>6. ASSUME NEW j \in 1..(n + 1), NEW k \in 1..(n + 1), j < k PROVE g[j] < g[k]
      <3>1. k - 1 \in 1..n /\ g[k] = f[k - 1] /\ f[k - 1] \in K
        BY <2>6
      <3>2. CASE j = 1
        <4>1. m <= f[k - 1] /\ m # f[k - 1] /\ f[k - 1] \in Nat /\ m \in Nat
          BY <2>2, <2>3, <3>1
        <4> QED
          BY <3>1, <3>2, <4>1
      <3>3. CASE j # 1
        <4>1. j - 1 \in 1..n /\ g[j] = f[j - 1] /\ j - 1 < k - 1
          BY <2>6, <3>3
        <4> QED
          BY <2>4, <3>1, <4>1
      <3> QED
        BY <3>2, <3>3
    <2> HIDE DEF g
    <2> QED
      BY <2>5, <2>6
  <1>3. Nat \subseteq T
    <2> HIDE DEF T
    <2> QED
      BY <1>1, <1>2, NumberInduction
  <1>4. Cardinality(I) \in Nat
    BY FS_CardinalityType
  <1>5. Cardinality(I) \in T
    BY <1>3, <1>4
  <1> QED
    BY <1>5

-----------------------------------------------------------------------------
(* Sequences joined together, one step at a time.                           *)
LEMMA Joining ==
    ASSUME NEW T, NEW seqs \in Seq(Seq(T)), seqs # <<>>
    PROVE  \E f \in [1..Len(seqs) -> Seq(T)] :
              /\ f[1] = seqs[1]
              /\ \A i \in 2..Len(seqs) : f[i] = f[i - 1] \o seqs[i]
              /\ FlattenSeq(seqs) = f[Len(seqs)]
  <1> DEFINE n == Len(seqs)
             def(f) == [i \in 1..n |-> IF i = 1 THEN seqs[i] ELSE f[i - 1] \o seqs[i]]
             flat == CHOOSE f : f = def(f)
             step == [p \in Nat \X Seq(T) |->
                        IF p[1] + 2 \in 1..n THEN p[2] \o seqs[p[1] + 2] ELSE p[2]]
  <1>1. n \in Nat /\ n >= 1
    OBVIOUS
  <1>2. seqs[1] \in Seq(T)
    BY <1>1
  <1>3. PICK g \in [Nat -> Seq(T)] :
           g[0] = seqs[1] /\ \A k \in Nat : g[k + 1] = step[<<k, g[k]>>]
    <2>1. StaysIn(Seq(T), step)
      BY DEF StaysIn
    <2> HIDE DEF step
    <2>2. \E g \in [Nat -> Seq(T)] : Iterates(g, seqs[1], step)
      BY <1>2, <2>1, Recursion
    <2> QED
      BY <2>2, Zenon DEF Iterates
  <1> DEFINE h == [i \in 1..n |-> g[i - 1]]
  <1>4. h = def(h)
    <2>1. ASSUME NEW i \in 1..n PROVE h[i] = IF i = 1 THEN seqs[i] ELSE h[i - 1] \o seqs[i]
      <3>1. CASE i = 1
        BY <1>1, <1>3, <3>1
      <3>2. CASE i # 1
        <4>1. i - 2 \in Nat /\ (i - 2) + 1 = i - 1 /\ (i - 2) + 2 = i /\ i - 1 \in 1..n
          BY <1>1, <3>2
        <4>2. g[i - 1] = step[<<i - 2, g[i - 2]>>]
          BY <4>1, <1>3
        <4>3. step[<<i - 2, g[i - 2]>>] = g[i - 2] \o seqs[i]
          BY <4>1
        <4>4. h[i] = g[i - 1] /\ h[i - 1] = g[i - 2]
          BY <4>1
        <4> QED
          BY <3>2, <4>2, <4>3, <4>4
      <3> QED
        BY <3>1, <3>2
    <2>2. h = [i \in 1..n |-> h[i]]
      OBVIOUS
    <2> HIDE DEF h
    <2> QED
      BY <2>1, <2>2
  <1>5. flat = def(flat)
    <2> HIDE DEF def, h
    <2> QED
      BY <1>4
  <1>6. FlattenSeq(seqs) = flat[n]
    <2>1. n # 0
      BY <1>1
    <2> QED
      BY <2>1 DEF FlattenSeq
  <1> HIDE DEF flat
  <1>7. /\ flat[1] = seqs[1]
        /\ \A i \in 2..n : flat[i] = flat[i - 1] \o seqs[i]
        /\ flat = [i \in 1..n |-> flat[i]]
    <2>1. flat = [i \in 1..n |-> IF i = 1 THEN seqs[i] ELSE flat[i - 1] \o seqs[i]]
      BY <1>5
    <2>2. \A i \in 1..n : flat[i] = IF i = 1 THEN seqs[i] ELSE flat[i - 1] \o seqs[i]
      BY <2>1, Zenon
    <2>3. flat = [i \in 1..n |-> flat[i]]
      BY <2>1, Zenon
    <2>4. 1 \in 1..n /\ \A i \in 2..n : i \in 1..n /\ i # 1
      BY <1>1
    <2> QED
      BY <2>2, <2>3, <2>4, Zenon
  <1>8. 1..n \subseteq {i \in 1..n : flat[i] \in Seq(T)}
    <2> DEFINE S == {i \in 1..n : flat[i] \in Seq(T)}
    <2>0. 1 \in 1..n /\ seqs[1] \in Seq(T)
      BY <1>1, <1>2
    <2>1. 1 \in S
      BY <2>0, <1>7, Zenon
    <2>2. ASSUME NEW i \in 1..n, i \in S, i < n PROVE i + 1 \in S
      <3>1. i + 1 \in 2..n /\ (i + 1) - 1 = i /\ i + 1 \in 1..n
        BY <2>2, <1>1
      <3>2. flat[i + 1] = flat[i] \o seqs[i + 1]
        BY <1>7, <3>1
      <3>3. flat[i] \in Seq(T) /\ seqs[i + 1] \in Seq(T)
        BY <2>2, <3>1
      <3>4. flat[i] \o seqs[i + 1] \in Seq(T)
        BY <3>3
      <3> QED
        BY <3>1, <3>2, <3>4
    <2> HIDE DEF S
    <2>3. 1..n \subseteq S
      BY <1>1, <2>1, <2>2, BoundedInduction
    <2> QED
      BY <2>3 DEF S
  <1>9. flat \in [1..n -> Seq(T)]
    BY <1>7, <1>8
  <1> QED
    BY <1>6, <1>7, <1>9
=============================================================================
