---------------------------- MODULE PorcupineProofs ----------------------------
(***************************************************************************)
(* Proofs about the linearizability checker: for any set of complete       *)
(* histories, of any length, the list of checkSingle is the history        *)
(* without the operations that are taken out, and the verdict is true.     *)
(***************************************************************************)
EXTENDS Porcupine, FiniteSetTheorems, SequenceTheorems, TLAPS

-----------------------------------------------------------------------------
(* A doubly linked list of a set S of numbers below n, in their order: 0 is *)
(* the head and n stands for the nil at its end.                            *)

IsNext(n, S, e, f) == f \in S \cup {n} /\ e < f /\ \A g \in S : g <= e \/ f <= g
IsPrev(S, e, f)    == f \in S \cup {0} /\ f < e /\ \A g \in S : g <= f \/ e <= g

Linked(n, S, nx, pv) ==
    /\ nx \in [0..n - 1 -> 1..n]
    /\ pv \in [1..n - 1 -> 0..n - 1]
    /\ \A e \in S \cup {0} : IsNext(n, S, e, nx[e])
    /\ \A e \in S : IsPrev(S, e, pv[e])

\* Link of the module, with its nil for a parameter.
Relink(n, links, e, to) == IF e = n THEN links ELSE [links EXCEPT ![e] = to]

\* The first half of lift, and the second.
LEMMA TakeOut ==
    ASSUME NEW n \in Nat \ {0}, NEW S \in SUBSET (1..n - 1), NEW e \in S,
           NEW nx, NEW pv, Linked(n, S, nx, pv)
    PROVE  Linked(n, S \ {e}, [nx EXCEPT ![pv[e]] = nx[e]], Relink(n, pv, nx[e], pv[e]))
  <1> DEFINE T == S \ {e}
             p == pv[e]
             x == nx[e]
             nx1 == [nx EXCEPT ![p] = x]
             pv1 == Relink(n, pv, x, p)
  <1>1. /\ nx \in [0..n - 1 -> 1..n] /\ pv \in [1..n - 1 -> 0..n - 1]
        /\ \A f \in S \cup {0} : IsNext(n, S, f, nx[f])
        /\ \A f \in S : IsPrev(S, f, pv[f])
    BY DEF Linked
  <1>2. e \in 1..n - 1 /\ \A g \in S : g \in 1..n - 1
    OBVIOUS
  <1>3. /\ x \in S \cup {n} /\ e < x /\ (\A g \in S : g <= e \/ x <= g)
        /\ p \in S \cup {0} /\ p < e /\ (\A g \in S : g <= p \/ e <= g)
    BY <1>1, <1>2 DEF IsNext, IsPrev
  <1>4. x \in 1..n /\ p \in 0..n - 1
    <2>1. x \in S \/ x = n
      BY <1>3, Zenon
    <2>2. p \in S \/ p = 0
      BY <1>3, Zenon
    <2> HIDE DEF p, x
    <2>3. n \in Nat /\ n >= 1 /\ n \in 1..n /\ 0 \in 0..n - 1
      OBVIOUS
    <2>4. \A g \in S : g \in 1..n /\ g \in 0..n - 1
      BY <1>2, <2>3
    <2> QED
      BY <2>1, <2>2, <2>3, <2>4, Zenon
  <1> HIDE DEF p, x
  <1>5. nx1 \in [0..n - 1 -> 1..n] /\ pv1 \in [1..n - 1 -> 0..n - 1]
    <2>1. nx1 \in [0..n - 1 -> 1..n]
      BY <1>1, <1>4
    <2>2. p \in 0..n - 1
      BY <1>2, <1>4
    <2>3. [pv EXCEPT ![x] = p] \in [1..n - 1 -> 0..n - 1]
      BY <1>1, <2>2
    <2> QED
      BY <1>1, <2>1, <2>3, Zenon DEF Relink
  <1>6. /\ nx1[p] = x /\ \A f \in 0..n - 1 : f # p => nx1[f] = nx[f]
        /\ \A f \in 1..n - 1 : pv1[f] = IF f = x THEN p ELSE pv[f]
    BY <1>1, <1>4 DEF Relink
  <1> HIDE DEF nx1, pv1
  <1>7. ASSUME NEW f \in T \cup {0} PROVE IsNext(n, T, f, nx1[f])
    <2>1. f \in S \cup {0} /\ f \in 0..n - 1 /\ f # e
      BY <1>2
    <2>2. nx[f] \in S \cup {n} /\ f < nx[f] /\ \A g \in S : g <= f \/ nx[f] <= g
      BY <1>1, <2>1, Zenon DEF IsNext
    <2>3. CASE f = p
      BY <1>2, <1>3, <1>4, <1>6, <2>1, <2>3 DEF IsNext
    <2>4. CASE f # p
      <3>1. nx[f] # e
        <4> SUFFICES ASSUME nx[f] = e PROVE FALSE
          OBVIOUS
        <4>1. f < e /\ f <= p
          BY <1>2, <1>3, <1>4, <2>1, <2>2
        <4>2. p \in S
          BY <1>2, <1>3, <1>4, <2>1, <2>4, <4>1
        <4> QED
          BY <1>2, <1>3, <1>4, <2>1, <2>2, <2>4, <4>1, <4>2
      <3> QED
        BY <1>2, <1>6, <2>1, <2>2, <2>4, <3>1 DEF IsNext
    <2> QED
      BY <2>3, <2>4
  <1>8. ASSUME NEW f \in T PROVE IsPrev(T, f, pv1[f])
    <2>1. f \in S /\ f \in 1..n - 1 /\ f # e
      BY <1>2
    <2>2. pv[f] \in S \cup {0} /\ pv[f] < f /\ \A g \in S : g <= pv[f] \/ f <= g
      BY <1>1, <2>1, Zenon DEF IsPrev
    <2>3. CASE f = x
      BY <1>2, <1>3, <1>4, <1>6, <2>1, <2>3 DEF IsPrev
    <2>4. CASE f # x
      <3>1. pv[f] # e
        <4> SUFFICES ASSUME pv[f] = e PROVE FALSE
          OBVIOUS
        <4>1. e < f /\ x <= f
          BY <1>2, <1>3, <1>4, <2>1, <2>2
        <4>2. x \in S
          BY <1>2, <1>3, <1>4, <2>1, <2>4, <4>1
        <4> QED
          BY <1>2, <1>3, <1>4, <2>1, <2>2, <2>4, <4>1, <4>2
      <3> QED
        BY <1>2, <1>6, <2>1, <2>2, <2>4, <3>1 DEF IsPrev
    <2> QED
      BY <2>3, <2>4
  <1> QED
    BY <1>5, <1>7, <1>8, Zenon DEF Linked, nx1, pv1, x, p

\* A half of unlift: a node that is not in the list but kept the links it must
\* have there.
LEMMA PutBack ==
    ASSUME NEW n \in Nat \ {0}, NEW S \in SUBSET (1..n - 1), NEW e \in 1..n - 1, e \notin S,
           NEW nx, NEW pv, Linked(n, S, nx, pv),
           IsNext(n, S, e, nx[e]), IsPrev(S, e, pv[e])
    PROVE  Linked(n, S \cup {e}, [nx EXCEPT ![pv[e]] = e], Relink(n, pv, nx[e], e))
  <1> DEFINE T == S \cup {e}
             p == pv[e]
             x == nx[e]
             nx1 == [nx EXCEPT ![p] = e]
             pv1 == Relink(n, pv, x, e)
  <1>1. /\ nx \in [0..n - 1 -> 1..n] /\ pv \in [1..n - 1 -> 0..n - 1]
        /\ \A f \in S \cup {0} : IsNext(n, S, f, nx[f])
        /\ \A f \in S : IsPrev(S, f, pv[f])
    BY DEF Linked
  <1>2. \A g \in S : g \in 1..n - 1
    OBVIOUS
  <1>3. /\ x \in S \cup {n} /\ e < x /\ (\A g \in S : g <= e \/ x <= g)
        /\ p \in S \cup {0} /\ p < e /\ (\A g \in S : g <= p \/ e <= g)
    BY DEF IsNext, IsPrev
  <1>4. x \in 1..n /\ p \in 0..n - 1 /\ e # p /\ e # x
    <2>1. x \in S \/ x = n
      BY <1>3, Zenon
    <2>2. p \in S \/ p = 0
      BY <1>3, Zenon
    <2>3. p < e /\ e < x
      BY <1>3, Zenon
    <2> HIDE DEF p, x
    <2>4. n \in Nat /\ n >= 1 /\ n \in 1..n /\ 0 \in 0..n - 1
      OBVIOUS
    <2>5. \A g \in S : g \in 1..n /\ g \in 0..n - 1
      BY <1>2, <2>4
    <2>6. x \in 1..n /\ p \in 0..n - 1
      BY <2>1, <2>2, <2>4, <2>5, Zenon
    <2> QED
      BY <2>3, <2>6
  <1> HIDE DEF p, x
  <1>5. nx1 \in [0..n - 1 -> 1..n] /\ pv1 \in [1..n - 1 -> 0..n - 1]
    <2>1. nx1 \in [0..n - 1 -> 1..n]
      BY <1>1, <1>4
    <2>2. e \in 0..n - 1
      BY <1>2, <1>4
    <2>3. [pv EXCEPT ![x] = e] \in [1..n - 1 -> 0..n - 1]
      BY <1>1, <2>2
    <2> QED
      BY <1>1, <2>1, <2>3, Zenon DEF Relink
  <1>6. /\ nx1[p] = e /\ \A f \in 0..n - 1 : f # p => nx1[f] = nx[f]
        /\ \A f \in 1..n - 1 : pv1[f] = IF f = x THEN e ELSE pv[f]
    BY <1>1, <1>4 DEF Relink
  <1>7. nx[e] = x /\ pv[e] = p
    BY DEF x, p
  <1> HIDE DEF nx1, pv1
  <1>8. ASSUME NEW f \in T \cup {0} PROVE IsNext(n, T, f, nx1[f])
    <2>1. CASE f = e
      BY <1>2, <1>3, <1>4, <1>6, <1>7, <2>1 DEF IsNext
    <2>2. CASE f = p
      BY <1>2, <1>3, <1>4, <1>6, <2>2 DEF IsNext
    <2>3. CASE f # e /\ f # p
      <3>1. f \in S \cup {0} /\ f \in 0..n - 1
        BY <1>2, <2>3
      <3>2. nx[f] \in S \cup {n} /\ f < nx[f] /\ \A g \in S : g <= f \/ nx[f] <= g
        BY <1>1, <3>1, Zenon DEF IsNext
      <3>3. nx1[f] = nx[f] /\ nx[f] \in 1..n
        BY <1>1, <1>6, <2>3, <3>1
      <3>4. e <= f \/ nx[f] <= e
        <4>1. CASE f < e
          <5>1. f < p /\ p \in S
            BY <1>2, <1>3, <1>4, <2>3, <3>1, <4>1
          <5> QED
            BY <1>3, <1>4, <3>1, <3>2, <3>3, <5>1
        <4>2. CASE ~(f < e)
          BY <3>1, <4>2
        <4> QED
          BY <4>1, <4>2
      <3> QED
        BY <3>2, <3>3, <3>4 DEF IsNext
    <2> QED
      BY <2>1, <2>2, <2>3
  <1>9. ASSUME NEW f \in T PROVE IsPrev(T, f, pv1[f])
    <2>1. CASE f = e
      BY <1>2, <1>3, <1>4, <1>6, <1>7, <2>1 DEF IsPrev
    <2>2. CASE f = x
      BY <1>2, <1>3, <1>4, <1>6, <2>2 DEF IsPrev
    <2>3. CASE f # e /\ f # x
      <3>1. f \in S /\ f \in 1..n - 1
        BY <1>2, <2>3
      <3>2. pv[f] \in S \cup {0} /\ pv[f] < f /\ \A g \in S : g <= pv[f] \/ f <= g
        BY <1>1, <3>1, Zenon DEF IsPrev
      <3>3. pv1[f] = pv[f] /\ pv[f] \in 0..n - 1
        BY <1>1, <1>6, <2>3, <3>1
      <3>4. e <= pv[f] \/ f <= e
        <4>1. CASE e < f
          <5>1. x < f /\ x \in S
            BY <1>2, <1>3, <1>4, <2>3, <3>1, <4>1
          <5> QED
            BY <1>3, <1>4, <3>1, <3>2, <3>3, <5>1
        <4>2. CASE ~(e < f)
          BY <3>1, <4>2
        <4> QED
          BY <4>1, <4>2
      <3> QED
        BY <3>2, <3>3, <3>4 DEF IsPrev
    <2> QED
      BY <2>1, <2>2, <2>3
  <1> QED
    BY <1>5, <1>8, <1>9, Zenon DEF Linked, nx1, pv1, x, p

-----------------------------------------------------------------------------
(* Complete histories: every operation has one call and a later return.     *)

\* The events of a history.
LEMMA EventsOf ==
    ASSUME NEW h, Complete(h)
    PROVE  /\ Len(h) \in Nat /\ DOMAIN h = 1..Len(h)
           /\ \A p \in DOMAIN h : /\ h[p].id \in Nat
                                  /\ \/ h[p].kind = "call" /\ h[p].value \in Inputs
                                     \/ h[p].kind = "return" /\ h[p].value \in Outputs
  <1> DEFINE E == [kind : {"call"}, id : Nat, value : Inputs]
                   \cup [kind : {"return"}, id : Nat, value : Outputs]
  <1>1. h \in Seq(E)
    BY DEF Complete
  <1>2. \A e \in E : /\ e.id \in Nat
                     /\ \/ e.kind = "call" /\ e.value \in Inputs
                        \/ e.kind = "return" /\ e.value \in Outputs
    OBVIOUS
  <1> HIDE DEF E
  <1>3. \A p \in DOMAIN h : h[p] \in E
    BY <1>1
  <1> QED
    BY <1>1, <1>2, <1>3

\* The two events of an operation are found by its id.
LEMMA CallAndReturn ==
    ASSUME NEW h, Complete(h), NEW i, i \in Ops(h)
    PROVE  /\ CallAt(h, i) \in DOMAIN h /\ h[CallAt(h, i)].kind = "call"
           /\ h[CallAt(h, i)].id = i
           /\ ReturnAt(h, i) \in DOMAIN h /\ h[ReturnAt(h, i)].kind = "return"
           /\ h[ReturnAt(h, i)].id = i
           /\ CallAt(h, i) < ReturnAt(h, i)
           /\ \A p \in DOMAIN h : h[p].id = i =>
                 IF h[p].kind = "call" THEN p = CallAt(h, i) ELSE p = ReturnAt(h, i)
  <1>0. \A p, q \in DOMAIN h : h[p].kind = h[q].kind /\ h[p].id = h[q].id => p = q
    BY Zenon DEF Complete
  <1>1. PICK p \in DOMAIN h : h[p].id = i
    BY DEF Ops
  <1>2. PICK c \in DOMAIN h : h[c].kind = "call" /\ h[c].id = i
    BY <1>1, EventsOf, Zenon DEF Complete
  <1>3. PICK r \in DOMAIN h : h[r].kind = "return" /\ h[r].id = i /\ c < r
    BY <1>2, Zenon DEF Complete
  <1>4. \A q \in DOMAIN h : h[q].kind = "call" /\ h[q].id = i => q = c
    BY <1>0, <1>2
  <1>5. \A q \in DOMAIN h : h[q].kind = "return" /\ h[q].id = i => q = r
    BY <1>0, <1>3
  <1>6. CallAt(h, i) = c
    BY <1>2, <1>4, Zenon DEF CallAt
  <1>7. ReturnAt(h, i) = r
    BY <1>3, <1>5, Zenon DEF ReturnAt
  <1>8. \A q \in DOMAIN h : h[q].kind = "call" \/ h[q].kind = "return"
    BY EventsOf, Zenon
  <1> QED
    BY <1>2, <1>3, <1>4, <1>5, <1>6, <1>7, <1>8, Zenon

\* There are finitely many operations.
LEMMA OpsAreFinite ==
    ASSUME NEW h, Complete(h)
    PROVE  IsFiniteSet(Ops(h)) /\ Cardinality(Ops(h)) \in Nat
  <1> DEFINE f == [p \in 1..Len(h) |-> h[p].id]
  <1>1. Len(h) \in Nat /\ DOMAIN h = 1..Len(h)
    BY EventsOf, Zenon
  <1>2. f \in Surjection(1..Len(h), Ops(h))
    BY <1>1 DEF Surjection, Ops
  <1>3. IsFiniteSet(1..Len(h))
    BY <1>1, FS_Interval
  <1>4. IsFiniteSet(Ops(h))
    BY <1>2, <1>3, FS_Surjection, Zenon
  <1> QED
    BY <1>4, FS_CardinalityType

\* An operation takes the register to a state.
LEMMA AfterIsState ==
    ASSUME NEW h, Complete(h), NEW st, st \in States, NEW i, i \in Ops(h)
    PROVE  After(h, st, i) \in States
  <1> DEFINE in == h[CallAt(h, i)].value
  <1>1. in \in Inputs
    BY CallAndReturn, EventsOf
  <1>2. After(h, st, i) = StepState(st, in)
    BY DEF After
  <1> HIDE DEF in
  <1> QED
    BY <1>1, <1>2 DEF Inputs, ReadInput, WriteInput, CasInput, Input, StepState, States

\* The events of the operations that are not in L.
Rest(h, L) == {p \in DOMAIN h : h[p].id \notin L}

\* Of a history that can be completed, one of the operations left comes first.
LEMMA SomeOpIsFirst ==
    ASSUME NEW h, Complete(h), NEW L, NEW st, Completable(h, L, st), Rest(h, L) # {}
    PROVE  \E i \in Ops(h) \ L :
              /\ \A j \in Ops(h) \ L : ~Precedes(h, j, i)
              /\ Allowed(h, st, i)
              /\ Completable(h, L \cup {i}, After(h, st, i))
  <1> DEFINE C == Cardinality(Ops(h))
  <1>1. C \in Nat
    BY OpsAreFinite
  <1>2. PICK n \in 0..C : \E order \in [1..n -> Ops(h)] :
            /\ IsOrder(h, L, n, order)
            /\ \E states \in [0..n -> States] : IsRun(h, st, n, order, states)
    BY Zenon DEF Completable
  <1>3. PICK order \in [1..n -> Ops(h)] :
            /\ IsOrder(h, L, n, order)
            /\ \E states \in [0..n -> States] : IsRun(h, st, n, order, states)
    BY <1>2, Zenon
  <1>4. PICK states \in [0..n -> States] : IsRun(h, st, n, order, states)
    BY <1>3, Zenon
  <1> HIDE DEF C
  <1>5. /\ \A i \in Ops(h) \ L : \E k \in 1..n : order[k] = i
        /\ \A k \in 1..n : order[k] \notin L
        /\ \A j, k \in 1..n :
              j < k => order[j] # order[k] /\ ~Precedes(h, order[k], order[j])
    BY <1>3, Zenon DEF IsOrder
  <1>6. /\ states[0] = st
        /\ \A k \in 1..n : /\ Allowed(h, states[k - 1], order[k])
                           /\ states[k] = After(h, states[k - 1], order[k])
    BY <1>4, Zenon DEF IsRun
  <1>7. n \in Nat /\ n >= 1
    <2>1. PICK p \in DOMAIN h : h[p].id \in Ops(h) \ L
      BY DEF Rest, Ops
    <2>2. PICK k \in 1..n : order[k] = h[p].id
      BY <1>5, <2>1
    <2> QED
      BY <1>1, <2>2
  <1> DEFINE i == order[1]
             m == n - 1
             order2 == [k \in 1..m |-> order[k + 1]]
             states2 == [k \in 0..m |-> states[k + 1]]
  <1>8. /\ 1 \in 1..n /\ m \in 0..C /\ m \in Nat
        /\ \A k \in 1..m : k + 1 \in 1..n /\ 1 < k + 1 /\ (k + 1) - 1 = k /\ k - 1 \in 0..m /\ (k - 1) + 1 = k
        /\ \A k \in 0..m : k + 1 \in 1..n /\ k + 1 \in 0..n
        /\ \A k \in 1..n : k = 1 \/ (k - 1 \in 1..m /\ (k - 1) + 1 = k)
        /\ \A k \in 1..n : k = 1 \/ 1 < k
        /\ 0 \in 0..m /\ 0 + 1 = 1 /\ 1 - 1 = 0
        /\ \A j, k \in 1..m : j < k => j + 1 < k + 1
    BY <1>1, <1>7
  <1>9. i \in Ops(h) \ L
    BY <1>5, <1>8
  <1>10. Allowed(h, st, i) /\ states[1] = After(h, st, i)
    BY <1>6, <1>8
  <1>11. ASSUME NEW j, j \in Ops(h) \ L PROVE ~Precedes(h, j, i)
    <2>1. PICK k \in 1..n : order[k] = j
      BY <1>5, <1>11
    <2>2. CASE k = 1
      <3>1. CallAt(h, i) < ReturnAt(h, i) /\ CallAt(h, i) \in Nat /\ ReturnAt(h, i) \in Nat
        BY <1>9, CallAndReturn, EventsOf
      <3> QED
        BY <2>1, <2>2, <3>1 DEF Precedes
    <2>3. CASE 1 < k
      BY <1>5, <1>8, <2>1, <2>3, Zenon
    <2> QED
      BY <1>8, <2>2, <2>3, Zenon
  <1>12. order2 \in [1..m -> Ops(h)] /\ states2 \in [0..m -> States]
    BY <1>8
  <1>13. IsOrder(h, L \cup {i}, m, order2)
    <2>1. ASSUME NEW j, j \in Ops(h) \ (L \cup {i}) PROVE \E k \in 1..m : order2[k] = j
      <3>1. PICK k \in 1..n : order[k] = j
        BY <1>5, <2>1
      <3>2. k - 1 \in 1..m /\ (k - 1) + 1 = k
        BY <1>8, <2>1, <3>1
      <3>3. order2[k - 1] = j
        BY <3>1, <3>2
      <3> QED
        BY <3>2, <3>3, Zenon
    <2>2. ASSUME NEW k \in 1..m PROVE order2[k] \notin L \cup {i}
      BY <1>5, <1>8
    <2>3. ASSUME NEW j \in 1..m, NEW k \in 1..m, j < k
          PROVE  order2[j] # order2[k] /\ ~Precedes(h, order2[k], order2[j])
      <3>1. j + 1 \in 1..n /\ k + 1 \in 1..n /\ j + 1 < k + 1
        BY <1>8, <2>3, Zenon
      <3>2. order2[j] = order[j + 1] /\ order2[k] = order[k + 1]
        OBVIOUS
      <3> QED
        BY <1>5, <3>1, <3>2, Zenon
    <2> HIDE DEF i, m, order2
    <2> QED
      BY <2>1, <2>2, <2>3, Zenon DEF IsOrder
  <1>14. IsRun(h, After(h, st, i), m, order2, states2)
    <2>1. states2[0] = After(h, st, i)
      BY <1>8, <1>10
    <2>2. ASSUME NEW k \in 1..m
          PROVE  /\ Allowed(h, states2[k - 1], order2[k])
                 /\ states2[k] = After(h, states2[k - 1], order2[k])
      <3>1. /\ k + 1 \in 1..n /\ (k + 1) - 1 = k /\ k \in 0..m
            /\ k - 1 \in 0..m /\ (k - 1) + 1 = k
        BY <1>8
      <3>2. states2[k - 1] = states[k] /\ states2[k] = states[k + 1] /\ order2[k] = order[k + 1]
        BY <3>1
      <3>3. /\ Allowed(h, states[k], order[k + 1])
            /\ states[k + 1] = After(h, states[k], order[k + 1])
        BY <1>6, <3>1
      <3> QED
        BY <3>2, <3>3, Zenon
    <2> HIDE DEF i, m, order2, states2
    <2> QED
      BY <2>1, <2>2, Zenon DEF IsRun
  <1>15. Completable(h, L \cup {i}, After(h, st, i))
    <2> HIDE DEF i, m, order2, states2
    <2>1. m \in 0..Cardinality(Ops(h))
      BY <1>8 DEF C
    <2> QED
      BY <1>12, <1>13, <1>14, <2>1, Zenon DEF Completable
  <1> HIDE DEF i
  <1> QED
    BY <1>9, <1>10, <1>11, <1>15, Zenon

\* To take the operation of g next leads nowhere.
MoveFails(h, L, st, g) ==
    Allowed(h, st, h[g].id) => ~Completable(h, L \cup {h[g].id}, After(h, st, h[g].id))

\* Where a return is reached and each call before it leads nowhere, there is no
\* way on: what is called after the return cannot come first.
LEMMA DeadEnd ==
    ASSUME NEW h, Complete(h), NEW L, NEW st, NEW r, r \in Rest(h, L), h[r].kind = "return",
           \A g \in Rest(h, L) : g < r => h[g].kind = "call" /\ MoveFails(h, L, st, g)
    PROVE  ~Completable(h, L, st)
  <1> SUFFICES ASSUME Completable(h, L, st) PROVE FALSE
    OBVIOUS
  <1>1. PICK i \in Ops(h) \ L :
              /\ \A j \in Ops(h) \ L : ~Precedes(h, j, i)
              /\ Allowed(h, st, i)
              /\ Completable(h, L \cup {i}, After(h, st, i))
    BY SomeOpIsFirst
  <1> DEFINE k == h[r].id
             c == CallAt(h, i)
  <1>2. r \in DOMAIN h /\ k \in Ops(h) \ L
    BY DEF Rest, Ops
  <1>3. ReturnAt(h, k) = r
    BY <1>2, CallAndReturn
  <1>4. c \in DOMAIN h /\ h[c].kind = "call" /\ h[c].id = i
    BY <1>1, CallAndReturn
  <1>5. ~(r < c)
    BY <1>1, <1>2, <1>3, Zenon DEF Precedes
  <1>6. r \in Nat /\ c \in Nat /\ c # r
    BY <1>2, <1>4, EventsOf
  <1>7. c < r
    BY <1>5, <1>6
  <1>8. c \in Rest(h, L)
    BY <1>1, <1>4 DEF Rest
  <1> QED
    BY <1>1, <1>4, <1>7, <1>8, Zenon DEF MoveFails

-----------------------------------------------------------------------------
(* The stack of calls: the operations taken out, in their order, and the    *)
(* states between them.                                                     *)

Taken(h, cs, j)      == {h[cs[k].entry].id : k \in 1..j}
StateAt(cs, st, j) == IF j = Len(cs) THEN st ELSE cs[j + 1].state

OnStack(h, cs, st) ==
    /\ cs \in Seq([entry : DOMAIN h, state : States])
    /\ st \in States
    /\ StateAt(cs, st, 0) = NilValue
    /\ \A j \in 1..Len(cs) :
          /\ h[cs[j].entry].kind = "call"
          /\ h[cs[j].entry].id \notin Taken(h, cs, j - 1)
          /\ Allowed(h, StateAt(cs, st, j - 1), h[cs[j].entry].id)
          /\ StateAt(cs, st, j) = After(h, StateAt(cs, st, j - 1), h[cs[j].entry].id)
    /\ \A j \in 1..Len(cs) : \A g \in Rest(h, Taken(h, cs, j - 1)) :
          g < cs[j].entry =>
              /\ h[g].kind = "call"
              /\ MoveFails(h, Taken(h, cs, j - 1), StateAt(cs, st, j - 1), g)

\* The types of what is on the stack.
LEMMA StackTypes ==
    ASSUME NEW h, Complete(h), NEW cs, NEW st, OnStack(h, cs, st)
    PROVE  /\ Len(cs) \in Nat /\ DOMAIN cs = 1..Len(cs)
           /\ \A j \in 1..Len(cs) : cs[j].entry \in DOMAIN h /\ cs[j].state \in States
           /\ \A j \in 0..Len(cs) : StateAt(cs, st, j) \in States
  <1> DEFINE R == [entry : DOMAIN h, state : States]
  <1>1. cs \in Seq(R) /\ st \in States
    BY Zenon DEF OnStack
  <1>2. \A c \in R : c.entry \in DOMAIN h /\ c.state \in States
    OBVIOUS
  <1> HIDE DEF R
  <1>3. Len(cs) \in Nat /\ DOMAIN cs = 1..Len(cs) /\ \A j \in 1..Len(cs) : cs[j] \in R
    BY <1>1
  <1>4. \A j \in 1..Len(cs) : cs[j].entry \in DOMAIN h /\ cs[j].state \in States
    BY <1>2, <1>3, Zenon
  <1>5. ASSUME NEW j \in 0..Len(cs) PROVE StateAt(cs, st, j) \in States
    <2>0. Len(cs) \in Nat
      BY <1>3, Zenon
    <2>1. j = Len(cs) \/ j + 1 \in 1..Len(cs)
      BY <2>0
    <2> QED
      BY <1>1, <1>4, <2>1, Zenon DEF StateAt
  <1> QED
    BY <1>3, <1>4, <1>5, Zenon

\* With nothing left the stack is an order that explains the history.
LEMMA StackExplains ==
    ASSUME NEW h, Complete(h), NEW cs, NEW st, OnStack(h, cs, st),
           Rest(h, Taken(h, cs, Len(cs))) = {}
    PROVE  Linearizable(h)
  <1> DEFINE n == Len(cs)
             order == [j \in 1..n |-> h[cs[j].entry].id]
             states == [j \in 0..n |-> StateAt(cs, st, j)]
  <1>1. /\ n \in Nat /\ DOMAIN cs = 1..n
        /\ \A j \in 1..n : cs[j].entry \in DOMAIN h /\ cs[j].state \in States
        /\ \A j \in 0..n : StateAt(cs, st, j) \in States
    BY StackTypes
  <1>2. /\ StateAt(cs, st, 0) = NilValue
        /\ \A j \in 1..n :
              /\ h[cs[j].entry].kind = "call"
              /\ h[cs[j].entry].id \notin Taken(h, cs, j - 1)
              /\ Allowed(h, StateAt(cs, st, j - 1), h[cs[j].entry].id)
              /\ StateAt(cs, st, j) = After(h, StateAt(cs, st, j - 1), h[cs[j].entry].id)
        /\ \A j \in 1..n : \A g \in Rest(h, Taken(h, cs, j - 1)) :
              g < cs[j].entry => h[g].kind = "call"
    BY Zenon DEF OnStack
  <1>3. order \in [1..n -> Ops(h)] /\ states \in [0..n -> States]
    BY <1>1 DEF Ops
  <1>4. \A j, k \in 1..n : j < k => order[j] \in Taken(h, cs, k - 1)
    BY <1>1 DEF Taken
  <1>5. \A j, k \in 1..n : j < k => order[j] # order[k]
    BY <1>2, <1>4
  <1>6. ASSUME NEW j \in 1..n, NEW k \in 1..n, j < k
        PROVE  ~Precedes(h, order[k], order[j])
    <2> DEFINE r == ReturnAt(h, order[k])
               e == cs[j].entry
    <2>1. order[k] \in Ops(h) /\ order[j] \in Ops(h)
      BY <1>3
    <2>2. r \in DOMAIN h /\ h[r].kind = "return" /\ h[r].id = order[k]
      BY <2>1, CallAndReturn
    <2>3. order[k] \notin Taken(h, cs, j - 1)
      <3>1. Taken(h, cs, j - 1) \subseteq Taken(h, cs, k - 1)
        BY <1>1, <1>6 DEF Taken
      <3>2. order[k] \notin Taken(h, cs, k - 1)
        BY <1>2
      <3> QED
        BY <3>1, <3>2
    <2>4. r \in Rest(h, Taken(h, cs, j - 1))
      BY <2>2, <2>3 DEF Rest
    <2>5. e \in DOMAIN h /\ h[e].kind = "call" /\ h[e].id = order[j]
      BY <1>1, <1>2
    <2>6. CallAt(h, order[j]) = e
      BY <2>1, <2>5, CallAndReturn
    <2>7. ~(r < e)
      <3> HIDE DEF r
      <3> QED
        BY <1>2, <2>2, <2>4
    <2> QED
      BY <2>6, <2>7, Zenon DEF Precedes
  <1>7. ASSUME NEW i, i \in Ops(h) PROVE \E k \in 1..n : order[k] = i
    <2>1. PICK p \in DOMAIN h : h[p].id = i
      BY <1>7 DEF Ops
    <2>2. i \in Taken(h, cs, n)
      BY <2>1 DEF Rest
    <2>3. PICK k \in 1..n : h[cs[k].entry].id = i
      BY <2>2 DEF Taken
    <2> QED
      BY <2>3
  <1>8. IsOrder(h, {}, n, order)
    <2> HIDE DEF n, order
    <2> QED
      BY <1>5, <1>6, <1>7 DEF IsOrder
  <1>9. IsRun(h, NilValue, n, order, states)
    <2>1. states[0] = NilValue
      BY <1>1, <1>2
    <2>2. ASSUME NEW k \in 1..n
          PROVE  Allowed(h, states[k - 1], order[k]) /\ states[k] = After(h, states[k - 1], order[k])
      <3>1. k - 1 \in 0..n /\ k \in 0..n
        BY <1>1
      <3>2. states[k - 1] = StateAt(cs, st, k - 1) /\ states[k] = StateAt(cs, st, k)
        BY <3>1
      <3>3. order[k] = h[cs[k].entry].id
        OBVIOUS
      <3> HIDE DEF states, order
      <3> QED
        BY <1>2, <3>2, <3>3, Zenon
    <2> HIDE DEF n, order, states
    <2> QED
      BY <2>1, <2>2, Zenon DEF IsRun
  <1>10. n \in 0..Cardinality(Ops(h))
    <2>1. order \in Injection(1..n, Ops(h))
      <3>1. \A j, k \in 1..n : order[j] = order[k] => j = k
        BY <1>1, <1>5
      <3> QED
        BY <1>3, <3>1, Zenon DEF Injection, IsInjective
    <2>2. IsFiniteSet(Ops(h)) /\ Cardinality(Ops(h)) \in Nat
      BY OpsAreFinite
    <2>3. Cardinality(1..n) <= Cardinality(Ops(h))
      BY <2>1, <2>2, FS_Injection, Zenon
    <2>4. Cardinality(1..n) = n
      <3>1. n \in Nat /\ n \in Int /\ 1 \in Int
        BY <1>1
      <3> HIDE DEF n
      <3>2. Cardinality(1..n) = IF 1 > n THEN 0 ELSE n - 1 + 1
        BY <3>1, FS_Interval, Zenon
      <3> QED
        BY <3>1, <3>2
    <2> QED
      BY <1>1, <2>2, <2>3, <2>4
  <1> HIDE DEF n, order, states
  <1> QED
    BY <1>3, <1>8, <1>9, <1>10, Zenon DEF Linearizable, Completable

\* cs2 begins like cs, of which it has the first n calls.
LEMMA SameBelow ==
    ASSUME NEW h, NEW cs, NEW cs2, NEW n \in Nat, \A j \in 1..n : cs2[j] = cs[j]
    PROVE  \A j \in 0..n : Taken(h, cs2, j) = Taken(h, cs, j)
  <1> SUFFICES ASSUME NEW j \in 0..n PROVE Taken(h, cs2, j) = Taken(h, cs, j)
    OBVIOUS
  <1>1. \A k \in 1..j : cs2[k] = cs[k]
    OBVIOUS
  <1> QED
    BY <1>1 DEF Taken

\* One more call on the stack takes one more operation.
LEMMA TakenNext ==
    ASSUME NEW h, NEW cs, NEW n \in Nat
    PROVE  Taken(h, cs, n + 1) = Taken(h, cs, n) \cup {h[cs[n + 1].entry].id}
  <1>1. 1..(n + 1) = (1..n) \cup {n + 1}
    OBVIOUS
  <1> QED
    BY <1>1 DEF Taken

\* What comes before a node are calls that lead nowhere.
NoneBefore(h, L, st, e) ==
    \A g \in Rest(h, L) : g < e => h[g].kind = "call" /\ MoveFails(h, L, st, g)

\* The stack with a call on top, and without it.
Grown(cs, e, cs2)  == /\ Len(cs2) = Len(cs) + 1 /\ cs2[Len(cs) + 1].entry = e
                      /\ \A j \in 1..Len(cs) : cs2[j] = cs[j]
Shrunk(cs, e, cs2) == /\ Len(cs2) = Len(cs) - 1 /\ e = cs[Len(cs)].entry
                      /\ \A j \in 1..Len(cs) - 1 : cs2[j] = cs[j]

\* The states below the top are what they were.
SameStates(m, cs, st, cs2, st2) == \A j \in 0..m : StateAt(cs2, st2, j) = StateAt(cs, st, j)

Pushed(h, cs, st, e, cs2, st2) ==
    cs2 = Append(cs, [entry |-> e, state |-> st]) /\ st2 = After(h, st, h[e].id)

\* Linearize pushes the call at the entry.
LEMMA Push ==
    ASSUME NEW h, NEW cs, NEW st, NEW e, NEW cs2, NEW st2,
           Pushed(h, cs, st, e, cs2, st2), Complete(h), OnStack(h, cs, st),
           e \in Rest(h, Taken(h, cs, Len(cs))), h[e].kind = "call",
           Allowed(h, st, h[e].id), NoneBefore(h, Taken(h, cs, Len(cs)), st, e)
    PROVE  OnStack(h, cs2, st2) /\ Grown(cs, e, cs2) /\ SameStates(Len(cs), cs, st, cs2, st2)
  <1> DEFINE R == [entry : DOMAIN h, state : States]
             n == Len(cs)
             c == [entry |-> e, state |-> st]
  <1> USE DEF Pushed, NoneBefore
  <1>1. cs \in Seq(R) /\ st \in States
    BY Zenon DEF OnStack
  <1>2. e \in DOMAIN h /\ h[e].id \in Ops(h) /\ h[e].id \notin Taken(h, cs, n)
    BY DEF Rest, Ops
  <1>3. c \in R
    BY <1>1, <1>2
  <1>4. c.entry = e /\ c.state = st
    OBVIOUS
  <1> HIDE DEF R, c
  <1>5. /\ n \in Nat /\ cs2 \in Seq(R) /\ Len(cs2) = n + 1 /\ cs2[n + 1] = c
        /\ \A j \in 1..n : cs2[j] = cs[j]
    BY <1>1, <1>3 DEF c
  <1> HIDE DEF n
  <1>6. st2 \in States
    BY <1>1, <1>2, AfterIsState
  <1>7. \A j \in 0..n : Taken(h, cs2, j) = Taken(h, cs, j)
    BY <1>5, SameBelow
  <1>8. ASSUME NEW j \in 0..n PROVE StateAt(cs2, st2, j) = StateAt(cs, st, j)
    <2>1. j # n + 1
      BY <1>5
    <2>2. CASE j = n
      BY <1>4, <1>5, <2>1, <2>2, Zenon DEF StateAt, n
    <2>3. CASE j # n
      <3>1. j + 1 \in 1..n
        BY <1>5, <2>3
      <3> QED
        BY <1>5, <2>1, <2>3, <3>1, Zenon DEF StateAt, n
    <2> QED
      BY <2>2, <2>3
  <1>9. StateAt(cs2, st2, n + 1) = st2
    BY <1>5, Zenon DEF StateAt
  <1>10. StateAt(cs, st, n) = st
    BY Zenon DEF StateAt, n
  <1>11. ASSUME NEW j \in 1..n + 1
         PROVE  /\ h[cs2[j].entry].kind = "call"
                /\ h[cs2[j].entry].id \notin Taken(h, cs2, j - 1)
                /\ Allowed(h, StateAt(cs2, st2, j - 1), h[cs2[j].entry].id)
                /\ StateAt(cs2, st2, j) = After(h, StateAt(cs2, st2, j - 1), h[cs2[j].entry].id)
                /\ \A g \in Rest(h, Taken(h, cs2, j - 1)) : g < cs2[j].entry =>
                      /\ h[g].kind = "call"
                      /\ MoveFails(h, Taken(h, cs2, j - 1), StateAt(cs2, st2, j - 1), g)
    <2>1. CASE j = n + 1
      <3>1. j - 1 = n /\ n \in 0..n
        BY <1>5, <2>1
      <3>2. Taken(h, cs2, j - 1) = Taken(h, cs, n) /\ StateAt(cs2, st2, j - 1) = st
        BY <1>7, <1>8, <1>10, <3>1, Zenon
      <3>3. cs2[j].entry = e /\ StateAt(cs2, st2, j) = st2
        BY <1>4, <1>5, <1>9, <2>1, Zenon
      <3> QED
        BY <1>2, <3>2, <3>3, Zenon DEF n
    <2>2. CASE j # n + 1
      <3>1. j \in 1..n /\ j \in 0..n /\ j - 1 \in 0..n
        BY <1>5, <2>2
      <3>2. /\ Taken(h, cs2, j - 1) = Taken(h, cs, j - 1)
            /\ StateAt(cs2, st2, j - 1) = StateAt(cs, st, j - 1)
            /\ StateAt(cs2, st2, j) = StateAt(cs, st, j)
            /\ cs2[j] = cs[j]
        BY <1>5, <1>7, <1>8, <3>1, Zenon
      <3> QED
        BY <3>1, <3>2, Zenon DEF OnStack, n
    <2> QED
      BY <2>1, <2>2
  <1>12. StateAt(cs2, st2, 0) = NilValue
    <2>1. 0 \in 0..n
      BY <1>5
    <2> QED
      BY <1>8, <2>1, Zenon DEF OnStack
  <1>13. OnStack(h, cs2, st2)
    BY <1>5, <1>6, <1>11, <1>12, Zenon DEF OnStack, R
  <1> QED
    BY <1>4, <1>5, <1>8, <1>13, Zenon DEF Grown, SameStates, n

\* The front of a sequence.
LEMMA Prefix ==
    ASSUME NEW R, NEW s, s \in Seq(R), NEW m \in Nat, m <= Len(s)
    PROVE  /\ SubSeq(s, 1, m) \in Seq(R) /\ Len(SubSeq(s, 1, m)) = m
           /\ \A j \in 1..m : SubSeq(s, 1, m)[j] = s[j]
  OBVIOUS

Popped(cs, e, cs2, st2) ==
    /\ cs2 = SubSeq(cs, 1, Len(cs) - 1)
    /\ e = cs[Len(cs)].entry /\ st2 = cs[Len(cs)].state

\* Backtrack pops it.
LEMMA Pop ==
    ASSUME NEW h, NEW cs, NEW st, NEW e, NEW cs2, NEW st2,
           Popped(cs, e, cs2, st2), Complete(h), OnStack(h, cs, st), cs # <<>>
    PROVE  /\ OnStack(h, cs2, st2) /\ Shrunk(cs, e, cs2) /\ Len(cs) \in Nat \ {0}
           /\ SameStates(Len(cs) - 1, cs, st, cs2, st2)
  <1> DEFINE R == [entry : DOMAIN h, state : States]
             n == Len(cs)
             m == n - 1
  <1> USE DEF Popped
  <1>1. cs \in Seq(R) /\ st \in States
    BY Zenon DEF OnStack
  <1>2. n \in Nat /\ n # 0
    BY <1>1
  <1>3. st2 \in States
    BY <1>2, StackTypes
  <1> HIDE DEF R
  <1>4. /\ cs2 \in Seq(R) /\ Len(cs2) = m
        /\ \A j \in 1..m : cs2[j] = cs[j]
    <2>1. m \in Nat /\ m <= Len(cs)
      BY <1>2
    <2> HIDE DEF n, m
    <2> QED
      BY <1>1, <2>1, Prefix DEF n, m
  <1>5. m \in Nat /\ m + 1 = n
    BY <1>2
  <1> HIDE DEF n, m
  <1>6. \A j \in 0..m : Taken(h, cs2, j) = Taken(h, cs, j)
    BY <1>4, <1>5, SameBelow
  <1>7. ASSUME NEW j \in 0..m PROVE StateAt(cs2, st2, j) = StateAt(cs, st, j)
    <2>1. j # n
      BY <1>5
    <2>2. CASE j = m
      BY <1>4, <1>5, <2>1, <2>2, Zenon DEF StateAt, n
    <2>3. CASE j # m
      <3>1. j + 1 \in 1..m
        BY <1>5, <2>3
      <3> QED
        BY <1>4, <2>1, <2>3, <3>1, Zenon DEF StateAt, n
    <2> QED
      BY <2>2, <2>3
  <1>8. ASSUME NEW j \in 1..m
        PROVE  /\ h[cs2[j].entry].kind = "call"
               /\ h[cs2[j].entry].id \notin Taken(h, cs2, j - 1)
               /\ Allowed(h, StateAt(cs2, st2, j - 1), h[cs2[j].entry].id)
               /\ StateAt(cs2, st2, j) = After(h, StateAt(cs2, st2, j - 1), h[cs2[j].entry].id)
               /\ \A g \in Rest(h, Taken(h, cs2, j - 1)) : g < cs2[j].entry =>
                     /\ h[g].kind = "call"
                     /\ MoveFails(h, Taken(h, cs2, j - 1), StateAt(cs2, st2, j - 1), g)
    <2>1. j \in 1..n /\ j \in 0..m /\ j - 1 \in 0..m
      BY <1>5
    <2>2. /\ Taken(h, cs2, j - 1) = Taken(h, cs, j - 1)
          /\ StateAt(cs2, st2, j - 1) = StateAt(cs, st, j - 1)
          /\ StateAt(cs2, st2, j) = StateAt(cs, st, j)
          /\ cs2[j] = cs[j]
      BY <1>4, <1>6, <1>7, <2>1, Zenon
    <2> QED
      BY <2>1, <2>2, Zenon DEF OnStack, n
  <1>9. StateAt(cs2, st2, 0) = NilValue
    <2>1. 0 \in 0..m
      BY <1>5
    <2> QED
      BY <1>7, <2>1, Zenon DEF OnStack
  <1>10. OnStack(h, cs2, st2)
    BY <1>3, <1>4, <1>8, <1>9, Zenon DEF OnStack, R
  <1> QED
    BY <1>2, <1>4, <1>7, <1>10, Zenon DEF Shrunk, SameStates, n, m

-----------------------------------------------------------------------------
(* The list of checkSingle.  The two nodes of an operation that is taken    *)
(* out keep the links they had, the return in the list without the call,    *)
(* and the call in that list with the return.                               *)

\* The links a of the call at e and b of its return at m to what follows, and c
\* and d to what precedes.
KeptLinks(n, S, e, m, a, b, c, d) ==
    /\ IsNext(n, S, m, b) /\ IsPrev(S, m, d)
    /\ IsNext(n, S \cup {m}, e, a) /\ IsPrev(S \cup {m}, e, c)

Kept(n, S, e, m, nx, pv) == KeptLinks(n, S, e, m, nx[e], nx[m], pv[e], pv[m])

\* The set of a list without two nodes, and with them.
Without(S, e, m) == (S \ {e}) \ {m}
With(S, e, m)    == (S \cup {m}) \cup {e}

\* lift and unlift on the links.
Lifted(n, e, m, nx, pv, n2, p2) ==
    \E n1, p1 : /\ n1 = [nx EXCEPT ![pv[e]] = nx[e]]
                /\ p1 = Relink(n, pv, nx[e], pv[e])
                /\ n2 = [n1 EXCEPT ![p1[m]] = n1[m]]
                /\ p2 = Relink(n, p1, n1[m], p1[m])

Unlifted(n, e, m, nx, pv, n2, p2) ==
    \E n1, p1 : /\ n1 = [nx EXCEPT ![pv[m]] = m]
                /\ p1 = Relink(n, pv, nx[m], m)
                /\ n2 = [n1 EXCEPT ![p1[e]] = e]
                /\ p2 = Relink(n, p1, n1[e], e)

\* Only links of the nodes in S have changed.
OnlyIn(n, S, nx, pv, n2, p2) ==
    \A d \in 1..n - 1 : d \notin S => n2[d] = nx[d] /\ p2[d] = pv[d]

\* Two nodes of a list.
InList(n, S, e, m) ==
    n \in Nat \ {0} /\ S \in SUBSET (1..n - 1) /\ e \in S /\ m \in S /\ e < m

\* lift on the links: two nodes are taken out.
LEMMA LiftLinks ==
    ASSUME NEW n, NEW S, NEW e, NEW m, NEW nx, NEW pv, NEW n2, NEW p2,
           Lifted(n, e, m, nx, pv, n2, p2), Linked(n, S, nx, pv),
           InList(n, S, e, m)
    PROVE  /\ Linked(n, Without(S, e, m), n2, p2)
           /\ Kept(n, Without(S, e, m), e, m, n2, p2)
           /\ OnlyIn(n, S, nx, pv, n2, p2)
  <1> DEFINE T == S \ {e}
             U == T \ {m}
  <1>0. PICK n1, p1 : /\ n1 = [nx EXCEPT ![pv[e]] = nx[e]]
                      /\ p1 = Relink(n, pv, nx[e], pv[e])
                      /\ n2 = [n1 EXCEPT ![p1[m]] = n1[m]]
                      /\ p2 = Relink(n, p1, n1[m], p1[m])
    BY Zenon DEF Lifted
  <1> USE DEF InList
  <1>1. e \in 1..n - 1 /\ m \in 1..n - 1 /\ \A g \in S : g \in 1..n - 1
    OBVIOUS
  <1>2. Linked(n, T, n1, p1)
    BY <1>0, TakeOut
  <1>3. T \in SUBSET (1..n - 1) /\ m \in T
    BY <1>1
  <1>4. Linked(n, U, n2, p2)
    <2> HIDE DEF T
    <2> QED
      BY <1>0, <1>2, <1>3, TakeOut
  <1>5. /\ nx \in [0..n - 1 -> 1..n] /\ pv \in [1..n - 1 -> 0..n - 1]
        /\ IsNext(n, S, e, nx[e]) /\ IsPrev(S, e, pv[e])
    BY Zenon DEF Linked
  <1>6. /\ n1 \in [0..n - 1 -> 1..n] /\ p1 \in [1..n - 1 -> 0..n - 1]
        /\ IsNext(n, T, m, n1[m]) /\ IsPrev(T, m, p1[m])
    BY <1>2, <1>3, Zenon DEF Linked
  <1>7. /\ nx[e] \in S \cup {n} /\ e < nx[e] /\ pv[e] \in S \cup {0} /\ pv[e] < e
        /\ n1[m] \in T \cup {n} /\ m < n1[m] /\ p1[m] \in T \cup {0} /\ p1[m] < m
    BY <1>5, <1>6, Zenon DEF IsNext, IsPrev
  <1>8. \A f \in 1..n - 1 : f # pv[e] /\ f # p1[m] => n2[f] = nx[f]
    BY <1>0, <1>5, <1>6
  <1>9. \A f \in 1..n - 1 : f # nx[e] /\ f # n1[m] => p2[f] = pv[f]
    BY <1>0, <1>5, <1>6 DEF Relink
  <1>10. ASSUME NEW d \in 1..n - 1, d \notin S PROVE n2[d] = nx[d] /\ p2[d] = pv[d]
    <2>1. d # pv[e] /\ d # p1[m] /\ d # nx[e] /\ d # n1[m]
      BY <1>7, <1>10
    <2> QED
      BY <1>8, <1>9, <2>1, Zenon
  <1>11. n2[e] = nx[e] /\ p2[e] = pv[e]
    <2>1. e # pv[e] /\ e # p1[m] /\ e # nx[e] /\ e # n1[m]
      BY <1>1, <1>7
    <2> QED
      BY <1>1, <1>8, <1>9, <2>1, Zenon
  <1>12. n2[m] = n1[m] /\ p2[m] = p1[m]
    <2>1. m # p1[m] /\ m # n1[m]
      BY <1>1, <1>7
    <2> QED
      BY <1>0, <1>1, <1>6, <2>1 DEF Relink
  <1>13. Kept(n, U, e, m, n2, p2)
    <2>1. IsNext(n, U, m, n1[m]) /\ IsPrev(U, m, p1[m])
      <3>1. n1[m] \in U \cup {n} /\ p1[m] \in U \cup {0}
        BY <1>1, <1>7
      <3>2. /\ \A g \in U : g <= m \/ n1[m] <= g
            /\ \A g \in U : g <= p1[m] \/ m <= g
        BY <1>6 DEF IsNext, IsPrev
      <3> HIDE DEF U
      <3> QED
        BY <1>7, <3>1, <3>2, Zenon DEF IsNext, IsPrev
    <2>2. U \cup {m} = T
      BY <1>3
    <2>3. IsNext(n, T, e, nx[e]) /\ IsPrev(T, e, pv[e])
      <3>1. nx[e] \in T \cup {n} /\ pv[e] \in T \cup {0}
        BY <1>1, <1>7
      <3>2. /\ \A g \in T : g <= e \/ nx[e] <= g
            /\ \A g \in T : g <= pv[e] \/ e <= g
        BY <1>5 DEF IsNext, IsPrev
      <3> HIDE DEF T
      <3> QED
        BY <1>7, <3>1, <3>2, Zenon DEF IsNext, IsPrev
    <2> HIDE DEF U, T
    <2>4. KeptLinks(n, U, e, m, nx[e], n1[m], pv[e], p1[m])
      BY <2>1, <2>2, <2>3, Zenon DEF KeptLinks
    <2> QED
      BY <1>11, <1>12, <2>4, Zenon DEF Kept
  <1> QED
    BY <1>4, <1>10, <1>13, Zenon DEF Without, OnlyIn

\* unlift on the links: two nodes that kept theirs are put back.
LEMMA UnliftLinks ==
    ASSUME NEW n, NEW S, NEW e, NEW m, NEW nx, NEW pv, NEW n2, NEW p2,
           Unlifted(n, e, m, nx, pv, n2, p2), Linked(n, S, nx, pv), Kept(n, S, e, m, nx, pv),
           n \in Nat \ {0}, S \in SUBSET (1..n - 1), e \in 1..n - 1, m \in 1..n - 1,
           e \notin S, m \notin S, e < m
    PROVE  /\ Linked(n, With(S, e, m), n2, p2)
           /\ OnlyIn(n, With(S, e, m), nx, pv, n2, p2)
           /\ IsNext(n, With(S, e, m), e, n2[e])
  <1> DEFINE T == S \cup {m}
             U == T \cup {e}
  <1>0. PICK n1, p1 : /\ n1 = [nx EXCEPT ![pv[m]] = m]
                      /\ p1 = Relink(n, pv, nx[m], m)
                      /\ n2 = [n1 EXCEPT ![p1[e]] = e]
                      /\ p2 = Relink(n, p1, n1[e], e)
    BY Zenon DEF Unlifted
  <1>1. /\ nx \in [0..n - 1 -> 1..n] /\ pv \in [1..n - 1 -> 0..n - 1]
        /\ IsNext(n, S, m, nx[m]) /\ IsPrev(S, m, pv[m])
        /\ IsNext(n, T, e, nx[e]) /\ IsPrev(T, e, pv[e])
    BY Zenon DEF Linked, Kept, KeptLinks
  <1>2. Linked(n, T, n1, p1)
    BY <1>0, <1>1, PutBack
  <1>3. /\ nx[m] \in S \cup {n} /\ m < nx[m] /\ pv[m] \in S \cup {0} /\ pv[m] < m
        /\ nx[e] \in T \cup {n} /\ e < nx[e] /\ pv[e] \in T \cup {0} /\ pv[e] < e
    BY <1>1, Zenon DEF IsNext, IsPrev
  <1>4. n1[e] = nx[e] /\ p1[e] = pv[e]
    <2>1. e # pv[m] /\ e # nx[m]
      BY <1>3
    <2> QED
      BY <1>0, <1>1, <2>1 DEF Relink
  <1>5. T \in SUBSET (1..n - 1) /\ e \notin T
    OBVIOUS
  <1>6. Linked(n, U, n2, p2)
    <2> HIDE DEF T
    <2> QED
      BY <1>0, <1>1, <1>2, <1>4, <1>5, PutBack
  <1>7. n1 \in [0..n - 1 -> 1..n] /\ p1 \in [1..n - 1 -> 0..n - 1]
    BY <1>2, Zenon DEF Linked
  <1>8. \A f \in 1..n - 1 : f # pv[m] /\ f # pv[e] => n2[f] = nx[f]
    BY <1>0, <1>1, <1>4, <1>7
  <1>9. \A f \in 1..n - 1 : f # nx[m] /\ f # nx[e] => p2[f] = pv[f]
    BY <1>0, <1>1, <1>4, <1>7 DEF Relink
  <1>10. ASSUME NEW d \in 1..n - 1, d \notin U PROVE n2[d] = nx[d] /\ p2[d] = pv[d]
    <2>1. d # pv[m] /\ d # pv[e] /\ d # nx[m] /\ d # nx[e]
      BY <1>3, <1>10
    <2> QED
      BY <1>8, <1>9, <2>1, Zenon
  <1>11. IsNext(n, U, e, n2[e])
    BY <1>6, Zenon DEF Linked
  <1> QED
    BY <1>6, <1>10, <1>11, Zenon DEF With, OnlyIn

\* The return of the call at e: match.
MatchIn(h, e) == ReturnAt(h, h[e].id)
IsMatch(h, e, m) == m = MatchIn(h, e)

\* The node that stands for nil.
IsNil(h, n) == n = Len(h) + 1

Lists(h, cs, nx, pv) ==
    /\ Linked(Len(h) + 1, Rest(h, Taken(h, cs, Len(cs))), nx, pv)
    /\ \A j \in 1..Len(cs) :
          Kept(Len(h) + 1, Rest(h, Taken(h, cs, j)), cs[j].entry, MatchIn(h, cs[j].entry), nx, pv)

\* Two nodes leave the list with an operation.
LEMMA RestWithout ==
    ASSUME NEW h, NEW L, NEW e, NEW m, Complete(h), e \in Rest(h, L),
           h[e].kind = "call", IsMatch(h, e, m)
    PROVE  /\ m \in Rest(h, L) /\ e < m /\ e \in Nat /\ m \in Nat
           /\ Rest(h, L \cup {h[e].id}) = Without(Rest(h, L), e, m)
  <1> DEFINE i == h[e].id
  <1>1. e \in DOMAIN h /\ i \in Ops(h) /\ i \notin L
    BY DEF Rest, Ops
  <1>2. /\ m \in DOMAIN h /\ h[m].id = i /\ CallAt(h, i) < m
        /\ \A p \in DOMAIN h : h[p].id = i => p = CallAt(h, i) \/ p = m
        /\ h[e].id = i /\ h[e].kind = "call" => e = CallAt(h, i)
    <2>1. /\ ReturnAt(h, i) \in DOMAIN h /\ h[ReturnAt(h, i)].id = i
          /\ CallAt(h, i) < ReturnAt(h, i)
          /\ \A p \in DOMAIN h : h[p].id = i =>
                IF h[p].kind = "call" THEN p = CallAt(h, i) ELSE p = ReturnAt(h, i)
      BY <1>1, CallAndReturn
    <2> QED
      BY <1>1, <2>1, Zenon DEF IsMatch, MatchIn
  <1>3. e = CallAt(h, i)
    BY <1>2
  <1>4. \A p \in DOMAIN h : h[p].id = i <=> p = e \/ p = m
    BY <1>2, <1>3, Zenon
  <1>5. m \in Rest(h, L)
    BY <1>1, <1>2, Zenon DEF Rest
  <1>6. Rest(h, L \cup {i}) = (Rest(h, L) \ {e}) \ {m}
    <2> HIDE DEF i
    <2> QED
      BY <1>4 DEF Rest
  <1>7. DOMAIN h = 1..Len(h) /\ Len(h) \in Nat
    BY EventsOf, Zenon
  <1>8. e < m
    BY <1>2, <1>3, Zenon
  <1>9. e \in Nat /\ m \in Nat
    BY <1>1, <1>2, <1>7
  <1> QED
    BY <1>5, <1>6, <1>8, <1>9, Zenon DEF Without

\* The nodes of an operation on the stack are not in the list.
LEMMA NotListed ==
    ASSUME NEW h, Complete(h), NEW cs, NEW st, OnStack(h, cs, st),
           NEW l \in 0..Len(cs), NEW j \in 1..l
    PROVE  /\ cs[j].entry \in 1..Len(h) /\ MatchIn(h, cs[j].entry) \in 1..Len(h)
           /\ cs[j].entry \notin Rest(h, Taken(h, cs, l))
           /\ MatchIn(h, cs[j].entry) \notin Rest(h, Taken(h, cs, l))
  <1> DEFINE e == cs[j].entry
             m == MatchIn(h, e)
  <1>1. Len(cs) \in Nat
    BY StackTypes
  <1>2. j \in 1..Len(cs)
    BY <1>1
  <1>3. e \in DOMAIN h
    BY <1>2, StackTypes
  <1>4. h[e].id \in Taken(h, cs, l)
    BY DEF Taken
  <1>5. h[e].id \in Ops(h)
    BY <1>3 DEF Ops
  <1>6. m \in DOMAIN h /\ h[m].id = h[e].id
    BY <1>5, CallAndReturn DEF MatchIn
  <1>7. DOMAIN h = 1..Len(h)
    BY EventsOf, Zenon
  <1> HIDE DEF m, e
  <1>8. e \notin Rest(h, Taken(h, cs, l)) /\ m \notin Rest(h, Taken(h, cs, l))
    BY <1>4, <1>6 DEF Rest
  <1> QED
    BY <1>3, <1>6, <1>7, <1>8, Zenon DEF m, e

\* lift keeps the list and what the nodes out of it have kept.
LEMMA ListPush ==
    ASSUME NEW h, Complete(h), NEW cs, NEW st, OnStack(h, cs, st),
           NEW nx, NEW pv, Lists(h, cs, nx, pv),
           NEW e, e \in Rest(h, Taken(h, cs, Len(cs))), h[e].kind = "call",
           NEW cs2, Grown(cs, e, cs2), NEW m, IsMatch(h, e, m), NEW n, IsNil(h, n),
           NEW n2, NEW p2, Lifted(n, e, m, nx, pv, n2, p2)
    PROVE  Lists(h, cs2, n2, p2)
  <1> DEFINE k == Len(cs)
             L == Taken(h, cs, k)
             S == Rest(h, L)
             U == Without(S, e, m)
  <1>1. /\ k \in Nat /\ k + 1 \in Nat /\ k \in 0..k
        /\ \A j \in 1..k + 1 : j = k + 1 \/ (j \in 1..k /\ j \in 0..k)
    <2>1. k \in Nat
      BY StackTypes
    <2> HIDE DEF k
    <2> QED
      BY <2>1
  <1>2. DOMAIN h = 1..Len(h) /\ Len(h) \in Nat
    BY EventsOf, Zenon
  <1>3. n \in Nat \ {0} /\ n - 1 = Len(h)
    BY <1>2 DEF IsNil
  <1>4. S \in SUBSET (1..n - 1) /\ e \in S
    BY <1>2, <1>3 DEF Rest
  <1>5. /\ m \in S /\ e < m /\ e \in Nat /\ m \in Nat
        /\ Rest(h, L \cup {h[e].id}) = U
    <2> HIDE DEF k, L
    <2>1. e \in Rest(h, L)
      BY Zenon DEF L, k
    <2> QED
      BY <2>1, RestWithout
  <1>6. \A j \in 0..k : Taken(h, cs2, j) = Taken(h, cs, j)
    BY <1>1, SameBelow DEF Grown
  <1>7. Taken(h, cs2, k + 1) = L \cup {h[e].id}
    <2>1. Taken(h, cs2, k + 1) = Taken(h, cs2, k) \cup {h[cs2[k + 1].entry].id}
      BY <1>1, TakenNext
    <2> QED
      BY <1>1, <1>6, <2>1, Zenon DEF Grown
  <1>8. Linked(n, S, nx, pv)
    BY Zenon DEF Lists, IsNil
  <1>9. \A j \in 1..k :
           /\ Kept(n, Rest(h, Taken(h, cs, j)), cs[j].entry, MatchIn(h, cs[j].entry), nx, pv)
           /\ cs[j].entry \in 1..n - 1 /\ MatchIn(h, cs[j].entry) \in 1..n - 1
           /\ cs[j].entry \notin S /\ MatchIn(h, cs[j].entry) \notin S
    <2> SUFFICES ASSUME NEW j \in 1..k
                 PROVE  /\ Kept(n, Rest(h, Taken(h, cs, j)), cs[j].entry, MatchIn(h, cs[j].entry), nx, pv)
                        /\ cs[j].entry \in 1..n - 1 /\ MatchIn(h, cs[j].entry) \in 1..n - 1
                        /\ cs[j].entry \notin S /\ MatchIn(h, cs[j].entry) \notin S
      OBVIOUS
    <2>1. Kept(n, Rest(h, Taken(h, cs, j)), cs[j].entry, MatchIn(h, cs[j].entry), nx, pv)
      BY Zenon DEF Lists, IsNil
    <2> QED
      BY <1>1, <1>3, <2>1, NotListed
  <1> HIDE DEF k, L, S
  <1>10. /\ Linked(n, U, n2, p2)
         /\ Kept(n, U, e, m, n2, p2)
         /\ OnlyIn(n, S, nx, pv, n2, p2)
    <2>1. InList(n, S, e, m)
      BY <1>3, <1>4, <1>5, Zenon DEF InList
    <2> QED
      BY <1>8, <2>1, LiftLinks
  <1>11. ASSUME NEW j \in 1..k
         PROVE  Kept(n, Rest(h, Taken(h, cs2, j)), cs2[j].entry, MatchIn(h, cs2[j].entry), n2, p2)
    <2> DEFINE f == cs[j].entry
               g == MatchIn(h, f)
    <2>1. /\ f \in 1..n - 1 /\ g \in 1..n - 1 /\ f \notin S /\ g \notin S
          /\ Kept(n, Rest(h, Taken(h, cs, j)), f, g, nx, pv)
      BY <1>9, Zenon
    <2> HIDE DEF f, g
    <2>2. n2[f] = nx[f] /\ n2[g] = nx[g] /\ p2[f] = pv[f] /\ p2[g] = pv[g]
      BY <1>10, <2>1, Zenon DEF OnlyIn
    <2>3. Kept(n, Rest(h, Taken(h, cs, j)), f, g, n2, p2)
      BY <2>1, <2>2, Zenon DEF Kept
    <2>4. Taken(h, cs2, j) = Taken(h, cs, j) /\ cs2[j] = cs[j]
      <3>1. j \in 0..k
        BY <1>1
      <3> QED
        BY <1>6, <3>1, Zenon DEF k, Grown
    <2> QED
      BY <2>3, <2>4, Zenon DEF f, g
  <1>12. \A j \in 1..k + 1 :
            Kept(n, Rest(h, Taken(h, cs2, j)), cs2[j].entry, MatchIn(h, cs2[j].entry), n2, p2)
    <2> SUFFICES ASSUME NEW j \in 1..k + 1
                 PROVE  Kept(n, Rest(h, Taken(h, cs2, j)), cs2[j].entry, MatchIn(h, cs2[j].entry), n2, p2)
      OBVIOUS
    <2>1. CASE j = k + 1
      <3> HIDE DEF U
      <3> QED
        BY <1>5, <1>7, <1>10, <2>1, Zenon DEF k, Grown, IsMatch
    <2> QED
      BY <1>1, <1>11, <2>1, Zenon
  <1> HIDE DEF U
  <1> QED
    BY <1>5, <1>7, <1>10, <1>12, Zenon DEF Lists, k, IsNil, Grown

\* unlift puts the two nodes where they were.
LEMMA ListPop ==
    ASSUME NEW h, Complete(h), NEW cs, NEW st, OnStack(h, cs, st),
           NEW nx, NEW pv, Lists(h, cs, nx, pv),
           Len(cs) \in Nat \ {0},
           NEW cs2, NEW e, Shrunk(cs, e, cs2), NEW m, IsMatch(h, e, m), NEW n, IsNil(h, n),
           NEW n2, NEW p2, Unlifted(n, e, m, nx, pv, n2, p2)
    PROVE  Lists(h, cs2, n2, p2) /\ IsNext(n, Rest(h, Taken(h, cs2, Len(cs2))), e, n2[e])
  <1> DEFINE k == Len(cs)
             l == k - 1
             L == Taken(h, cs, l)
             S == Rest(h, Taken(h, cs, k))
             U == With(S, e, m)
  <1>1. /\ k \in Nat /\ l \in Nat /\ l + 1 = k /\ k \in 1..k /\ k \in 0..k
        /\ l \in 0..l /\ l \in 0..k /\ \A j \in 1..l : j \in 1..k /\ j \in 0..l
    <2>1. k \in Nat \ {0}
      OBVIOUS
    <2> HIDE DEF k
    <2> QED
      BY <2>1
  <1>2. DOMAIN h = 1..Len(h) /\ Len(h) \in Nat
    BY EventsOf, Zenon
  <1>3. n \in Nat \ {0} /\ n - 1 = Len(h)
    BY <1>2 DEF IsNil
  <1>4. S \in SUBSET (1..n - 1)
    BY <1>2, <1>3 DEF Rest
  <1>5. /\ e \in 1..n - 1 /\ m \in 1..n - 1 /\ e \notin S /\ m \notin S
    BY <1>1, <1>3, NotListed DEF Shrunk, IsMatch
  <1>6. h[e].kind = "call" /\ h[e].id \notin L
    BY <1>1, Zenon DEF OnStack, Shrunk
  <1>7. Taken(h, cs, k) = L \cup {h[e].id}
    <2> HIDE DEF k, l
    <2>1. Taken(h, cs, l + 1) = Taken(h, cs, l) \cup {h[cs[l + 1].entry].id}
      BY <1>1, TakenNext
    <2> QED
      BY <1>1, <2>1, Zenon DEF L, k, Shrunk
  <1>8. /\ e < m /\ e \in Rest(h, L) /\ m \in Rest(h, L)
        /\ S = Without(Rest(h, L), e, m)
    <2>1. e \in Rest(h, L)
      BY <1>2, <1>3, <1>5, <1>6 DEF Rest
    <2> HIDE DEF L
    <2> QED
      BY <1>6, <1>7, <2>1, RestWithout
  <1>9. Rest(h, L) = U
    BY <1>8 DEF With, Without
  <1>10. \A j \in 0..l : Taken(h, cs2, j) = Taken(h, cs, j)
    BY <1>1, SameBelow DEF Shrunk
  <1>11. Linked(n, S, nx, pv) /\ Kept(n, S, e, m, nx, pv)
    BY <1>1, Zenon DEF Lists, IsNil, IsMatch, Shrunk
  <1>12. \A j \in 1..l :
           /\ Kept(n, Rest(h, Taken(h, cs, j)), cs[j].entry, MatchIn(h, cs[j].entry), nx, pv)
           /\ cs[j].entry \in 1..n - 1 /\ MatchIn(h, cs[j].entry) \in 1..n - 1
           /\ cs[j].entry \notin Rest(h, L) /\ MatchIn(h, cs[j].entry) \notin Rest(h, L)
    <2> SUFFICES ASSUME NEW j \in 1..l
                 PROVE  /\ Kept(n, Rest(h, Taken(h, cs, j)), cs[j].entry, MatchIn(h, cs[j].entry), nx, pv)
                        /\ cs[j].entry \in 1..n - 1 /\ MatchIn(h, cs[j].entry) \in 1..n - 1
                        /\ cs[j].entry \notin Rest(h, L) /\ MatchIn(h, cs[j].entry) \notin Rest(h, L)
      OBVIOUS
    <2>1. Kept(n, Rest(h, Taken(h, cs, j)), cs[j].entry, MatchIn(h, cs[j].entry), nx, pv)
      BY <1>1, Zenon DEF Lists, IsNil
    <2> QED
      BY <1>1, <1>3, <2>1, NotListed
  <1> HIDE DEF k, l, L, S
  <1>13. /\ Linked(n, U, n2, p2)
         /\ OnlyIn(n, U, nx, pv, n2, p2)
         /\ IsNext(n, U, e, n2[e])
    BY <1>3, <1>4, <1>5, <1>8, <1>11, UnliftLinks
  <1>14. ASSUME NEW j \in 1..l
         PROVE  Kept(n, Rest(h, Taken(h, cs2, j)), cs2[j].entry, MatchIn(h, cs2[j].entry), n2, p2)
    <2> DEFINE f == cs[j].entry
               g == MatchIn(h, f)
    <2>1. /\ f \in 1..n - 1 /\ g \in 1..n - 1 /\ f \notin U /\ g \notin U
          /\ Kept(n, Rest(h, Taken(h, cs, j)), f, g, nx, pv)
      BY <1>9, <1>12, Zenon
    <2> HIDE DEF f, g, U
    <2>2. n2[f] = nx[f] /\ n2[g] = nx[g] /\ p2[f] = pv[f] /\ p2[g] = pv[g]
      BY <1>13, <2>1, Zenon DEF OnlyIn
    <2>3. Kept(n, Rest(h, Taken(h, cs, j)), f, g, n2, p2)
      BY <2>1, <2>2, Zenon DEF Kept
    <2>4. Taken(h, cs2, j) = Taken(h, cs, j) /\ cs2[j] = cs[j]
      BY <1>1, <1>10, Zenon DEF k, l, Shrunk
    <2> QED
      BY <2>3, <2>4, Zenon DEF f, g
  <1>15. Len(cs2) = l /\ Rest(h, Taken(h, cs2, l)) = U
    BY <1>1, <1>9, <1>10, Zenon DEF k, l, L, Shrunk
  <1> HIDE DEF U
  <1> QED
    BY <1>9, <1>13, <1>14, <1>15, Zenon DEF Lists, IsNil

-----------------------------------------------------------------------------
(* The loop of checkSingle.  Before the entry the list has only calls, and  *)
(* none of them leads on.  What the cache holds leads nowhere, unless it is *)
(* what the search went through to where it is.                             *)

Tried(h, L, st, nx, e) ==
    nx[0] # Len(h) + 1 =>
        /\ e \in Rest(h, L)
        /\ NoneBefore(h, L, st, e)

Through(h, cs, st, c) == \E j \in 1..Len(cs) : c = <<Taken(h, cs, j), StateAt(cs, st, j)>>

CacheHolds(h, cc, cs, st) ==
    \A c \in cc : Through(h, cs, st, c) \/ ~Completable(h, c[1], c[2])

SearchInv(h, nx, pv, L, cc, cs, st, e) ==
    /\ L = Taken(h, cs, Len(cs))
    /\ OnStack(h, cs, st)
    /\ Lists(h, cs, nx, pv)
    /\ Tried(h, L, st, nx, e)
    /\ CacheHolds(h, cc, cs, st)

\* The search starts at the front of the list.
LEMMA TriedFirst ==
    ASSUME NEW h, NEW L, NEW st, NEW nx, NEW pv, Complete(h), Linked(Len(h) + 1, Rest(h, L), nx, pv)
    PROVE  Tried(h, L, st, nx, nx[0])
  <1>1. IsNext(Len(h) + 1, Rest(h, L), 0, nx[0])
    BY Zenon DEF Linked
  <1>2. nx[0] \in Rest(h, L) \cup {Len(h) + 1} /\ \A g \in Rest(h, L) : g <= 0 \/ nx[0] <= g
    BY <1>1, Zenon DEF IsNext
  <1>3. DOMAIN h = 1..Len(h) /\ Len(h) \in Nat
    BY EventsOf, Zenon
  <1>4. \A g \in Rest(h, L) : g \in Nat /\ g > 0
    BY <1>3 DEF Rest
  <1> DEFINE f == nx[0]
  <1>5. f \in Rest(h, L) \cup {Len(h) + 1} /\ \A g \in Rest(h, L) : g <= 0 \/ f <= g
    BY <1>2, Zenon
  <1> HIDE DEF f
  <1>6. f # Len(h) + 1 => f \in Rest(h, L) /\ \A g \in Rest(h, L) : ~(g < f)
    BY <1>4, <1>5
  <1> QED
    BY <1>6, Zenon DEF Tried, NoneBefore, f

\* From a call that leads nowhere it goes on to the next node, for the return of
\* the call is still to come.
LEMMA TriedNext ==
    ASSUME NEW h, NEW L, NEW st, NEW nx, NEW pv, NEW e, Complete(h),
           Linked(Len(h) + 1, Rest(h, L), nx, pv), e \in Rest(h, L), h[e].kind = "call",
           MoveFails(h, L, st, e),
           NoneBefore(h, L, st, e)
    PROVE  Tried(h, L, st, nx, nx[e])
  <1>1. IsNext(Len(h) + 1, Rest(h, L), e, nx[e])
    BY Zenon DEF Linked
  <1> DEFINE f == nx[e]
             m == MatchIn(h, e)
  <1>2. f \in Rest(h, L) \cup {Len(h) + 1} /\ \A g \in Rest(h, L) : g <= e \/ f <= g
    BY <1>1, Zenon DEF IsNext
  <1>3. DOMAIN h = 1..Len(h) /\ Len(h) \in Nat
    BY EventsOf, Zenon
  <1>4. \A g \in Rest(h, L) : g \in Nat /\ g < Len(h) + 1
    BY <1>3 DEF Rest
  <1>5. IsMatch(h, e, m)
    BY Zenon DEF IsMatch
  <1> HIDE DEF f, m
  <1>6. m \in Rest(h, L) /\ e < m
    BY <1>5, RestWithout
  <1>7. f \in Rest(h, L) /\ \A g \in Rest(h, L) : g < f => g < e \/ g = e
    BY <1>2, <1>3, <1>4, <1>6
  <1>8. \A g \in Rest(h, L) : g < f => h[g].kind = "call" /\ MoveFails(h, L, st, g)
    BY <1>7, Zenon DEF NoneBefore
  <1> QED
    BY <1>7, <1>8, Zenon DEF Tried, NoneBefore, f

\* What is found in the cache leads nowhere: the search did not go through it,
\* for the operation was not linearized then.
LEMMA CachedFails ==
    ASSUME NEW h, NEW cc, NEW cs, NEW st, NEW i, NEW s, Complete(h), OnStack(h, cs, st),
           CacheHolds(h, cc, cs, st), i \notin Taken(h, cs, Len(cs)),
           <<Taken(h, cs, Len(cs)) \cup {i}, s>> \in cc
    PROVE  ~Completable(h, Taken(h, cs, Len(cs)) \cup {i}, s)
  <1> DEFINE k == Len(cs)
             L == Taken(h, cs, k)
             c == <<L \cup {i}, s>>
  <1>1. k \in Nat
    BY StackTypes
  <1>2. \A j \in 1..k : 1..j \subseteq 1..k
    <2> HIDE DEF k
    <2> QED
      BY <1>1
  <1>3. \A j \in 1..k : Taken(h, cs, j) \subseteq L
    <2> HIDE DEF k
    <2> QED
      BY <1>2 DEF Taken
  <1>4. ~Through(h, cs, st, c)
    <2> SUFFICES ASSUME NEW j \in 1..k, c = <<Taken(h, cs, j), StateAt(cs, st, j)>>
                 PROVE  FALSE
      BY Zenon DEF Through
    <2>1. L \cup {i} = Taken(h, cs, j)
      <3> HIDE DEF L, k
      <3> QED
        OBVIOUS
    <2> HIDE DEF L, k
    <2>2. i \in L
      BY <1>3, <2>1
    <2> QED
      BY <2>2, Zenon DEF L, k
  <1>5. c[1] = L \cup {i} /\ c[2] = s
    OBVIOUS
  <1>6. c \in cc
    BY Zenon
  <1> HIDE DEF c
  <1> QED
    BY <1>4, <1>5, <1>6, Zenon DEF CacheHolds, L, k

\* Linearize.
LEMMA PushKeeps ==
    ASSUME NEW h, NEW nx, NEW pv, NEW L, NEW cc, NEW cs, NEW st, NEW e,
           NEW n2, NEW p2, NEW L2, NEW cs2, NEW st2, NEW m,
           Complete(h), SearchInv(h, nx, pv, L, cc, cs, st, e),
           nx[0] # Len(h) + 1, h[e].kind = "call", Allowed(h, st, h[e].id),
           L2 = L \cup {h[e].id}, Pushed(h, cs, st, e, cs2, st2),
           IsMatch(h, e, m), Lifted(Len(h) + 1, e, m, nx, pv, n2, p2)
    PROVE  SearchInv(h, n2, p2, L2, cc \cup {<<L2, st2>>}, cs2, st2, n2[0])
  <1> DEFINE k == Len(cs)
  <1>1. /\ L = Taken(h, cs, k) /\ OnStack(h, cs, st) /\ Lists(h, cs, nx, pv)
        /\ e \in Rest(h, L) /\ CacheHolds(h, cc, cs, st)
        /\ NoneBefore(h, L, st, e)
    BY Zenon DEF SearchInv, Tried
  <1>2. k \in Nat /\ k + 1 \in Nat /\ k \in 0..k /\ k + 1 \in 1..k + 1
        /\ \A j \in 1..k : j \in 1..k + 1 /\ j \in 0..k
    <2>1. k \in Nat
      BY <1>1, StackTypes
    <2> HIDE DEF k
    <2> QED
      BY <2>1
  <1>3. /\ OnStack(h, cs2, st2)
        /\ Len(cs2) = k + 1 /\ cs2[k + 1].entry = e
        /\ \A j \in 1..k : cs2[j] = cs[j]
        /\ \A j \in 0..k : StateAt(cs2, st2, j) = StateAt(cs, st, j)
    <2>1. /\ e \in Rest(h, Taken(h, cs, Len(cs)))
          /\ NoneBefore(h, Taken(h, cs, Len(cs)), st, e)
          /\ OnStack(h, cs, st)
      BY <1>1, Zenon
    <2>2. OnStack(h, cs2, st2) /\ Grown(cs, e, cs2) /\ SameStates(Len(cs), cs, st, cs2, st2)
      BY <2>1, Push
    <2> QED
      BY <2>2, Zenon DEF Grown, SameStates
  <1>4. \A j \in 0..k : Taken(h, cs2, j) = Taken(h, cs, j)
    BY <1>2, <1>3, SameBelow
  <1>5. Taken(h, cs2, k + 1) = L2
    <2> HIDE DEF k
    <2>1. Taken(h, cs2, k + 1) = Taken(h, cs2, k) \cup {h[cs2[k + 1].entry].id}
      BY <1>2, TakenNext
    <2> QED
      BY <1>1, <1>2, <1>3, <1>4, <2>1, Zenon
  <1>6. Lists(h, cs2, n2, p2)
    <2>1. Grown(cs, e, cs2)
      BY <1>3, Zenon DEF Grown
    <2>2. IsNil(h, Len(h) + 1)
      BY Zenon DEF IsNil
    <2>3. e \in Rest(h, Taken(h, cs, Len(cs)))
      BY <1>1, Zenon
    <2> QED
      BY <1>1, <2>1, <2>2, <2>3, ListPush, Zenon
  <1>7. Tried(h, L2, st2, n2, n2[0])
    <2>1. Linked(Len(h) + 1, Rest(h, L2), n2, p2)
      BY <1>3, <1>5, <1>6, Zenon DEF Lists
    <2> QED
      BY <2>1, TriedFirst, Zenon
  <1>8. CacheHolds(h, cc \cup {<<L2, st2>>}, cs2, st2)
    <2> SUFFICES ASSUME NEW c \in cc \cup {<<L2, st2>>}
                 PROVE  Through(h, cs2, st2, c) \/ ~Completable(h, c[1], c[2])
      BY Zenon DEF CacheHolds
    <2>1. CASE c = <<L2, st2>>
      <3>1. StateAt(cs2, st2, k + 1) = st2
        BY <1>3, Zenon DEF StateAt
      <3>2. c = <<Taken(h, cs2, k + 1), StateAt(cs2, st2, k + 1)>>
        BY <1>5, <2>1, <3>1, Zenon
      <3> QED
        BY <1>2, <1>3, <3>2, Zenon DEF Through
    <2>2. CASE c \in cc
      <3>1. CASE ~Completable(h, c[1], c[2])
        BY <3>1
      <3>2. CASE Through(h, cs, st, c)
        <4>1. PICK j \in 1..k : c = <<Taken(h, cs, j), StateAt(cs, st, j)>>
          BY <3>2, Zenon DEF Through
        <4>2. j \in 1..k + 1 /\ j \in 0..k
          BY <1>2, Zenon
        <4>3. c = <<Taken(h, cs2, j), StateAt(cs2, st2, j)>>
          BY <1>3, <1>4, <4>1, <4>2, Zenon
        <4> QED
          BY <1>3, <4>2, <4>3, Zenon DEF Through
      <3> QED
        BY <1>1, <2>2, <3>1, <3>2, Zenon DEF CacheHolds
    <2> QED
      BY <2>1, <2>2, Zenon
  <1> QED
    BY <1>3, <1>5, <1>6, <1>7, <1>8, Zenon DEF SearchInv

\* Skip.
LEMMA SkipKeeps ==
    ASSUME NEW h, NEW nx, NEW pv, NEW L, NEW cc, NEW cs, NEW st, NEW e,
           Complete(h), SearchInv(h, nx, pv, L, cc, cs, st, e),
           nx[0] # Len(h) + 1, h[e].kind = "call",
           \/ ~Allowed(h, st, h[e].id)
           \/ <<L \cup {h[e].id}, After(h, st, h[e].id)>> \in cc
    PROVE  SearchInv(h, nx, pv, L, cc, cs, st, nx[e])
  <1>1. /\ L = Taken(h, cs, Len(cs)) /\ OnStack(h, cs, st) /\ Lists(h, cs, nx, pv)
        /\ e \in Rest(h, L) /\ CacheHolds(h, cc, cs, st)
        /\ NoneBefore(h, L, st, e)
    BY Zenon DEF SearchInv, Tried
  <1>2. MoveFails(h, L, st, e)
    <2>1. CASE ~Allowed(h, st, h[e].id)
      BY <2>1, Zenon DEF MoveFails
    <2>2. CASE <<L \cup {h[e].id}, After(h, st, h[e].id)>> \in cc
      <3> DEFINE i == h[e].id
                 s == After(h, st, i)
      <3>1. i \notin Taken(h, cs, Len(cs))
        BY <1>1 DEF Rest
      <3>2. <<Taken(h, cs, Len(cs)) \cup {i}, s>> \in cc
        BY <1>1, <2>2, Zenon
      <3> HIDE DEF i, s
      <3>3. ~Completable(h, Taken(h, cs, Len(cs)) \cup {i}, s)
        BY <1>1, <3>1, <3>2, CachedFails, Zenon
      <3> QED
        BY <1>1, <3>3, Zenon DEF MoveFails, i, s
    <2> QED
      BY <2>1, <2>2
  <1>3. Linked(Len(h) + 1, Rest(h, L), nx, pv)
    BY <1>1, Zenon DEF Lists
  <1>4. Tried(h, L, st, nx, nx[e])
    BY <1>1, <1>2, <1>3, TriedNext, Zenon
  <1> QED
    BY <1>1, <1>4, Zenon DEF SearchInv

\* Where the loop reaches a return, nothing leads on.
LEMMA NothingLeadsOn ==
    ASSUME NEW h, NEW nx, NEW pv, NEW L, NEW cc, NEW cs, NEW st, NEW e,
           Complete(h), SearchInv(h, nx, pv, L, cc, cs, st, e),
           nx[0] # Len(h) + 1, h[e].kind # "call"
    PROVE  ~Completable(h, L, st)
  <1>1. /\ e \in Rest(h, L)
        /\ NoneBefore(h, L, st, e)
    BY Zenon DEF SearchInv, Tried
  <1>2. h[e].kind = "return"
    <2>1. e \in DOMAIN h
      BY <1>1 DEF Rest
    <2> QED
      BY <2>1, EventsOf, Zenon
  <1> QED
    BY <1>1, <1>2, DeadEnd DEF NoneBefore

Undone(h, L, cs, t, L2, cs2, st2) == Popped(cs, t, cs2, st2) /\ L2 = L \ {h[t].id}

\* Backtrack: what is popped led nowhere.
LEMMA PopKeeps ==
    ASSUME NEW h, NEW nx, NEW pv, NEW L, NEW cc, NEW cs, NEW st, NEW e,
           NEW n2, NEW p2, NEW L2, NEW cs2, NEW st2, NEW t, NEW m,
           Complete(h), SearchInv(h, nx, pv, L, cc, cs, st, e),
           nx[0] # Len(h) + 1, h[e].kind # "call", cs # <<>>,
           Undone(h, L, cs, t, L2, cs2, st2),
           IsMatch(h, t, m), Unlifted(Len(h) + 1, t, m, nx, pv, n2, p2)
    PROVE  SearchInv(h, n2, p2, L2, cc, cs2, st2, n2[t])
  <1> DEFINE k == Len(cs)
             l == k - 1
             i == h[t].id
  <1>0. Popped(cs, t, cs2, st2) /\ L2 = L \ {h[t].id}
    BY Zenon DEF Undone
  <1>1. /\ L = Taken(h, cs, k) /\ OnStack(h, cs, st) /\ Lists(h, cs, nx, pv)
        /\ CacheHolds(h, cc, cs, st)
    BY Zenon DEF SearchInv
  <1>2. ~Completable(h, L, st)
    BY NothingLeadsOn
  <1>3. /\ OnStack(h, cs2, st2) /\ Shrunk(cs, t, cs2) /\ k \in Nat \ {0}
        /\ SameStates(l, cs, st, cs2, st2)
    BY <1>0, <1>1, Pop
  <1>4. /\ k \in Nat /\ l \in Nat /\ l + 1 = k /\ k \in 1..k /\ l \in 0..l
        /\ \A j \in 1..k : j = k \/ (j \in 1..l /\ j \in 0..l)
    <2>1. k \in Nat \ {0}
      BY <1>3
    <2> HIDE DEF k
    <2> QED
      BY <2>1
  <1>5. Len(cs2) = l /\ t = cs[k].entry /\ \A j \in 1..l : cs2[j] = cs[j]
    BY <1>3, Zenon DEF Shrunk
  <1>6. /\ h[t].kind = "call" /\ i \notin Taken(h, cs, l)
        /\ StateAt(cs, st, k) = After(h, StateAt(cs, st, l), i)
        /\ NoneBefore(h, Taken(h, cs, l), StateAt(cs, st, l), t)
    BY <1>1, <1>4, <1>5, Zenon DEF OnStack, NoneBefore
  <1>7. \A j \in 0..l : Taken(h, cs2, j) = Taken(h, cs, j)
    BY <1>4, <1>5, SameBelow
  <1>8. Taken(h, cs, k) = Taken(h, cs, l) \cup {i}
    <2> HIDE DEF k, l, i
    <2>1. Taken(h, cs, l + 1) = Taken(h, cs, l) \cup {h[cs[l + 1].entry].id}
      BY <1>4, TakenNext
    <2> QED
      BY <1>4, <1>5, <2>1, Zenon DEF i
  <1>9. L2 = Taken(h, cs2, l) /\ L2 = Taken(h, cs, l) /\ L = L2 \cup {i}
    <2>1. Taken(h, cs2, l) = Taken(h, cs, l)
      BY <1>4, <1>7, Zenon
    <2> HIDE DEF k, l, i
    <2>2. L2 = L \ {i}
      BY <1>0, Zenon DEF i
    <2> QED
      BY <1>1, <1>6, <1>8, <2>1, <2>2
  <1>10. st2 = StateAt(cs, st, l) /\ st = StateAt(cs, st, k)
    <2>1. StateAt(cs2, st2, l) = StateAt(cs, st, l)
      BY <1>3, <1>4, Zenon DEF SameStates
    <2>2. StateAt(cs2, st2, l) = st2 /\ StateAt(cs, st, k) = st
      BY <1>5, Zenon DEF StateAt
    <2> QED
      BY <2>1, <2>2, Zenon
  <1>11. MoveFails(h, L2, st2, t) /\ NoneBefore(h, L2, st2, t)
    <2>1. ~Completable(h, L2 \cup {i}, After(h, st2, i))
      BY <1>2, <1>6, <1>9, <1>10, Zenon
    <2> QED
      BY <1>6, <1>9, <1>10, <2>1, Zenon DEF MoveFails
  <1>12. Lists(h, cs2, n2, p2)
    <2>1. IsNil(h, Len(h) + 1)
      BY Zenon DEF IsNil
    <2> QED
      BY <1>1, <1>3, <2>1, ListPop, Zenon
  <1>13. Tried(h, L2, st2, n2, n2[t])
    <2>1. Linked(Len(h) + 1, Rest(h, L2), n2, p2)
      BY <1>5, <1>9, <1>12, Zenon DEF Lists
    <2>2. t \in Rest(h, L2)
      <3>1. t \in DOMAIN h
        BY <1>1, <1>4, <1>5, StackTypes, Zenon
      <3>2. i \notin L2
        BY <1>6, <1>9, Zenon
      <3> QED
        BY <3>1, <3>2 DEF Rest
    <2> QED
      BY <1>6, <1>11, <2>1, <2>2, TriedNext, Zenon
  <1>14. CacheHolds(h, cc, cs2, st2)
    <2> SUFFICES ASSUME NEW c \in cc
                 PROVE  Through(h, cs2, st2, c) \/ ~Completable(h, c[1], c[2])
      BY Zenon DEF CacheHolds
    <2>1. CASE ~Completable(h, c[1], c[2])
      BY <2>1
    <2>2. CASE Through(h, cs, st, c)
      <3>1. PICK j \in 1..k : c = <<Taken(h, cs, j), StateAt(cs, st, j)>>
        BY <2>2, Zenon DEF Through
      <3>2. CASE j = k
        <4>1. c = <<L, st>>
          BY <1>1, <1>10, <3>1, <3>2, Zenon
        <4>2. c[1] = L /\ c[2] = st
          BY <4>1
        <4> QED
          BY <1>2, <4>2, Zenon
      <3>3. CASE j \in 1..l /\ j \in 0..l
        <4>1. c = <<Taken(h, cs2, j), StateAt(cs2, st2, j)>>
          BY <1>3, <1>7, <3>1, <3>3, Zenon DEF SameStates
        <4> QED
          BY <1>5, <3>3, <4>1, Zenon DEF Through
      <3> QED
        BY <1>4, <3>2, <3>3, Zenon
    <2> QED
      BY <1>1, <2>1, <2>2, Zenon DEF CacheHolds
  <1> QED
    BY <1>3, <1>5, <1>9, <1>12, <1>13, <1>14, Zenon DEF SearchInv

-----------------------------------------------------------------------------
(* The states of the checker.                                               *)

IInv ==
    /\ events \in Histories
    /\ limited \in BOOLEAN
    /\ SearchInv(events, next, prev, linearized, cache, calls, state, entry)
    /\ result \in {"none", "ok", "violation"}
    /\ result = "ok" => Linearizable(events)
    /\ result = "violation" => ~Linearizable(events)

\* The list of makeLinkedEntries.
LEMMA Straight ==
    ASSUME NEW n, NEW nx, NEW pv, n \in Nat, nx \in [0..n -> 1..n + 1], pv \in [1..n -> 0..n],
           \A e \in 0..n : nx[e] = e + 1, \A e \in 1..n : pv[e] = e - 1
    PROVE  Linked(n + 1, 1..n, nx, pv)
  <1>1. n + 1 - 1 = n
    OBVIOUS
  <1>2. \A e \in 1..n \cup {0} : IsNext(n + 1, 1..n, e, nx[e])
    <2> SUFFICES ASSUME NEW e \in 0..n PROVE IsNext(n + 1, 1..n, e, nx[e])
      OBVIOUS
    <2>1. nx[e] = e + 1
      OBVIOUS
    <2>2. e + 1 \in (1..n) \cup {n + 1} /\ e < e + 1 /\ \A g \in 1..n : g <= e \/ e + 1 <= g
      OBVIOUS
    <2> QED
      BY <2>1, <2>2, Zenon DEF IsNext
  <1>3. \A e \in 1..n : IsPrev(1..n, e, pv[e])
    <2> SUFFICES ASSUME NEW e \in 1..n PROVE IsPrev(1..n, e, pv[e])
      OBVIOUS
    <2>1. pv[e] = e - 1
      OBVIOUS
    <2>2. e - 1 \in (1..n) \cup {0} /\ e - 1 < e /\ \A g \in 1..n : g <= e - 1 \/ e <= g
      OBVIOUS
    <2> QED
      BY <2>1, <2>2, Zenon DEF IsPrev
  <1> DEFINE k == n + 1
             l == k - 1
  <1>4. l = n
    BY <1>1
  <1> HIDE DEF l
  <1>5. nx \in [0..l -> 1..k] /\ pv \in [1..l -> 0..l]
    BY <1>4, Zenon
  <1> HIDE DEF k
  <1>6. /\ \A e \in 1..n \cup {0} : IsNext(k, 1..n, e, nx[e])
        /\ \A e \in 1..n : IsPrev(1..n, e, pv[e])
    BY <1>2, <1>3, Zenon DEF k
  <1>7. Linked(k, 1..n, nx, pv)
    BY <1>5, <1>6, Zenon DEF Linked, l
  <1> QED
    BY <1>7, Zenon DEF k

\* The stack and the list that the search starts with.
LEMMA Start ==
    ASSUME NEW h, Complete(h),
           NEW nx, nx = [e \in DOMAIN h \cup {0} |-> e + 1],
           NEW pv, pv = [e \in DOMAIN h |-> e - 1]
    PROVE  SearchInv(h, nx, pv, {}, {}, <<>>, NilValue, 1)
  <1> DEFINE cs == <<>>
             st == NilValue
  <1>1. DOMAIN h = 1..Len(h) /\ Len(h) \in Nat
    BY EventsOf, Zenon
  <1>2. Len(cs) = 0 /\ 0 \in Nat /\ \A j \in 1..Len(cs) : FALSE
    OBVIOUS
  <1>3. Taken(h, cs, 0) = {}
    BY DEF Taken
  <1>4. OnStack(h, cs, st)
    <2>1. cs \in Seq([entry : DOMAIN h, state : States]) /\ st \in States
      BY DEF States
    <2>2. StateAt(cs, st, 0) = NilValue
      BY <1>2, Zenon DEF StateAt
    <2> HIDE DEF cs, st
    <2> QED
      BY <1>2, <2>1, <2>2, Zenon DEF OnStack
  <1>5. Rest(h, {}) = 1..Len(h)
    BY <1>1 DEF Rest
  <1>6. Linked(Len(h) + 1, 1..Len(h), nx, pv)
    <2>1. DOMAIN h \cup {0} = 0..Len(h) /\ Len(h) + 1 - 1 = Len(h)
      BY <1>1
    <2>2. nx = [e \in 0..Len(h) |-> e + 1] /\ pv = [e \in 1..Len(h) |-> e - 1]
      BY <1>1, <2>1
    <2> DEFINE n == Len(h)
    <2> HIDE DEF n
    <2>3. n \in Nat
      BY <1>1 DEF n
    <2>4. nx = [e \in 0..n |-> e + 1] /\ pv = [e \in 1..n |-> e - 1]
      BY <2>2 DEF n
    <2>5. nx \in [0..n -> 1..n + 1] /\ pv \in [1..n -> 0..n]
      BY <2>3, <2>4
    <2>6. (\A e \in 0..n : nx[e] = e + 1) /\ (\A e \in 1..n : pv[e] = e - 1)
      BY <2>4
    <2>7. Linked(n + 1, 1..n, nx, pv)
      BY <2>3, <2>5, <2>6, Straight
    <2> QED
      BY <2>7, Zenon DEF n
  <1>7. nx[0] = 1
    OBVIOUS
  <1> HIDE DEF cs, st
  <1>8. Lists(h, cs, nx, pv)
    BY <1>2, <1>3, <1>5, <1>6, Zenon DEF Lists
  <1>9. Tried(h, {}, st, nx, 1)
    <2>1. Linked(Len(h) + 1, Rest(h, {}), nx, pv)
      BY <1>5, <1>6, Zenon
    <2>2. Tried(h, {}, st, nx, nx[0])
      BY <2>1, TriedFirst, Zenon
    <2> QED
      BY <1>7, <2>2, Zenon
  <1>10. CacheHolds(h, {}, cs, st)
    BY Zenon DEF CacheHolds
  <1>11. SearchInv(h, nx, pv, {}, {}, cs, st, 1)
    BY <1>2, <1>3, <1>4, <1>8, <1>9, <1>10, Zenon DEF SearchInv
  <1> QED
    BY <1>11, Zenon DEF cs, st

\* What makeLinkedEntries makes is such a state.
LEMMA InitIInv == Init => IInv
  <1> SUFFICES ASSUME Init PROVE IInv
    OBVIOUS
  <1>1. Complete(events)
    <2>1. events \in Histories
      BY Zenon DEF Init
    <2> QED
      BY <2>1, HistoriesAssumption
  <1>2. /\ next = [e \in DOMAIN events \cup {0} |-> e + 1]
        /\ prev = [e \in DOMAIN events |-> e - 1]
    BY Zenon DEF Init, Nodes, Head0
  <1>3. SearchInv(events, next, prev, {}, {}, <<>>, NilValue, 1)
    BY <1>1, <1>2, Start, Zenon
  <1>4. /\ linearized = {} /\ cache = {} /\ calls = <<>> /\ state = NilValue /\ entry = 1
        /\ result = "none" /\ events \in Histories /\ limited \in BOOLEAN
    BY Zenon DEF Init
  <1>5. SearchInv(events, next, prev, linearized, cache, calls, state, entry)
    BY <1>3, <1>4, Zenon
  <1> QED
    BY <1>4, <1>5 DEF IInv

\* The links of the module and those of the lemmas.
LEMMA LinksOf ==
    /\ \A e : Lift(e) => Lifted(Len(events) + 1, e, MatchIn(events, e), next, prev, next', prev')
    /\ \A e : Unlift(e) => Unlifted(Len(events) + 1, e, MatchIn(events, e), next, prev, next', prev')
  <1> DEFINE n == Len(events) + 1
  <1>1. ASSUME NEW e, Lift(e)
        PROVE  Lifted(n, e, MatchIn(events, e), next, prev, next', prev')
    <2> DEFINE m == Match(e)
               n1 == [next EXCEPT ![prev[e]] = next[e]]
               p1 == Relink(n, prev, next[e], prev[e])
    <2>1. next' = [n1 EXCEPT ![p1[m]] = n1[m]] /\ prev' = Relink(n, p1, n1[m], p1[m])
      BY <1>1, Zenon DEF Lift, Link, Relink, Nil
    <2>2. m = MatchIn(events, e)
      BY Zenon DEF Match, MatchIn
    <2> QED
      BY <2>1, <2>2, Zenon DEF Lifted
  <1>2. ASSUME NEW e, Unlift(e)
        PROVE  Unlifted(n, e, MatchIn(events, e), next, prev, next', prev')
    <2> DEFINE m == Match(e)
               n1 == [next EXCEPT ![prev[m]] = m]
               p1 == Relink(n, prev, next[m], m)
    <2>1. next' = [n1 EXCEPT ![p1[e]] = e] /\ prev' = Relink(n, p1, n1[e], e)
      BY <1>2, Zenon DEF Unlift, Link, Relink, Nil
    <2>2. m = MatchIn(events, e)
      BY Zenon DEF Match, MatchIn
    <2> QED
      BY <2>1, <2>2, Zenon DEF Unlifted
  <1> QED
    BY <1>1, <1>2, Zenon

\* Every step of the loop and of CheckEventsTimeout.
LEMMA NextIInv == IInv /\ [Next]_vars => IInv'
  <1> SUFFICES ASSUME IInv, [Next]_vars PROVE IInv'
    OBVIOUS
  <1> USE DEF searchVars
  <1> DEFINE S == SearchInv(events, next, prev, linearized, cache, calls, state, entry)
  <1>1. /\ events \in Histories /\ limited \in BOOLEAN /\ S
        /\ result \in {"none", "ok", "violation"}
        /\ result = "ok" => Linearizable(events)
        /\ result = "violation" => ~Linearizable(events)
    BY DEF IInv
  <1>2. Complete(events)
    BY <1>1, HistoriesAssumption
  <1>3. ASSUME events' = events, limited' = limited, result' = result,
               SearchInv(events, next', prev', linearized', cache', calls', state', entry')
        PROVE  IInv'
    <2>1. SearchInv(events', next', prev', linearized', cache', calls', state', entry')
      BY <1>3, Zenon
    <2>2. /\ result' = "ok" => Linearizable(events')
          /\ result' = "violation" => ~Linearizable(events')
      BY <1>1, <1>3, Zenon
    <2> QED
      BY <1>1, <1>3, <2>1, <2>2 DEF IInv
  <1>4. CASE Linearize
    <2>1. /\ next[0] # Len(events) + 1 /\ events[entry].kind = "call"
          /\ Allowed(events, state, events[entry].id)
          /\ events' = events /\ limited' = limited /\ result' = result
      BY <1>4, Zenon DEF Linearize, Head0, Nil, IsCall, MayLinearize
    <2>2. /\ linearized' = linearized \cup {events[entry].id}
          /\ state' = After(events, state, events[entry].id)
      BY <1>4 DEF Linearize, NewEntry
    <2>3. /\ cache' = cache \cup {<<linearized', state'>>}
          /\ calls' = Append(calls, [entry |-> entry, state |-> state])
          /\ entry' = next'[0]
      BY <1>4, <2>2, Zenon DEF Linearize, NewEntry, Restart, Head0
    <2>4. Pushed(events, calls, state, entry, calls', state')
      BY <2>2, <2>3, Zenon DEF Pushed
    <2>5. /\ Lifted(Len(events) + 1, entry, MatchIn(events, entry), next, prev, next', prev')
          /\ IsMatch(events, entry, MatchIn(events, entry))
      BY <1>4, LinksOf, Zenon DEF Linearize, IsMatch
    <2>6. SearchInv(events, next', prev', linearized', cache \cup {<<linearized', state'>>},
                    calls', state', next'[0])
      BY <1>1, <1>2, <2>1, <2>2, <2>4, <2>5, PushKeeps, Zenon
    <2> QED
      BY <1>3, <2>1, <2>3, <2>6, Zenon
  <1>5. CASE Skip
    <2>1. /\ next[0] # Len(events) + 1 /\ events[entry].kind = "call"
          /\ \/ ~Allowed(events, state, events[entry].id)
             \/ <<linearized \cup {events[entry].id}, After(events, state, events[entry].id)>> \in cache
          /\ entry' = next[entry]
          /\ events' = events /\ limited' = limited /\ result' = result
          /\ next' = next /\ prev' = prev /\ linearized' = linearized /\ cache' = cache
          /\ calls' = calls /\ state' = state
      BY <1>5, Zenon DEF Skip, Head0, Nil, IsCall, MayLinearize, Cached, NewEntry
    <2>2. SearchInv(events, next, prev, linearized, cache, calls, state, next[entry])
      BY <1>1, <1>2, <2>1, SkipKeeps, Zenon
    <2> QED
      BY <1>3, <2>1, <2>2, Zenon
  <1>6. CASE Backtrack
    <2> DEFINE t == calls[Len(calls)].entry
    <2>1. /\ next[0] # Len(events) + 1 /\ events[entry].kind # "call" /\ calls # <<>>
          /\ state' = calls[Len(calls)].state
          /\ linearized' = linearized \ {events[t].id}
          /\ calls' = SubSeq(calls, 1, Len(calls) - 1)
          /\ Unlift(t) /\ entry' = next'[t]
          /\ events' = events /\ limited' = limited /\ result' = result /\ cache' = cache
      BY <1>6, Zenon DEF Backtrack, Head0, Nil, IsCall, Clear
    <2>2. Undone(events, linearized, calls, t, linearized', calls', state')
      BY <2>1, Zenon DEF Undone, Popped
    <2>3. /\ Unlifted(Len(events) + 1, t, MatchIn(events, t), next, prev, next', prev')
          /\ IsMatch(events, t, MatchIn(events, t))
      BY <2>1, LinksOf, Zenon DEF IsMatch
    <2> HIDE DEF t
    <2>4. SearchInv(events, next', prev', linearized', cache, calls', state', next'[t])
      BY <1>1, <1>2, <2>1, <2>2, <2>3, PopKeeps
    <2> QED
      BY <1>3, <2>1, <2>4, Zenon
  <1>7. CASE Exhausted
    <2>1. /\ next[0] # Len(events) + 1 /\ events[entry].kind # "call" /\ calls = <<>>
          /\ result' = "violation" /\ events' = events /\ limited' = limited
          /\ UNCHANGED <<next, prev, linearized, cache, calls, state, entry>>
      BY <1>7, Zenon DEF Exhausted, Head0, Nil, IsCall
    <2>2. ~Completable(events, linearized, state)
      BY <1>1, <1>2, <2>1, NothingLeadsOn, Zenon
    <2>3. linearized = {} /\ state = NilValue
      <3>1. Len(calls) = 0
        BY <2>1
      <3>2. linearized = Taken(events, calls, 0) /\ StateAt(calls, state, 0) = NilValue
        BY <1>1, <3>1, Zenon DEF SearchInv, OnStack
      <3>3. Taken(events, calls, 0) = {}
        BY DEF Taken
      <3> QED
        BY <3>1, <3>2, <3>3, Zenon DEF StateAt
    <2>4. ~Linearizable(events)
      BY <2>2, <2>3, Zenon DEF Linearizable
    <2> QED
      BY <1>1, <2>1, <2>4 DEF IInv
  <1>8. CASE Done
    <2>1. /\ next[0] = Len(events) + 1
          /\ result' = "ok" /\ events' = events /\ limited' = limited
          /\ UNCHANGED <<next, prev, linearized, cache, calls, state, entry>>
      BY <1>8, Zenon DEF Done, Head0, Nil
    <2>2. OnStack(events, calls, state) /\ Lists(events, calls, next, prev)
      BY <1>1, Zenon DEF SearchInv
    <2> DEFINE R == Rest(events, Taken(events, calls, Len(calls)))
               n == Len(events) + 1
    <2>3. IsNext(n, R, 0, next[0])
      BY <2>2, Zenon DEF Lists, Linked
    <2>4. \A g \in R : g \in 1..Len(events)
      <3>1. DOMAIN events = 1..Len(events)
        BY <1>2, EventsOf, Zenon
      <3> QED
        BY <3>1 DEF Rest
    <2>5. Len(events) \in Nat
      BY <1>2, EventsOf, Zenon
    <2>6. \A g \in R : g <= 0 \/ n <= g
      BY <2>1, <2>3, Zenon DEF IsNext
    <2>7. R = {}
      <3> HIDE DEF R
      <3> QED
        BY <2>4, <2>5, <2>6
    <2>8. Linearizable(events)
      BY <1>2, <2>2, <2>7, StackExplains, Zenon
    <2> QED
      BY <1>1, <2>1, <2>8 DEF IInv
  <1>9. CASE Receive \/ TimeOut \/ UNCHANGED vars
    <2>1. UNCHANGED <<events, limited, next, prev, linearized, cache, calls, state, entry, result>>
      BY <1>9, Zenon DEF Receive, TimeOut, vars
    <2>2. /\ events' = events /\ limited' = limited /\ result' = result
          /\ next' = next /\ prev' = prev /\ linearized' = linearized /\ cache' = cache
          /\ calls' = calls /\ state' = state /\ entry' = entry
      BY <2>1, Zenon
    <2> QED
      BY <1>1, <1>3, <2>2, Zenon
  <1> QED
    BY <1>4, <1>5, <1>6, <1>7, <1>8, <1>9, Zenon DEF Next, Search

\* All states are such states.
LEMMA SpecIInv == Spec => []IInv
  <1>1. Init => IInv
    BY InitIInv
  <1>2. IInv /\ [Next]_vars => IInv'
    BY NextIInv
  <1> QED
    BY <1>1, <1>2, PTL DEF Spec

Opposites(n, S, nx, pv, e) ==
    /\ nx[e] \in S \cup {n} /\ e < nx[e]
    /\ \A g \in S : ~(e < g /\ g < nx[e])
    /\ nx[e] # n => pv[nx[e]] = e

\* The links of the nodes of a list are each other's opposites.
LEMMA ThereAndBack ==
    ASSUME NEW n, NEW S, NEW nx, NEW pv, NEW e, Linked(n, S, nx, pv), n \in Nat \ {0},
           S \in SUBSET (1..n - 1), e \in S \cup {0}
    PROVE  Opposites(n, S, nx, pv, e)
  <1> DEFINE f == nx[e]
             p == pv[f]
  <1>1. f \in S \cup {n} /\ e < f /\ \A g \in S : g <= e \/ f <= g
    BY Zenon DEF Linked, IsNext
  <1>2. f \in S => p \in S \cup {0} /\ p < f /\ \A g \in S : g <= p \/ f <= g
    BY Zenon DEF Linked, IsPrev
  <1> HIDE DEF p
  <1>3. \A g \in S : g \in Nat /\ g > 0
    OBVIOUS
  <1> HIDE DEF f
  <1>4. e \in Nat /\ f \in Nat
    BY <1>1, <1>3
  <1>5. \A g \in S : ~(e < g /\ g < f)
    BY <1>1, <1>3, <1>4
  <1>6. f # n => p = e
    <2> SUFFICES ASSUME f # n PROVE p = e
      OBVIOUS
    <2>1. f \in S
      BY <1>1
    <2>2. p \in S \cup {0} /\ p < f /\ \A g \in S : g <= p \/ f <= g
      BY <1>2, <2>1, Zenon
    <2>3. p \in Nat /\ (p \in S => p <= e)
      BY <1>1, <1>3, <1>4, <2>2
    <2>4. e \in S => e <= p
      BY <1>1, <1>3, <1>4, <2>2, <2>3
    <2>5. p = 0 => e <= p
      BY <1>3, <1>4, <2>3, <2>4
    <2>6. p \in S => e <= p
      BY <1>3, <1>4, <2>3, <2>4
    <2>7. p <= e
      BY <1>4, <2>2, <2>3
    <2> QED
      BY <1>4, <2>2, <2>3, <2>5, <2>6, <2>7
  <1> QED
    BY <1>1, <1>5, <1>6, Zenon DEF Opposites, f, p

(* The list is the history without the operations that are linearized, in   *)
(* its order, and the loop stands at a node of it and not behind a return   *)
(* (lift, unlift and the loop of checkSingle, lcm/porcupine/porcupine.go).  *)
THEOREM ListIsHistoryHolds == Spec => []ListIsHistory
  <1>1. IInv => ListIsHistory
    <2> SUFFICES ASSUME IInv PROVE ListIsHistory
      OBVIOUS
    <2> DEFINE S == Rest(events, linearized)
               n == Len(events) + 1
    <2>1. Complete(events) /\ events \in Histories
      BY HistoriesAssumption DEF IInv
    <2>2. /\ linearized = Taken(events, calls, Len(calls))
          /\ Lists(events, calls, next, prev)
          /\ Tried(events, linearized, state, next, entry)
      BY Zenon DEF IInv, SearchInv
    <2>3. Linked(n, S, next, prev)
      BY <2>2, Zenon DEF Lists
    <2>4. DOMAIN events = 1..Len(events) /\ Len(events) \in Nat
      BY <2>1, EventsOf, Zenon
    <2>5. n \in Nat \ {0} /\ n - 1 = Len(events)
      BY <2>4
    <2>6. S \in SUBSET (1..n - 1)
      BY <2>4, <2>5 DEF Rest
    <2>7. Listed = S
      BY Zenon DEF Listed, Nodes, Rest
    <2> HIDE DEF S, n
    <2>8. ASSUME NEW e \in Listed \cup {Head0}
          PROVE  /\ next[e] \in Listed \cup {Nil}
                 /\ e < next[e]
                 /\ Between(e, next[e]) = {}
                 /\ next[e] # Nil => prev[next[e]] = e
      <3>1. e \in S \cup {0}
        BY <2>7, Zenon DEF Head0
      <3>2. /\ next[e] \in S \cup {n} /\ e < next[e]
            /\ \A g \in S : ~(e < g /\ g < next[e])
            /\ next[e] # n => prev[next[e]] = e
        <4>1. Opposites(n, S, next, prev, e)
          BY <2>3, <2>5, <2>6, <3>1, ThereAndBack
        <4> QED
          BY <4>1, Zenon DEF Opposites
      <3>3. Between(e, next[e]) = {}
        BY <2>7, <3>2 DEF Between
      <3>4. Nil = n
        BY Zenon DEF Nil, n
      <3> QED
        BY <2>7, <3>2, <3>3, <3>4, Zenon
    <2>9. ASSUME next[Head0] # Nil
          PROVE  entry \in Listed /\ \A e \in Listed : e < entry => IsCall(e)
      <3>1. next[0] # Len(events) + 1
        BY <2>9, Zenon DEF Head0, Nil
      <3>2. entry \in S /\ \A e \in S : e < entry => events[e].kind = "call"
        BY <2>2, <3>1, Zenon DEF Tried, NoneBefore, S
      <3> QED
        BY <2>7, <3>2, Zenon DEF IsCall
    <2> QED
      BY <2>8, <2>9, Zenon DEF ListIsHistory
  <1> QED
    BY <1>1, SpecIInv, PTL

-----------------------------------------------------------------------------
(* The verdict.                                                             *)

\* CheckSpec's linearizability is that of the module.
LEMMA SameDefinition ==
    /\ \A h : Check!Complete(h) <=> Complete(h)
    /\ \A h : Check!Linearizable(h) <=> Linearizable(h)
  <1>1. \A h : Check!Complete(h) <=> Complete(h)
    <2>1. Check!Inputs = Inputs
      BY DEF Check!Inputs, Inputs, Check!ReadInput, ReadInput, Check!WriteInput, WriteInput,
                   Check!CasInput, CasInput, Check!Input, Input
    <2>2. Check!Outputs = Outputs
      BY Zenon DEF Check!Outputs, Outputs, Check!States, States, Check!ReadOutput, ReadOutput,
                   Check!CasOutput, CasOutput, Check!UnknownOutput, UnknownOutput,
                   Check!Output, Output
    <2> QED
      BY <2>1, <2>2, Zenon DEF Check!Complete, Complete
  <1>2. \A h, i : Check!CallAt(h, i) = CallAt(h, i) /\ Check!ReturnAt(h, i) = ReturnAt(h, i)
    BY Zenon DEF Check!CallAt, CallAt, Check!ReturnAt, ReturnAt
  <1>3. \A h : Check!Ops(h) = Ops(h)
    BY Zenon DEF Check!Ops, Ops
  <1>4. Check!States = States
    BY Zenon DEF Check!States, States
  <1>5. \A st, in, out : Check!StepOK(st, in, out) <=> StepOK(st, in, out)
    BY Zenon DEF Check!StepOK, StepOK
  <1>6. \A st, in : Check!StepState(st, in) = StepState(st, in)
    BY Zenon DEF Check!StepState, StepState
  <1>7. \A h, st, i : Check!Allowed(h, st, i) <=> Allowed(h, st, i)
    BY <1>2, <1>5, Zenon DEF Check!Allowed, Allowed
  <1>8. \A h, st, i : Check!After(h, st, i) = After(h, st, i)
    BY <1>2, <1>6, Zenon DEF Check!After, After
  <1>9. \A h, L, n, order : Check!IsOrder(h, L, n, order) <=> IsOrder(h, L, n, order)
    <2> SUFFICES ASSUME NEW h, NEW L, NEW n, NEW order
                 PROVE  Check!IsOrder(h, L, n, order) <=> IsOrder(h, L, n, order)
      OBVIOUS
    <2>1. \A i, j : Check!Precedes(h, i, j) <=> Precedes(h, i, j)
      BY <1>2, Zenon DEF Check!Precedes, Precedes
    <2>2. Check!Ops(h) = Ops(h)
      BY <1>3
    <2> QED
      BY <2>1, <2>2 DEF Check!IsOrder, IsOrder
  <1>10. \A h, st, n, order, states :
            Check!IsRun(h, st, n, order, states) <=> IsRun(h, st, n, order, states)
    BY <1>7, <1>8, Zenon DEF Check!IsRun, IsRun
  <1>11. \A h, L, st : Check!Completable(h, L, st) <=> Completable(h, L, st)
    <2> SUFFICES ASSUME NEW h, NEW L, NEW st
                 PROVE  Check!Completable(h, L, st) <=> Completable(h, L, st)
      OBVIOUS
    <2>1. Check!Ops(h) = Ops(h)
      BY <1>3
    <2>2. \A S : Check!Cardinality(S) = Cardinality(S)
      BY Zenon DEF Check!Cardinality, Cardinality
    <2>3. \A n, order : Check!IsOrder(h, L, n, order) <=> IsOrder(h, L, n, order)
      BY <1>9
    <2>4. \A n, order, states :
             Check!IsRun(h, st, n, order, states) <=> IsRun(h, st, n, order, states)
      BY <1>10
    <2> QED
      BY <1>4, <2>1, <2>2, <2>3, <2>4 DEF Check!Completable, Completable
  <1> QED
    BY <1>1, <1>11, Zenon DEF Check!Linearizable, Linearizable

(* The verdict of CheckEventsTimeout is given once and is the definition's, *)
(* whatever history the search is given: "violation" only for one that no   *)
(* order of its operations explains, and without a time limit always for    *)
(* such a one.  It is the safety of what a check promises: every step is    *)
(* one of CheckSpec or leaves its state alone.                              *)
THEOREM VerdictIsTheDefinitions == Spec => Check!Init /\ [][Check!Next]_Check!vars
  <1>1. Init => Check!Init
    <2> SUFFICES ASSUME Init PROVE Check!Init
      OBVIOUS
    <2>1. events \in Histories /\ limited \in BOOLEAN /\ verdict = "none"
      BY Zenon DEF Init
    <2>2. Complete(events)
      BY <2>1, HistoriesAssumption
    <2> QED
      BY <2>1, <2>2, SameDefinition, Zenon DEF Check!Init
  <1>2. IInv /\ [Next]_vars => [Check!Next]_Check!vars
    <2> SUFFICES ASSUME IInv, [Next]_vars PROVE [Check!Next]_Check!vars
      OBVIOUS
    <2>1. CASE Receive
      <3>1. /\ verdict = "none" /\ result # "none" /\ verdict' = result
            /\ UNCHANGED <<events, limited>>
        BY <2>1, Zenon DEF Receive
      <3>2. /\ result \in {"none", "ok", "violation"}
            /\ result = "ok" => Linearizable(events)
            /\ result = "violation" => ~Linearizable(events)
        BY DEF IInv
      <3>3. verdict' \in {"ok", "violation"} /\ (verdict' = "ok" <=> Linearizable(events))
        BY <3>1, <3>2
      <3>4. verdict' = "ok" <=> Check!Linearizable(events)
        BY <3>3, SameDefinition, Zenon
      <3> QED
        BY <3>1, <3>3, <3>4, Zenon DEF Check!Next, Check!Decide
    <2>2. CASE TimeOut
      BY <2>2, Zenon DEF TimeOut, Check!Next, Check!TimeOut
    <2>3. CASE Search \/ UNCHANGED vars
      <3>1. UNCHANGED <<events, limited, verdict>>
        BY <2>3, Zenon DEF Search, Linearize, Skip, Backtrack, Exhausted, Done, vars
      <3> QED
        BY <3>1, Zenon DEF Check!vars
    <2> QED
      BY <2>1, <2>2, <2>3, Zenon DEF Next
  <1> QED
    BY <1>1, <1>2, SpecIInv, PTL DEF Spec
================================================================================
