---------------------------- MODULE MCPorcupine ----------------------------
(* Every complete history of up to three operations of any kind.  An id is *)
(* that of the n-th call, as parseJepsenLog numbers them.                  *)
EXTENDS Porcupine

\* Ways for n operations to overlap, as sequences of ids: the first
\* occurrence is the call.
Overlaps(n) ==
    {f \in [1..2 * n -> 0..n - 1] :
        \A p \in 1..2 * n :
            /\ Cardinality({q \in 1..2 * n : f[q] = f[p]}) = 2
            /\ \A i \in 0..f[p] - 1 : \E q \in 1..p - 1 : f[q] = i}

AnyOps == {<<ReadInput, ReadOutput(st)>> : st \in States}
            \cup {<<ReadInput, UnknownOutput>>}
            \cup {<<WriteInput(v), WriteOutput>> : v \in Values}
            \cup {<<CasInput(1, 2), out>> :
                      out \in {CasOutput(TRUE), CasOutput(FALSE), UnknownOutput}}
HistoryOf(n, f, ops) ==
    [p \in 1..2 * n |->
        IF \E q \in 1..p - 1 : f[q] = f[p] THEN Return(f[p], ops[f[p]][2])
                                           ELSE Call(f[p], ops[f[p]][1])]

HistoriesOf(n, kinds) ==
    {HistoryOf(n, f, ops) : f \in Overlaps(n), ops \in [0..n - 1 -> kinds]}

MCHistories == UNION {HistoriesOf(n, AnyOps) : n \in 0..3}
=============================================================================
