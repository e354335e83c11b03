------------------------------ MODULE History ------------------------------
(***************************************************************************)
(* Histories of operations on one register, as the linearizability checker *)
(* reads them, and what it means that one is linearizable.                 *)
(*                                                                         *)
(* An event is the call of an operation, with its input, or its return,    *)
(* with its output; the position in the history is its time.               *)
(***************************************************************************)
EXTENDS Integers, Sequences, FiniteSets

CONSTANTS
    Values,     \* what can be written
    NilValue    \* -1000000: the register has not been written

ASSUME HistoryAssumption == NilValue \notin Values

States == Values \cup {NilValue}

Input(op, arg1, arg2) == [op |-> op, arg1 |-> arg1, arg2 |-> arg2]
ReadInput       == Input("read", NilValue, NilValue)
WriteInput(v)   == Input("write", v, NilValue)
CasInput(v, w)  == Input("cas", v, w)

Inputs == {ReadInput} \cup {WriteInput(v) : v \in Values}
            \cup {CasInput(v, w) : v \in Values, w \in Values}

\* A read that found nothing has exists = FALSE; nothing is known of an
\* operation that failed or was never answered.
Output(ok, exists, value, unknown) ==
    [ok |-> ok, exists |-> exists, value |-> value, unknown |-> unknown]
ReadOutput(st)  == Output(FALSE, st # NilValue, st, FALSE)
WriteOutput     == Output(FALSE, FALSE, NilValue, FALSE)
CasOutput(ok)   == Output(ok, FALSE, NilValue, FALSE)
UnknownOutput   == Output(FALSE, FALSE, NilValue, TRUE)

Outputs == {ReadOutput(st) : st \in States} \cup {CasOutput(TRUE), UnknownOutput}

Call(id, input)    == [kind |-> "call", id |-> id, value |-> input]
Return(id, output) == [kind |-> "return", id |-> id, value |-> output]

-----------------------------------------------------------------------------
(* The register: whether a state allows an output, and what an input makes *)
(* of the state.  A write is always allowed, answered or not.              *)

StepOK(st, in, out) ==
    CASE in.op = "read"  -> \/ ~out.exists /\ st = NilValue
                            \/ out.exists /\ st = out.value
                            \/ out.unknown
      [] in.op = "write" -> TRUE
      [] in.op = "cas"   -> (out.ok <=> in.arg1 = st) \/ out.unknown

StepState(st, in) ==
    CASE in.op = "read"  -> st
      [] in.op = "write" -> in.arg1
      [] in.op = "cas"   -> IF in.arg1 = st THEN in.arg2 ELSE st

-----------------------------------------------------------------------------
Ops(h)         == {h[p].id : p \in DOMAIN h}
CallAt(h, i)   == CHOOSE p \in DOMAIN h : h[p].kind = "call" /\ h[p].id = i
ReturnAt(h, i) == CHOOSE p \in DOMAIN h : h[p].kind = "return" /\ h[p].id = i

\* One call and one later return of every operation.
Complete(h) ==
    /\ h \in Seq([kind : {"call"}, id : Nat, value : Inputs]
                   \cup [kind : {"return"}, id : Nat, value : Outputs])
    /\ \A p, q \in DOMAIN h : h[p].kind = h[q].kind /\ h[p].id = h[q].id => p = q
    /\ \A p \in DOMAIN h : h[p].kind = "call" =>
          \E q \in DOMAIN h : h[q].kind = "return" /\ h[q].id = h[p].id /\ p < q
    /\ \A q \in DOMAIN h : h[q].kind = "return" =>
          \E p \in DOMAIN h : h[p].kind = "call" /\ h[p].id = h[q].id

\* i returned before j was called.
Precedes(h, i, j) == ReturnAt(h, i) < CallAt(h, j)

Allowed(h, st, i) ==
    StepOK(st, h[CallAt(h, i)].value, h[ReturnAt(h, i)].value)
After(h, st, i) == StepState(st, h[CallAt(h, i)].value)

\* The operations outside L, each once, in an order that keeps that of
\* operations which do not overlap.
IsOrder(h, L, n, order) ==
    /\ \A i \in Ops(h) \ L : \E k \in 1..n : order[k] = i
    /\ \A k \in 1..n : order[k] \notin L
    /\ \A j, k \in 1..n :
          j < k => order[j] # order[k] /\ ~Precedes(h, order[k], order[j])

\* In this order they take the register from state to state.
IsRun(h, st, n, order, states) ==
    /\ states[0] = st
    /\ \A k \in 1..n : /\ Allowed(h, states[k - 1], order[k])
                       /\ states[k] = After(h, states[k - 1], order[k])

Completable(h, L, st) ==
    \E n \in 0..Cardinality(Ops(h)) :
        \E order \in [1..n -> Ops(h)] :
            /\ IsOrder(h, L, n, order)
            /\ \E states \in [0..n -> States] : IsRun(h, st, n, order, states)

Linearizable(h) == Completable(h, {}, NilValue)
=============================================================================
