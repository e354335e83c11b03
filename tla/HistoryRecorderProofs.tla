----------------------- MODULE HistoryRecorderProofs -----------------------
(***************************************************************************)
(* Proofs about HistoryRecorder: the log is a history at any moment, the   *)
(* history of a service that behaves is linearizable however the records   *)
(* of the processes interleave with the calls, and Stop leaves no open     *)
(* connection; for any number of processes and operations.                 *)
(***************************************************************************)
EXTENDS HistoryRecorder, SequenceFacts

-----------------------------------------------------------------------------
(* The parser: what it has read of a line more is its step from what it    *)
(* had read before.                                                        *)

LogEvents ==
    {e \in [type : {"read", "write"}, result : {"invoked", "completed", "failed"},
            id : Processes, value : States] :
        e.result = "invoked" /\ e.type = "write" => e.value \in Values}

CallEvents   == [kind : {"call"}, id : Nat, value : Inputs]
ReturnEvents == [kind : {"return"}, id : Nat, value : Outputs]
HistoryEvents == CallEvents \cup ReturnEvents

OpenMaps == UNION {[D -> Nat] : D \in SUBSET Processes}
Accs     == [events : Seq(HistoryEvents), open : OpenMaps, next : Nat]

(* A step of the parser adds a call or a return, and nothing else.          *)
LEMMA OutputType ==
    ASSUME NEW e \in LogEvents, NEW i \in Nat
    PROVE  /\ OutputOf(e) \in Outputs
           /\ Return(i, OutputOf(e)) \in HistoryEvents
           /\ Return(i, UnknownOutput) \in HistoryEvents
  <1>1. UnknownOutput \in Outputs
    BY DEF Outputs
  <1>2. \A st \in States : ReadOutput(st) \in Outputs
    BY DEF Outputs
  <1>3. WriteOutput = ReadOutput(NilValue) /\ NilValue \in States
    BY DEF WriteOutput, ReadOutput, States
  <1>4. e.value \in States
    BY DEF LogEvents
  <1> HIDE DEF Outputs, UnknownOutput, WriteOutput, ReadOutput
  <1>5. OutputOf(e) \in Outputs
    BY <1>1, <1>2, <1>3, <1>4 DEF OutputOf
  <1> QED
    BY <1>1, <1>5 DEF Return, HistoryEvents, ReturnEvents

LEMMA InputType ==
    ASSUME NEW e \in LogEvents, e.result = "invoked", NEW i \in Nat
    PROVE  InputOf(e) \in Inputs /\ Call(i, InputOf(e)) \in HistoryEvents
  <1>1. InputOf(e) \in Inputs
    <2>1. CASE e.type = "write"
      <3>1. e.value \in Values
        BY <2>1 DEF LogEvents
      <3>2. InputOf(e) = WriteInput(e.value)
        BY <2>1 DEF InputOf
      <3> QED
        BY <3>1, <3>2 DEF Inputs
    <2>2. CASE e.type # "write"
      <3>1. InputOf(e) = ReadInput
        BY <2>2 DEF InputOf
      <3> QED
        BY <3>1 DEF Inputs
    <2> QED
      BY <2>1, <2>2
  <1> QED
    BY <1>1 DEF Call, HistoryEvents, CallEvents

LEMMA ParseLineType ==
    ASSUME NEW acc \in Accs, NEW e \in LogEvents
    PROVE  ParseLine(acc, e) \in Accs
  <1>1. /\ acc.events \in Seq(HistoryEvents) /\ acc.open \in OpenMaps /\ acc.next \in Nat
        /\ acc = [events |-> acc.events, open |-> acc.open, next |-> acc.next]
    BY DEF Accs
  <1>2. PICK D \in SUBSET Processes : acc.open \in [D -> Nat]
    BY <1>1 DEF OpenMaps
  <1>3. e.id \in Processes
    BY DEF LogEvents
  <1>4. CASE e.result = "invoked"
    <2>1. Append(acc.events, Call(acc.next, InputOf(e))) \in Seq(HistoryEvents)
      BY <1>1, <1>4, InputType, AppendProperties
    <2>2. [p \in DOMAIN acc.open \cup {e.id} |-> IF p = e.id THEN acc.next ELSE acc.open[p]]
            \in [D \cup {e.id} -> Nat]
      BY <1>1, <1>2
    <2>3. [p \in DOMAIN acc.open \cup {e.id} |-> IF p = e.id THEN acc.next ELSE acc.open[p]]
            \in OpenMaps
      BY <1>3, <2>2 DEF OpenMaps
    <2> QED
      BY <1>1, <1>4, <2>1, <2>3 DEF ParseLine, Accs
  <1>5. CASE e.result # "invoked" /\ IsMatched(e)
    <2> DEFINE id == IF e.id \in DOMAIN acc.open THEN acc.open[e.id] ELSE 0
               out == OutputOf(e)
    <2>1. id \in Nat
      BY <1>2
    <2>2. Append(acc.events, Return(id, out)) \in Seq(HistoryEvents)
      BY <1>1, <2>1, OutputType, AppendProperties
    <2>3. [p \in DOMAIN acc.open \ {e.id} |-> acc.open[p]] \in [D \ {e.id} -> Nat]
      BY <1>2
    <2>4. [p \in DOMAIN acc.open \ {e.id} |-> acc.open[p]] \in OpenMaps
      BY <2>3 DEF OpenMaps
    <2>5. ParseLine(acc, e) =
            [events |-> Append(acc.events, Return(id, out)),
             open |-> [p \in DOMAIN acc.open \ {e.id} |-> acc.open[p]],
             next |-> acc.next]
      <3> HIDE DEF id, out
      <3>1. ParseLine(acc, e) =
              [acc EXCEPT !.events = Append(@, Return(id, out)),
                          !.open = [p \in DOMAIN @ \ {e.id} |-> @[p]]]
        BY <1>5, Zenon DEF ParseLine, id, out
      <3> QED
        BY <1>1, <3>1
    <2> HIDE DEF id, out
    <2> QED
      BY <1>1, <2>2, <2>4, <2>5 DEF Accs
  <1>6. CASE e.result # "invoked" /\ ~IsMatched(e)
    BY <1>6, Zenon DEF ParseLine
  <1> QED
    BY <1>4, <1>5, <1>6

LEMMA NothingParsedType == NothingParsed \in Accs
  <1>1. [p \in {} |-> 0] \in [{} -> Nat]
    OBVIOUS
  <1>2. [p \in {} |-> 0] \in OpenMaps
    BY <1>1 DEF OpenMaps
  <1>3. <<>> \in Seq(HistoryEvents)
    OBVIOUS
  <1> QED
    BY <1>2, <1>3 DEF NothingParsed, Accs

(* A set of numbers below a bound has a greatest element.                   *)
LEMMA GreatestNumber ==
    ASSUME NEW n \in Nat, NEW s \in SUBSET (1..n), s # {}
    PROVE  Max(s) \in s /\ \A y \in s : Max(s) >= y
  <1> DEFINE T == {m \in Nat : \A y \in s : y <= m}
  <1>1. n \in T
    OBVIOUS
  <1>2. PICK m \in T : \A k \in T : m <= k
    BY <1>1, LeastNumber
  <1>3. m \in s
    <2> SUFFICES ASSUME m \notin s PROVE FALSE
      OBVIOUS
    <2>1. PICK y \in s : TRUE
      OBVIOUS
    <2>2. y <= m /\ y # m
      OBVIOUS
    <2>3. m - 1 \in T
      BY <2>2
    <2> QED
      BY <1>2, <2>3
  <1>4. \E x \in s : \A y \in s : x >= y
    BY <1>3
  <1> QED
    BY <1>4 DEF Max

(* The fold of the library is a function on sets of positions, defined by   *)
(* recursion on a set without its greatest element.  There is one.          *)
FoldStep(lines, iter) ==
    [s \in SUBSET (1..Len(lines)) |->
        IF s = {} THEN NothingParsed
        ELSE ParseLine(iter[s \ {Max(s)}], lines[Max(s)])]

Folder(lines) == CHOOSE iter : iter = FoldStep(lines, iter)

LEMMA FoldIsFolder ==
    ASSUME NEW lines \in Seq(LogEvents)
    PROVE  ParseLines(lines) = Folder(lines)[1..Len(lines)]
  <1>1. DOMAIN lines = 1..Len(lines)
    OBVIOUS
  <1> QED
    BY <1>1, Zenon DEF ParseLines, FoldLeft, MapThenFoldSet, Folder, FoldStep

LEMMA FoldStepType ==
    ASSUME NEW lines \in Seq(LogEvents),
           NEW iter \in [SUBSET (1..Len(lines)) -> Accs]
    PROVE  FoldStep(lines, iter) \in [SUBSET (1..Len(lines)) -> Accs]
  <1> SUFFICES ASSUME NEW s \in SUBSET (1..Len(lines)), s # {}
               PROVE  ParseLine(iter[s \ {Max(s)}], lines[Max(s)]) \in Accs
    BY NothingParsedType DEF FoldStep
  <1>1. Len(lines) \in Nat
    OBVIOUS
  <1>2. Max(s) \in 1..Len(lines)
    BY <1>1, GreatestNumber
  <1>3. lines[Max(s)] \in LogEvents
    BY <1>2
  <1> QED
    BY <1>3, ParseLineType

LEMMA FolderExists ==
    ASSUME NEW lines \in Seq(LogEvents)
    PROVE  Folder(lines) = FoldStep(lines, Folder(lines))
  <1> DEFINE n  == Len(lines)
             Fs == [SUBSET (1..n) -> Accs]
             step == [p \in Nat \X Fs |-> FoldStep(lines, p[2])]
             base == [s \in SUBSET (1..n) |-> NothingParsed]
  <1>1. n \in Nat
    OBVIOUS
  <1>2. base \in Fs
    BY NothingParsedType
  <1>3. \A k \in Nat, x \in Fs : step[<<k, x>>] = FoldStep(lines, x)
    OBVIOUS
  <1>4. \A x \in Fs : FoldStep(lines, x) \in Fs
    BY FoldStepType
  <1>5. StaysIn(Fs, step)
    BY <1>3, <1>4, Zenon DEF StaysIn
  <1> HIDE DEF step, base, Fs
  <1>6. PICK g \in [Nat -> Fs] : Iterates(g, base, step)
    BY <1>2, <1>5, Recursion
  <1>7. g[0] = base /\ \A k \in Nat : g[k] \in Fs /\ g[k + 1] = FoldStep(lines, g[k])
    BY <1>3, <1>6 DEF Iterates
  <1> DEFINE Stable(k) == \A s \in SUBSET (1..n) :
                             Cardinality(s) <= k => g[k + 1][s] = g[k][s]
             T == {k \in Nat : Stable(k)}
  <1>8. \A s \in SUBSET (1..n) : IsFiniteSet(s) /\ Cardinality(s) \in Nat /\ Cardinality(s) <= n
    <2>1. IsFiniteSet(1..n) /\ Cardinality(1..n) = n
      <3> HIDE DEF n
      <3>1. 1 \in Int /\ n \in Int /\ (1 > n => n = 0)
        BY <1>1
      <3> QED
        BY <1>1, <3>1, FS_Interval
    <2> QED
      BY <2>1, FS_Subset, FS_CardinalityType
  <1>9. \A k \in Nat : g[k + 1][{}] = NothingParsed /\ g[0][{}] = NothingParsed
    <2>1. {} \in SUBSET (1..n)
      OBVIOUS
    <2>2. \A iter : FoldStep(lines, iter)[{}] = NothingParsed
      BY <2>1, Zenon DEF FoldStep
    <2>3. base[{}] = NothingParsed
      BY <2>1, Zenon DEF base
    <2> QED
      BY <1>7, <2>2, <2>3, Zenon
  <1>10. 0 \in T
    <2>1. ASSUME NEW s \in SUBSET (1..n), Cardinality(s) <= 0 PROVE g[0 + 1][s] = g[0][s]
      <3>1. s = {}
        BY <1>8, <2>1, FS_EmptySet
      <3> QED
        BY <1>9, <3>1
    <2> QED
      BY <2>1
  <1>11. ASSUME NEW k \in Nat, k \in T PROVE k + 1 \in T
    <2>1. ASSUME NEW s \in SUBSET (1..n), Cardinality(s) <= k + 1
          PROVE  g[(k + 1) + 1][s] = g[k + 1][s]
      <3>1. CASE s = {}
        BY <1>9, <3>1
      <3>2. CASE s # {}
        <4> DEFINE m == Max(s)
        <4>1. m \in s
          BY <1>1, <3>2, GreatestNumber
        <4> HIDE DEF m
        <4>2. Cardinality(s \ {m}) = Cardinality(s) - 1
          BY <1>8, <4>1, FS_RemoveElement
        <4>3. s \ {m} \in SUBSET (1..n) /\ Cardinality(s \ {m}) <= k
          <5>1. Cardinality(s) \in Nat
            BY <1>8
          <5>2. Cardinality(s \ {m}) <= k
            BY <2>1, <4>2, <5>1
          <5>3. s \ {m} \in SUBSET (1..n)
            OBVIOUS
          <5> QED
            BY <5>2, <5>3
        <4>4. g[k + 1][s \ {m}] = g[k][s \ {m}]
          BY <1>11, <4>3
        <4>5. g[k + 1][s] = ParseLine(g[k][s \ {m}], lines[m])
          BY <1>7, <3>2, Zenon DEF FoldStep, m
        <4>6. g[(k + 1) + 1] = FoldStep(lines, g[k + 1])
          BY <1>7
        <4>7. g[(k + 1) + 1][s] = ParseLine(g[k + 1][s \ {m}], lines[m])
          BY <4>6, <3>2, Zenon DEF FoldStep, m
        <4> QED
          BY <4>4, <4>5, <4>7
      <3> QED
        BY <3>1, <3>2
    <2> QED
      BY <2>1
  <1>12. n \in T
    <2> HIDE DEF T
    <2> QED
      BY <1>1, <1>10, <1>11, NumberInduction
  <1>13. \A s \in SUBSET (1..n) : g[n + 1][s] = g[n][s]
    BY <1>8, <1>12
  <1>14. g[n + 1] = g[n]
    <2>1. g[n + 1] \in Fs /\ g[n] \in Fs
      BY <1>1, <1>7
    <2> QED
      BY <1>13, <2>1 DEF Fs
  <1>15. g[n] = FoldStep(lines, g[n])
    BY <1>1, <1>7, <1>14
  <1> QED
    BY <1>15 DEF Folder

(* Read from the first line to the last.                                    *)
LEMMA ParsedInSteps ==
    ASSUME NEW lines \in Seq(LogEvents)
    PROVE  \E f \in [0..Len(lines) -> Accs] :
              /\ f[0] = NothingParsed
              /\ \A k \in 1..Len(lines) : f[k] = ParseLine(f[k - 1], lines[k])
              /\ f[Len(lines)] = ParseLines(lines)
  <1> DEFINE n == Len(lines)
             F == Folder(lines)
             f == [k \in 0..n |-> F[1..k]]
  <1>1. n \in Nat
    OBVIOUS
  <1>2. \A s \in SUBSET (1..n) :
           F[s] = IF s = {} THEN NothingParsed ELSE ParseLine(F[s \ {Max(s)}], lines[Max(s)])
    <2>1. F = FoldStep(lines, F)
      BY FolderExists
    <2> HIDE DEF F
    <2> QED
      BY <2>1, Zenon DEF FoldStep
  <1> HIDE DEF F
  <1>3. f[0] = NothingParsed
    <2>1. 1..0 = {} /\ f[0] = F[1..0]
      BY <1>1
    <2> QED
      BY <1>2, <2>1
  <1>4. ASSUME NEW k \in 1..n PROVE f[k] = ParseLine(f[k - 1], lines[k])
    <2>1. 1..k \in SUBSET (1..n) /\ 1..k # {}
      <3>1. k \in Nat /\ k >= 1 /\ k <= n
        BY <1>1
      <3> HIDE DEF n
      <3>2. 1 \in 1..k
        BY <3>1
      <3>3. 1..k \in SUBSET (1..n)
        BY <1>1, <3>1
      <3> QED
        BY <3>2, <3>3
    <2>2. Max(1..k) = k
      <3>1. Max(1..k) \in 1..k /\ \A y \in 1..k : Max(1..k) >= y
        BY <1>1, <2>1, GreatestNumber
      <3> QED
        BY <3>1
    <2>3. (1..k) \ {k} = 1..(k - 1)
      OBVIOUS
    <2>4. f[k] = F[1..k] /\ f[k - 1] = F[1..(k - 1)]
      BY <1>1
    <2> QED
      BY <1>2, <2>1, <2>2, <2>3, <2>4
  <1>5. f[n] = ParseLines(lines)
    BY <1>1, FoldIsFolder DEF F
  <1> HIDE DEF f
  <1>6. \A k \in 0..n : f[k] \in Accs
    <2> DEFINE T == {k \in Nat : k <= n => f[k] \in Accs}
    <2>1. 0 \in T
      BY <1>3, NothingParsedType
    <2>2. ASSUME NEW k \in Nat, k \in T PROVE k + 1 \in T
      <3> SUFFICES ASSUME k + 1 <= n PROVE f[k + 1] \in Accs
        OBVIOUS
      <3>1. f[k] \in Accs /\ k + 1 \in 1..n /\ (k + 1) - 1 = k
        BY <1>1, <2>2
      <3>2. f[k + 1] = ParseLine(f[k], lines[k + 1])
        BY <1>4, <3>1
      <3>3. lines[k + 1] \in LogEvents
        BY <3>1
      <3> QED
        BY <3>1, <3>2, <3>3, ParseLineType
    <2> HIDE DEF T
    <2>3. Nat \subseteq T
      BY <2>1, <2>2, NumberInduction
    <2> QED
      BY <1>1, <2>3 DEF T
  <1>7. f \in [0..n -> Accs]
    BY <1>6 DEF f
  <1> QED
    BY <1>3, <1>4, <1>5, <1>7

LEMMA ParsedType ==
    ASSUME NEW lines \in Seq(LogEvents)
    PROVE  ParseLines(lines) \in Accs
  <1>1. Len(lines) \in 0..Len(lines)
    OBVIOUS
  <1> QED
    BY <1>1, ParsedInSteps

LEMMA ParsedNothing == ParseLines(<<>>) = NothingParsed
  <1>1. <<>> \in Seq(LogEvents) /\ Len(<<>>) = 0
    OBVIOUS
  <1> QED
    BY <1>1, ParsedInSteps

LEMMA ParsedAppend ==
    ASSUME NEW lines \in Seq(LogEvents), NEW e \in LogEvents
    PROVE  ParseLines(Append(lines, e)) = ParseLine(ParseLines(lines), e)
  <1> DEFINE n == Len(lines)
             more == Append(lines, e)
  <1>1. /\ n \in Nat /\ more \in Seq(LogEvents) /\ Len(more) = n + 1
        /\ more[n + 1] = e /\ \A k \in 1..n : more[k] = lines[k]
    BY AppendProperties
  <1>2. PICK f \in [0..n -> Accs] :
              /\ f[0] = NothingParsed
              /\ \A k \in 1..n : f[k] = ParseLine(f[k - 1], lines[k])
              /\ f[n] = ParseLines(lines)
    BY ParsedInSteps
  <1>3. PICK g \in [0..(n + 1) -> Accs] :
              /\ g[0] = NothingParsed
              /\ \A k \in 1..(n + 1) : g[k] = ParseLine(g[k - 1], more[k])
              /\ g[n + 1] = ParseLines(more)
    <2> HIDE DEF more
    <2>1. \E g \in [0..Len(more) -> Accs] :
              /\ g[0] = NothingParsed
              /\ \A k \in 1..Len(more) : g[k] = ParseLine(g[k - 1], more[k])
              /\ g[Len(more)] = ParseLines(more)
      BY <1>1, ParsedInSteps
    <2> QED
      BY <1>1, <2>1
  <1> HIDE DEF more
  <1> DEFINE T == {k \in Nat : k <= n => g[k] = f[k]}
  <1>4. 0 \in T
    BY <1>2, <1>3
  <1>5. ASSUME NEW k \in Nat, k \in T PROVE k + 1 \in T
    <2> SUFFICES ASSUME k + 1 <= n PROVE g[k + 1] = f[k + 1]
      OBVIOUS
    <2>1. g[k] = f[k] /\ k + 1 \in 1..n /\ k + 1 \in 1..(n + 1) /\ (k + 1) - 1 = k
      BY <1>1, <1>5
    <2> QED
      BY <1>1, <1>2, <1>3, <2>1
  <1>6. n \in T
    <2> HIDE DEF T
    <2> QED
      BY <1>1, <1>4, <1>5, NumberInduction
  <1>7. g[n] = f[n] /\ n + 1 \in 1..(n + 1) /\ (n + 1) - 1 = n
    BY <1>1, <1>6
  <1> QED
    BY <1>1, <1>2, <1>3, <1>7 DEF more

-----------------------------------------------------------------------------
(* What the parser holds: every call once, a later return of it or its     *)
(* process among the open ones.                                            *)

IsCall(H, k, i)   == H[k].kind = "call" /\ H[k].id = i
IsReturn(H, k, i) == H[k].kind = "return" /\ H[k].id = i

EachOnce(H) ==
    \A p, q \in DOMAIN H : H[p].kind = H[q].kind /\ H[p].id = H[q].id => p = q
CalledBefore(H) ==
    \A q \in DOMAIN H : H[q].kind = "return" =>
        \E p \in DOMAIN H : IsCall(H, p, H[q].id) /\ p < q
Numbered(H, next) == \A p \in DOMAIN H : H[p].id < next

OpenCalled(H, pend) ==
    \A x \in DOMAIN pend : \E p \in DOMAIN H : IsCall(H, p, pend[x])
OpenNotReturned(H, pend) ==
    \A x \in DOMAIN pend, q \in DOMAIN H : ~IsReturn(H, q, pend[x])
OpenOrReturned(H, pend) ==
    \A p \in DOMAIN H : H[p].kind = "call" =>
        \/ \E q \in DOMAIN H : IsReturn(H, q, H[p].id)
        \/ \E x \in DOMAIN pend : pend[x] = H[p].id
OneOpen(pend) == \A x, y \in DOMAIN pend : pend[x] = pend[y] => x = y

GoodHistory(H, pend, next) ==
    /\ EachOnce(H) /\ CalledBefore(H) /\ Numbered(H, next)
    /\ OpenCalled(H, pend) /\ OpenNotReturned(H, pend)
    /\ OpenOrReturned(H, pend) /\ OneOpen(pend)

GoodAcc(acc) == acc \in Accs /\ GoodHistory(acc.events, acc.open, acc.next)

(* The input of a call.                                                     *)
InputIs(H, i, in) == \E p \in DOMAIN H : IsCall(H, p, i) /\ H[p].value = in

Longer(H, H2, n, e) ==
    /\ n \in Nat /\ DOMAIN H = 1..n /\ DOMAIN H2 = 1..(n + 1)
    /\ \A k \in 1..n : H2[k] = H[k]
    /\ H2[n + 1] = e

Opened(pend, pend2, x, i) ==
    /\ x \notin DOMAIN pend /\ DOMAIN pend2 = DOMAIN pend \cup {x}
    /\ pend2[x] = i /\ \A y \in DOMAIN pend : pend2[y] = pend[y]

Closed(pend, pend2, x) ==
    /\ x \in DOMAIN pend /\ DOMAIN pend2 = DOMAIN pend \ {x}
    /\ \A y \in DOMAIN pend2 : pend2[y] = pend[y]

Numbers(H, pend, next) ==
    /\ next \in Nat /\ \A p \in DOMAIN H : H[p].id \in Nat
    /\ \A x \in DOMAIN pend : pend[x] \in Nat

LEMMA GoodAfterCall ==
    ASSUME NEW H, NEW H2, NEW n, NEW e, NEW pend, NEW pend2, NEW next, NEW x,
           Numbers(H, pend, next), Longer(H, H2, n, e), Opened(pend, pend2, x, next),
           e.kind = "call", e.id = next, GoodHistory(H, pend, next)
    PROVE  GoodHistory(H2, pend2, next + 1)
  <1>1. \A p \in 1..n : H2[p] = H[p] /\ H[p].id < next /\ p < n + 1
    BY DEF Longer, GoodHistory, Numbered
  <1>2. EachOnce(H2)
    BY <1>1 DEF GoodHistory, EachOnce, Longer, Numbers
  <1>3. CalledBefore(H2)
    BY <1>1 DEF GoodHistory, CalledBefore, Longer, IsCall
  <1>4. Numbered(H2, next + 1)
    BY <1>1 DEF Numbered, Longer, Numbers
  <1>5. OpenCalled(H2, pend2)
    <2> SUFFICES ASSUME NEW y \in DOMAIN pend2
                 PROVE  \E p \in DOMAIN H2 : IsCall(H2, p, pend2[y])
      BY DEF OpenCalled
    <2>1. CASE y = x
      BY <2>1 DEF Longer, Opened, IsCall
    <2>2. CASE y # x
      BY <2>2 DEF GoodHistory, OpenCalled, Longer, Opened, IsCall
    <2> QED
      BY <2>1, <2>2
  <1>6. OpenNotReturned(H2, pend2)
    <2> SUFFICES ASSUME NEW y \in DOMAIN pend2, NEW q \in 1..(n + 1),
                        IsReturn(H2, q, pend2[y])
                 PROVE  FALSE
      BY DEF OpenNotReturned, Longer
    <2>1. q \in 1..n
      BY DEF Longer, IsReturn
    <2>2. H2[q] = H[q] /\ H[q].id < next
      BY <1>1, <2>1
    <2>3. y \in DOMAIN pend /\ pend2[y] = pend[y]
      BY <2>1, <2>2 DEF Opened, IsReturn, Numbers, Longer
    <2> QED
      BY <2>1, <2>2, <2>3 DEF GoodHistory, OpenNotReturned, IsReturn, Longer
  <1>7. OpenOrReturned(H2, pend2)
    <2> SUFFICES ASSUME NEW p \in 1..(n + 1), H2[p].kind = "call"
                 PROVE  \/ \E q \in DOMAIN H2 : IsReturn(H2, q, H2[p].id)
                        \/ \E y \in DOMAIN pend2 : pend2[y] = H2[p].id
      BY DEF OpenOrReturned, Longer
    <2>1. CASE p = n + 1
      BY <2>1 DEF Longer, Opened
    <2>2. CASE p \in 1..n
      BY <2>2 DEF Longer, Opened, GoodHistory, OpenOrReturned, IsReturn
    <2> QED
      BY <2>1, <2>2 DEF Longer
  <1>8. OneOpen(pend2)
    <2>1. \A y \in DOMAIN pend : pend[y] < next
      BY <1>1 DEF GoodHistory, OpenCalled, IsCall, Longer
    <2> QED
      BY <2>1 DEF GoodHistory, OneOpen, Opened, Numbers
  <1> QED
    BY <1>2, <1>3, <1>4, <1>5, <1>6, <1>7, <1>8 DEF GoodHistory

LEMMA GoodAfterReturn ==
    ASSUME NEW H, NEW H2, NEW n, NEW e, NEW pend, NEW pend2, NEW next, NEW x,
           Numbers(H, pend, next), Longer(H, H2, n, e), Closed(pend, pend2, x),
           e.kind = "return", e.id = pend[x], GoodHistory(H, pend, next)
    PROVE  GoodHistory(H2, pend2, next)
  <1>1. \A p \in 1..n : H2[p] = H[p] /\ H[p].id < next /\ p < n + 1
    BY DEF Longer, GoodHistory, Numbered
  <1>2. PICK c \in 1..n : IsCall(H, c, pend[x])
    BY DEF GoodHistory, OpenCalled, Closed, Longer
  <1>3. EachOnce(H2)
    <2>1. \A q \in 1..n : ~(H[q].kind = "return" /\ H[q].id = pend[x])
      BY DEF GoodHistory, OpenNotReturned, IsReturn, Closed, Longer
    <2> QED
      BY <1>1, <2>1 DEF GoodHistory, EachOnce, Longer
  <1>4. CalledBefore(H2)
    <2> SUFFICES ASSUME NEW q \in 1..(n + 1), H2[q].kind = "return"
                 PROVE  \E p \in 1..(n + 1) : IsCall(H2, p, H2[q].id) /\ p < q
      BY DEF CalledBefore, Longer
    <2>1. CASE q = n + 1
      <3>1. c \in 1..(n + 1) /\ IsCall(H2, c, H2[q].id) /\ c < q
        BY <1>1, <1>2, <2>1 DEF Longer, IsCall
      <3> QED
        BY <3>1
    <2>2. CASE q \in 1..n
      BY <2>2, <1>1 DEF GoodHistory, CalledBefore, Longer, IsCall
    <2> QED
      BY <2>1, <2>2 DEF Longer
  <1>5. Numbered(H2, next)
    BY <1>1, <1>2 DEF Numbered, Longer, IsCall
  <1>6. OpenCalled(H2, pend2)
    BY <1>1 DEF GoodHistory, OpenCalled, Longer, Closed, IsCall
  <1>7. OpenNotReturned(H2, pend2)
    <2> SUFFICES ASSUME NEW y \in DOMAIN pend2, NEW q \in 1..(n + 1),
                        IsReturn(H2, q, pend2[y])
                 PROVE  FALSE
      BY DEF OpenNotReturned, Longer
    <2>1. y \in DOMAIN pend /\ y # x /\ pend2[y] = pend[y]
      BY DEF Closed
    <2>2. CASE q = n + 1
      BY <2>1, <2>2 DEF IsReturn, Longer, GoodHistory, OneOpen, Closed
    <2>3. CASE q \in 1..n
      BY <2>1, <2>3, <1>1 DEF IsReturn, Longer, GoodHistory, OpenNotReturned
    <2> QED
      BY <2>2, <2>3 DEF Longer
  <1>8. OpenOrReturned(H2, pend2)
    <2> SUFFICES ASSUME NEW p \in 1..(n + 1), H2[p].kind = "call"
                 PROVE  \/ \E q \in 1..(n + 1) : IsReturn(H2, q, H2[p].id)
                        \/ \E y \in DOMAIN pend2 : pend2[y] = H2[p].id
      BY DEF OpenOrReturned, Longer
    <2>1. p \in 1..n /\ H2[p] = H[p]
      BY DEF Longer
    <2>2. CASE H[p].id = pend[x]
      <3>1. n + 1 \in 1..(n + 1) /\ IsReturn(H2, n + 1, H2[p].id)
        BY <2>1, <2>2 DEF IsReturn, Longer
      <3> QED
        BY <3>1
    <2>3. CASE H[p].id # pend[x]
      <3>1. CASE \E q \in 1..n : IsReturn(H, q, H[p].id)
        BY <3>1, <2>1, <1>1 DEF IsReturn, Longer
      <3>2. CASE \E y \in DOMAIN pend : pend[y] = H[p].id
        BY <2>1, <2>3, <3>2 DEF Closed
      <3> QED
        BY <2>1, <3>1, <3>2 DEF GoodHistory, OpenOrReturned, Longer
    <2> QED
      BY <2>2, <2>3
  <1>9. OneOpen(pend2)
    BY DEF GoodHistory, OneOpen, Closed
  <1> QED
    BY <1>3, <1>4, <1>5, <1>6, <1>7, <1>8, <1>9 DEF GoodHistory

-----------------------------------------------------------------------------
(* An order of operations that explains a history so far: each was called, *)
(* all that returned are in it, and from no value at all the register goes *)
(* through states that allow what each returned, if it did.  Others may be *)
(* in it before they return, and none but those that took effect need be.  *)

LinTypes(n, lin, st, reg) ==
    /\ n \in Nat /\ lin \in [1..n -> Nat] /\ st \in [0..n -> States]
    /\ st[0] = NilValue /\ st[n] = reg
LinOnce(n, lin) == \A j, k \in 1..n : lin[j] = lin[k] => j = k
LinCalled(H, n, lin) == \A k \in 1..n : \E c \in DOMAIN H : IsCall(H, c, lin[k])
LinReturned(H, n, lin) ==
    \A q \in DOMAIN H : H[q].kind = "return" => \E k \in 1..n : lin[k] = H[q].id
LinTime(H, n, lin) ==
    \A j, k \in 1..n, r, c \in DOMAIN H :
        j < k /\ IsReturn(H, r, lin[k]) /\ IsCall(H, c, lin[j]) => ~(r < c)
LinRun(H, n, lin, st) ==
    \A k \in 1..n, c \in DOMAIN H :
        IsCall(H, c, lin[k]) => st[k] = StepState(st[k - 1], H[c].value)
LinAllowed(H, n, lin, st) ==
    \A k \in 1..n, c, r \in DOMAIN H :
        IsCall(H, c, lin[k]) /\ IsReturn(H, r, lin[k])
           => StepOK(st[k - 1], H[c].value, H[r].value)

Lin(H, n, lin, st, reg) ==
    /\ LinTypes(n, lin, st, reg) /\ LinOnce(n, lin)
    /\ LinCalled(H, n, lin) /\ LinReturned(H, n, lin)
    /\ LinTime(H, n, lin) /\ LinRun(H, n, lin, st) /\ LinAllowed(H, n, lin, st)

NotIn(n, lin, i) == \A k \in 1..n : lin[k] # i

(* A call that follows changes nothing: its operation is not in the order.  *)
LEMMA LinAfterCall ==
    ASSUME NEW H, NEW H2, NEW m, NEW e, NEW n, NEW lin, NEW st, NEW reg,
           Longer(H, H2, m, e), e.kind = "call",
           \A p \in DOMAIN H : H[p].id # e.id,
           Lin(H, n, lin, st, reg)
    PROVE  Lin(H2, n, lin, st, reg)
  <1>1. \A k \in 1..n, c \in 1..(m + 1) :
           IsCall(H2, c, lin[k]) => c \in 1..m /\ IsCall(H, c, lin[k]) /\ H2[c] = H[c]
    BY DEF Lin, LinCalled, IsCall, Longer
  <1>2. \A i, r \in 1..(m + 1) :
           H2[r].kind = "return" => r \in 1..m /\ H2[r] = H[r]
    BY DEF Longer
  <1>3. LinCalled(H2, n, lin)
    BY DEF Lin, LinCalled, IsCall, Longer
  <1>4. LinReturned(H2, n, lin)
    BY <1>2 DEF Lin, LinReturned, Longer
  <1>5. LinTime(H2, n, lin)
    BY <1>1, <1>2 DEF Lin, LinTime, Longer, IsReturn
  <1>6. LinRun(H2, n, lin, st)
    BY <1>1 DEF Lin, LinRun, Longer
  <1>7. LinAllowed(H2, n, lin, st)
    BY <1>1, <1>2 DEF Lin, LinAllowed, Longer, IsReturn
  <1> QED
    BY <1>3, <1>4, <1>5, <1>6, <1>7 DEF Lin

(* A return of an operation of the order, of what its state allowed.        *)
MayReturn(H, i, s, out) ==
    \A c \in DOMAIN H : IsCall(H, c, i) => StepOK(s, H[c].value, out)

LEMMA LinAfterReturn ==
    ASSUME NEW H, NEW H2, NEW m, NEW e, NEW n, NEW lin, NEW st, NEW reg, NEW k,
           Longer(H, H2, m, e), e.kind = "return", EachOnce(H),
           k \in 1..n, lin[k] = e.id, MayReturn(H, e.id, st[k - 1], e.value),
           \A q \in DOMAIN H : ~IsReturn(H, q, e.id),
           Lin(H, n, lin, st, reg)
    PROVE  Lin(H2, n, lin, st, reg)
  <1>1. \A i, c \in 1..(m + 1) :
           H2[c].kind = "call" => c \in 1..m /\ H2[c] = H[c]
    BY DEF Longer
  <1>2. \A c \in 1..m : H2[c] = H[c]
    BY DEF Longer
  <1>3. LinCalled(H2, n, lin)
    BY DEF Lin, LinCalled, IsCall, Longer
  <1>4. LinReturned(H2, n, lin)
    BY DEF Lin, LinReturned, Longer
  <1>5. LinTime(H2, n, lin)
    <2> SUFFICES ASSUME NEW j \in 1..n, NEW l \in 1..n,
                        NEW r \in 1..(m + 1), NEW c \in 1..(m + 1),
                        j < l, IsReturn(H2, r, lin[l]), IsCall(H2, c, lin[j]), r < c
                 PROVE  FALSE
      BY DEF LinTime, Longer
    <2>1. c \in 1..m /\ r \in 1..m
      BY <1>1 DEF IsCall, Longer
    <2> QED
      BY <1>2, <2>1 DEF Lin, LinTime, Longer, IsReturn, IsCall
  <1>6. LinRun(H2, n, lin, st)
    BY <1>1 DEF Lin, LinRun, Longer, IsCall
  <1>7. LinAllowed(H2, n, lin, st)
    <2> SUFFICES ASSUME NEW l \in 1..n, NEW c \in 1..(m + 1), NEW r \in 1..(m + 1),
                        IsCall(H2, c, lin[l]), IsReturn(H2, r, lin[l])
                 PROVE  StepOK(st[l - 1], H2[c].value, H2[r].value)
      BY DEF LinAllowed, Longer
    <2>1. c \in 1..m /\ H2[c] = H[c] /\ IsCall(H, c, lin[l])
      BY <1>1 DEF IsCall
    <2>2. CASE r = m + 1
      <3>1. H2[r] = e /\ l = k
        BY <2>2 DEF Longer, IsReturn, Lin, LinOnce
      <3> QED
        BY <2>1, <3>1 DEF MayReturn, Longer
    <2>3. CASE r \in 1..m
      BY <1>2, <2>1, <2>3 DEF Lin, LinAllowed, Longer, IsReturn
    <2> QED
      BY <2>2, <2>3 DEF Longer
  <1> QED
    BY <1>3, <1>4, <1>5, <1>6, <1>7 DEF Lin

(* An operation that was called and takes effect is the next of the order.  *)
LEMMA LinAfterEffect ==
    ASSUME NEW H, NEW n, NEW lin, NEW st, NEW reg, NEW i, NEW in,
           EachOnce(H), InputIs(H, i, in), NotIn(n, lin, i), i \in Nat,
           StepState(reg, in) \in States,
           \A q \in DOMAIN H : ~IsReturn(H, q, i),
           Lin(H, n, lin, st, reg)
    PROVE  Lin(H, n + 1, [k \in 1..(n + 1) |-> IF k = n + 1 THEN i ELSE lin[k]],
                         [k \in 0..(n + 1) |-> IF k = n + 1 THEN StepState(reg, in) ELSE st[k]],
               StepState(reg, in))
  <1> DEFINE reg2 == StepState(reg, in)
             lin2 == [k \in 1..(n + 1) |-> IF k = n + 1 THEN i ELSE lin[k]]
             st2  == [k \in 0..(n + 1) |-> IF k = n + 1 THEN reg2 ELSE st[k]]
  <1>1. n \in Nat /\ lin \in [1..n -> Nat] /\ st \in [0..n -> States]
    BY DEF Lin, LinTypes
  <1>2. /\ \A k \in 1..n : lin2[k] = lin[k] /\ st2[k] = st[k] /\ st2[k - 1] = st[k - 1]
        /\ lin2[n + 1] = i /\ st2[n + 1] = reg2 /\ st2[n] = reg
    BY <1>1 DEF Lin, LinTypes
  <1>3. LinTypes(n + 1, lin2, st2, reg2)
    <2>1. lin2 \in [1..(n + 1) -> Nat] /\ st2 \in [0..(n + 1) -> States]
      <3> HIDE DEF reg2
      <3>1. reg2 \in States
        BY DEF reg2
      <3> QED
        BY <1>1, <3>1
    <2>2. st2[0] = NilValue
      BY <1>1 DEF Lin, LinTypes
    <2> HIDE DEF lin2, st2, reg2
    <2> QED
      BY <1>1, <1>2, <2>1, <2>2 DEF LinTypes
  <1> HIDE DEF lin2, st2, reg2
  <1>4. LinOnce(n + 1, lin2)
    <2> SUFFICES ASSUME NEW j \in 1..(n + 1), NEW k \in 1..(n + 1), lin2[j] = lin2[k]
                 PROVE  j = k
      BY DEF LinOnce
    <2>1. (j \in 1..n \/ j = n + 1) /\ (k \in 1..n \/ k = n + 1)
      BY <1>1
    <2>2. \A l \in 1..n : lin2[l] = lin[l] /\ lin[l] # i
      BY <1>2 DEF NotIn
    <2> QED
      BY <1>2, <2>1, <2>2 DEF LinOnce, Lin
  <1>5. LinCalled(H, n + 1, lin2)
    BY <1>1, <1>2 DEF LinCalled, Lin, InputIs
  <1>6. LinReturned(H, n + 1, lin2)
    <2> SUFFICES ASSUME NEW q \in DOMAIN H, H[q].kind = "return"
                 PROVE  \E k \in 1..(n + 1) : lin2[k] = H[q].id
      BY DEF LinReturned
    <2>1. PICK k \in 1..n : lin[k] = H[q].id
      BY DEF Lin, LinReturned
    <2>2. k \in 1..(n + 1) /\ lin2[k] = H[q].id
      BY <1>1, <1>2, <2>1
    <2> QED
      BY <2>2
  <1>7. LinTime(H, n + 1, lin2)
    <2> SUFFICES ASSUME NEW j \in 1..(n + 1), NEW k \in 1..(n + 1),
                        NEW r \in DOMAIN H, NEW c \in DOMAIN H,
                        j < k, IsReturn(H, r, lin2[k]), IsCall(H, c, lin2[j]), r < c
                 PROVE  FALSE
      BY DEF LinTime
    <2>1. k # n + 1
      BY <1>2
    <2>2. k \in 1..n /\ j \in 1..n
      BY <1>1, <2>1
    <2> QED
      BY <1>2, <2>2 DEF LinTime, Lin
  <1>8. LinRun(H, n + 1, lin2, st2)
    <2> SUFFICES ASSUME NEW k \in 1..(n + 1), NEW c \in DOMAIN H, IsCall(H, c, lin2[k])
                 PROVE  st2[k] = StepState(st2[k - 1], H[c].value)
      BY DEF LinRun
    <2>1. CASE k = n + 1
      <3>1. H[c].value = in
        BY <1>2, <2>1 DEF InputIs, IsCall, EachOnce
      <3>2. st2[k - 1] = reg /\ st2[k] = reg2
        BY <1>1, <1>2, <2>1
      <3> QED
        BY <3>1, <3>2 DEF reg2
    <2>2. CASE k \in 1..n
      BY <1>2, <2>2 DEF Lin, LinRun
    <2> QED
      BY <1>1, <2>1, <2>2
  <1>9. LinAllowed(H, n + 1, lin2, st2)
    <2> SUFFICES ASSUME NEW k \in 1..(n + 1), NEW c \in DOMAIN H, NEW r \in DOMAIN H,
                        IsCall(H, c, lin2[k]), IsReturn(H, r, lin2[k])
                 PROVE  StepOK(st2[k - 1], H[c].value, H[r].value)
      BY DEF LinAllowed
    <2>1. k \in 1..n
      BY <1>1, <1>2
    <2> QED
      BY <1>2, <2>1 DEF Lin, LinAllowed
  <1> QED
    BY <1>3, <1>4, <1>5, <1>6, <1>7, <1>8, <1>9 DEF Lin, lin2, st2, reg2

(* The rest can follow in any order: nothing is known of what they return.  *)
LEMMA StepStateType ==
    ASSUME NEW s \in States, NEW in \in Inputs
    PROVE  StepState(s, in) \in States /\ StepOK(s, in, UnknownOutput)
  <1>1. CASE in = ReadInput
    BY <1>1 DEF ReadInput, Input, StepState, StepOK, UnknownOutput, Output
  <1>2. CASE \E v \in Values : in = WriteInput(v)
    BY <1>2 DEF WriteInput, Input, StepState, StepOK, UnknownOutput, Output, States
  <1>3. CASE \E v, w \in Values : in = CasInput(v, w)
    BY <1>3 DEF CasInput, Input, StepState, StepOK, UnknownOutput, Output, States
  <1> QED
    BY <1>1, <1>2, <1>3 DEF Inputs

CallsHaveInputs(H) == \A p \in DOMAIN H : H[p].kind = "call" => H[p].value \in Inputs

LEMMA NotInLonger ==
    ASSUME NEW n \in Nat, NEW lin, NEW lin2, NEW i, lin2[n + 1] = i,
           \A k \in 1..n : lin2[k] = lin[k]
    PROVE  \A j : NotIn(n + 1, lin2, j) <=> NotIn(n, lin, j) /\ j # i
  <1> TAKE j
  <1>1. \A k \in 1..(n + 1) : k \in 1..n \/ k = n + 1
    OBVIOUS
  <1>2. n + 1 \in 1..(n + 1) /\ \A k \in 1..n : k \in 1..(n + 1)
    OBVIOUS
  <1> QED
    BY <1>1, <1>2 DEF NotIn

AllIn(pend, n, lin) == \A x \in DOMAIN pend : \E k \in 1..n : lin[k] = pend[x]

LEMMA LinOfAll ==
    ASSUME NEW H, NEW pend, NEW next,
           Numbers(H, pend, next), CallsHaveInputs(H), GoodHistory(H, pend, next),
           \E n, lin, st, reg : Lin(H, n, lin, st, reg)
    PROVE  \E n, lin, st, reg : Lin(H, n, lin, st, reg) /\ AllIn(pend, n, lin)
  <1> DEFINE Goal == \E n, lin, st, reg : Lin(H, n, lin, st, reg) /\ AllIn(pend, n, lin)
             Rest(n, lin) == {i \in 0..next : NotIn(n, lin, i) /\ \E x \in DOMAIN pend : i = pend[x]}
             T == {m \in Nat : \A n, lin, st, reg :
                      Lin(H, n, lin, st, reg) /\ Cardinality(Rest(n, lin)) = m => Goal}
  <1>1. \A n, lin : IsFiniteSet(Rest(n, lin)) /\ Cardinality(Rest(n, lin)) \in Nat
    <2> TAKE n, lin
    <2>1. Rest(n, lin) \in SUBSET Nat /\ \A i \in Rest(n, lin) : i <= next
      BY DEF Numbers
    <2> HIDE DEF Rest
    <2>2. next \in Nat
      BY DEF Numbers
    <2>3. IsFiniteSet(Rest(n, lin))
      BY <2>1, <2>2, FS_BoundedSetOfNaturals
    <2> QED
      BY <2>3, FS_CardinalityType
  <1>2. \A n, lin : \A x \in DOMAIN pend : NotIn(n, lin, pend[x]) => pend[x] \in Rest(n, lin)
    <2> SUFFICES ASSUME NEW x \in DOMAIN pend PROVE pend[x] \in 0..next
      OBVIOUS
    <2>1. PICK p \in DOMAIN H : IsCall(H, p, pend[x])
      BY DEF GoodHistory, OpenCalled
    <2>2. pend[x] < next
      BY <2>1 DEF GoodHistory, Numbered, IsCall
    <2> QED
      BY <2>2 DEF Numbers
  <1>3. ASSUME NEW n, NEW lin, NEW i \in Rest(n, lin)
        PROVE  NotIn(n, lin, i) /\ i \in Nat /\ \E x \in DOMAIN pend : i = pend[x]
    OBVIOUS
  <1> HIDE DEF Rest
  <1>5. 0 \in T
    <2> SUFFICES ASSUME NEW n, NEW lin, NEW st, NEW reg,
                        Lin(H, n, lin, st, reg), Cardinality(Rest(n, lin)) = 0
                 PROVE  AllIn(pend, n, lin)
      OBVIOUS
    <2>1. Rest(n, lin) = {}
      BY <1>1, FS_EmptySet
    <2> QED
      BY <1>2, <2>1 DEF AllIn, NotIn
  <1>6. ASSUME NEW m \in Nat, m \in T PROVE m + 1 \in T
    <2> SUFFICES ASSUME NEW n, NEW lin, NEW st, NEW reg,
                        Lin(H, n, lin, st, reg), Cardinality(Rest(n, lin)) = m + 1
                 PROVE  Goal
      OBVIOUS
    <2>1. Rest(n, lin) # {}
      BY FS_EmptySet
    <2>2. PICK i : i \in Rest(n, lin)
      BY <2>1
    <2>3. NotIn(n, lin, i) /\ i \in Nat
      BY <1>3, <2>2
    <2>4. PICK x \in DOMAIN pend : i = pend[x]
      BY <1>3, <2>2
    <2>5. PICK c \in DOMAIN H : IsCall(H, c, i)
      BY <2>4 DEF GoodHistory, OpenCalled
    <2> DEFINE in == H[c].value
    <2>6. InputIs(H, i, in) /\ in \in Inputs
      BY <2>5 DEF InputIs, CallsHaveInputs, IsCall
    <2>7. n \in Nat /\ reg \in States
      BY DEF Lin, LinTypes
    <2>8. StepState(reg, in) \in States
      BY <2>6, <2>7, StepStateType
    <2>9. \A q \in DOMAIN H : ~IsReturn(H, q, i)
      BY <2>4 DEF GoodHistory, OpenNotReturned
    <2>10. EachOnce(H)
      BY DEF GoodHistory
    <2> DEFINE lin2 == [k \in 1..(n + 1) |-> IF k = n + 1 THEN i ELSE lin[k]]
               st2 == [k \in 0..(n + 1) |-> IF k = n + 1 THEN StepState(reg, in) ELSE st[k]]
    <2> HIDE DEF in
    <2>11. Lin(H, n + 1, lin2, st2, StepState(reg, in))
      BY <2>3, <2>6, <2>8, <2>9, <2>10, LinAfterEffect
    <2>12. lin2[n + 1] = i /\ \A k \in 1..n : lin2[k] = lin[k]
      BY <2>7
    <2> HIDE DEF lin2, st2, Goal
    <2>13. Rest(n + 1, lin2) = Rest(n, lin) \ {i}
      <3>1. \A j : NotIn(n + 1, lin2, j) <=> NotIn(n, lin, j) /\ j # i
        BY <2>7, <2>12, NotInLonger
      <3> QED
        BY <3>1 DEF Rest
    <2>14. Cardinality(Rest(n + 1, lin2)) = m
      BY <1>1, <2>2, <2>13, FS_RemoveElement
    <2> QED
      BY <1>6, <2>11, <2>14
  <1>7. PICK n, lin, st, reg : Lin(H, n, lin, st, reg)
    OBVIOUS
  <1> HIDE DEF T, Goal
  <1>8. Nat \subseteq T
    BY <1>5, <1>6, NumberInduction
  <1>9. Cardinality(Rest(n, lin)) \in T
    BY <1>1, <1>8
  <1>10. Goal
    BY <1>7, <1>9 DEF T
  <1> QED
    BY <1>10 DEF Goal

-----------------------------------------------------------------------------
(* The history that the parser returns: what is open returns at its end.   *)

EndsWith(H, pend, h, l, m, rest) ==
    /\ l \in Nat /\ m \in Nat /\ DOMAIN H = 1..l /\ DOMAIN h = 1..(l + m)
    /\ \A k \in 1..l : h[k] = H[k]
    /\ \A k \in 1..m : h[l + k] = Return(rest[k], UnknownOutput)
    /\ \A j, k \in 1..m : rest[j] = rest[k] => j = k
    /\ \A k \in 1..m : \E x \in DOMAIN pend : rest[k] = pend[x]
    /\ \A x \in DOMAIN pend : \E k \in 1..m : rest[k] = pend[x]

LEMMA GoodNumbers ==
    ASSUME NEW acc, GoodAcc(acc)
    PROVE  /\ Numbers(acc.events, acc.open, acc.next) /\ CallsHaveInputs(acc.events)
           /\ acc.events \in Seq(HistoryEvents)
           /\ \A x \in DOMAIN acc.open : acc.open[x] < acc.next
  <1>1. /\ acc.events \in Seq(HistoryEvents) /\ acc.open \in OpenMaps /\ acc.next \in Nat
    BY DEF GoodAcc, Accs
  <1>2. \A p \in DOMAIN acc.events : acc.events[p] \in HistoryEvents
    BY <1>1
  <1>3. \A ev \in HistoryEvents : ev.id \in Nat /\ (ev.kind = "call" => ev.value \in Inputs)
    BY DEF HistoryEvents, CallEvents, ReturnEvents
  <1>4. \A x \in DOMAIN acc.open : acc.open[x] \in Nat
    BY <1>1 DEF OpenMaps
  <1>5. \A x \in DOMAIN acc.open : acc.open[x] < acc.next
    BY DEF GoodAcc, GoodHistory, OpenCalled, Numbered, IsCall
  <1> QED
    BY <1>1, <1>2, <1>3, <1>4, <1>5 DEF Numbers, CallsHaveInputs

LEMMA Finished ==
    ASSUME NEW acc, GoodAcc(acc)
    PROVE  /\ \E l, m, rest : EndsWith(acc.events, acc.open, Finish(acc), l, m, rest)
           /\ Finish(acc) \in Seq(HistoryEvents)
  <1> DEFINE H == acc.events
             pend == acc.open
             R == {pend[x] : x \in DOMAIN pend}
             m == Cardinality(R)
             rest == SetToSeq(R)
             ends == [k \in DOMAIN rest |-> Return(rest[k], UnknownOutput)]
  <1>1. /\ Numbers(H, pend, acc.next) /\ H \in Seq(HistoryEvents)
        /\ \A x \in DOMAIN pend : pend[x] < acc.next
    BY GoodNumbers
  <1>2. R \in SUBSET Nat /\ acc.next \in Nat /\ \A i \in R : i <= acc.next
    BY <1>1 DEF Numbers
  <1>3. IsFiniteSet(R)
    <2> HIDE DEF R
    <2> QED
      BY <1>2, FS_BoundedSetOfNaturals
  <1>4. /\ rest \in [1..m -> R] /\ m \in Nat
        /\ \A j, k \in 1..m : rest[j] = rest[k] => j = k
    <2> HIDE DEF R
    <2> QED
      BY <1>3, SetInOrder, FS_CardinalityType
  <1>5. \A i \in R : \E k \in 1..m : rest[k] = i
    <2> HIDE DEF R, rest
    <2>1. rest \in Injection(1..m, R)
      BY <1>4 DEF Injection, IsInjective
    <2>2. Cardinality(1..m) = m
      <3> HIDE DEF m
      <3>1. m \in Int /\ 1 \in Int /\ (1 > m => m = 0)
        BY <1>4
      <3> QED
        BY <1>4, <3>1, FS_Interval
    <2>3. rest \in Surjection(1..m, R)
      BY <1>3, <2>1, <2>2, FS_Injection
    <2> QED
      BY <2>3 DEF Surjection
  <1>6. DOMAIN rest = 1..m
    BY <1>4
  <1>7. ends \in Seq(HistoryEvents) /\ Len(ends) = m /\ DOMAIN ends = 1..m
    <2>1. \A k \in 1..m : rest[k] \in Nat
      BY <1>2, <1>4
    <2>2. \A i \in Nat : Return(i, UnknownOutput) \in HistoryEvents
      <3>1. UnknownOutput \in Outputs
        BY DEF Outputs
      <3> QED
        BY <3>1 DEF Return, HistoryEvents, ReturnEvents
    <2> HIDE DEF rest, m
    <2>3. ends \in [1..m -> HistoryEvents]
      BY <1>6, <2>1, <2>2
    <2> HIDE DEF ends
    <2>4. ends \in Seq(HistoryEvents) /\ m \in Nat
      BY <1>4, <2>3, IsASeq
    <2> QED
      BY <2>3, <2>4, LenProperties
  <1>8. Finish(acc) = H \o ends
    BY DEF Finish
  <1>9. \A k \in 1..m : ends[k] = Return(rest[k], UnknownOutput)
    BY <1>6
  <1> HIDE DEF H, ends, rest, m
  <1>10. /\ Len(H) \in Nat /\ DOMAIN H = 1..Len(H)
         /\ DOMAIN (H \o ends) = 1..(Len(H) + m)
         /\ \A k \in 1..Len(H) : (H \o ends)[k] = H[k]
         /\ \A k \in 1..m : (H \o ends)[Len(H) + k] = ends[k]
    <2>1. Len(H) \in Nat /\ DOMAIN H = 1..Len(H)
      BY <1>1
    <2>2. /\ Len(H \o ends) = Len(H) + Len(ends)
          /\ \A k \in 1..Len(H) + Len(ends) :
                (H \o ends)[k] = IF k <= Len(H) THEN H[k] ELSE ends[k - Len(H)]
      BY <1>1, <1>7, ConcatProperties
    <2>3. H \o ends \in Seq(HistoryEvents)
      BY <1>1, <1>7, ConcatProperties
    <2>4. DOMAIN (H \o ends) = 1..(Len(H) + m)
      BY <1>7, <2>2, <2>3, LenProperties
    <2>5. ASSUME NEW k \in 1..Len(H) PROVE (H \o ends)[k] = H[k]
      BY <1>4, <1>7, <2>1, <2>2
    <2>6. ASSUME NEW k \in 1..m PROVE (H \o ends)[Len(H) + k] = ends[k]
      <3>1. Len(H) + k \in 1..Len(H) + Len(ends) /\ ~(Len(H) + k <= Len(H))
            /\ (Len(H) + k) - Len(H) = k
        BY <1>4, <1>7, <2>1
      <3> QED
        BY <2>2, <3>1
    <2> QED
      BY <2>1, <2>4, <2>5, <2>6
  <1>11. EndsWith(H, pend, H \o ends, Len(H), m, rest)
    <2>1. \A k \in 1..m : \E x \in DOMAIN pend : rest[k] = pend[x]
      BY <1>4
    <2>2. \A x \in DOMAIN pend : \E k \in 1..m : rest[k] = pend[x]
      BY <1>5
    <2> HIDE DEF R, pend
    <2> QED
      BY <1>4, <1>9, <1>10, <2>1, <2>2, Zenon DEF EndsWith
  <1>12. H \o ends \in Seq(HistoryEvents)
    BY <1>1, <1>7, ConcatProperties
  <1> QED
    BY <1>8, <1>11, <1>12 DEF H

LEMMA CompleteAtEnd ==
    ASSUME NEW H, NEW pend, NEW next, NEW h, NEW l, NEW m, NEW rest,
           EndsWith(H, pend, h, l, m, rest), GoodHistory(H, pend, next)
    PROVE  /\ EachOnce(h)
           /\ \A p \in DOMAIN h : h[p].kind = "call" =>
                 \E q \in DOMAIN h : IsReturn(h, q, h[p].id) /\ p < q
           /\ \A q \in DOMAIN h : h[q].kind = "return" =>
                 \E p \in DOMAIN h : IsCall(h, p, h[q].id)
           /\ \A p \in DOMAIN h : h[p].kind = "call" => p \in 1..l
  <1>1. /\ l \in Nat /\ m \in Nat /\ DOMAIN H = 1..l /\ DOMAIN h = 1..(l + m)
        /\ \A k \in 1..l : h[k] = H[k]
    BY DEF EndsWith
  <1>2. \A p \in 1..(l + m) : p \in 1..l \/ \E k \in 1..m : p = l + k
    <2> TAKE p \in 1..(l + m)
    <2>1. p \in 1..l \/ (p - l \in 1..m /\ p = l + (p - l))
      BY <1>1
    <2> QED
      BY <2>1
  <1>3. \A k \in 1..m : /\ h[l + k].kind = "return" /\ h[l + k].id = rest[k]
                        /\ h[l + k].value = UnknownOutput
    <2>1. \A i, o : Return(i, o).kind = "return" /\ Return(i, o).id = i /\ Return(i, o).value = o
      BY DEF Return
    <2>2. \A k \in 1..m : h[l + k] = Return(rest[k], UnknownOutput)
      BY Zenon DEF EndsWith
    <2> TAKE k \in 1..m
    <2>3. h[l + k] = Return(rest[k], UnknownOutput)
      BY <2>2
    <2> QED
      BY <2>1, <2>3
  <1>4. \A k \in 1..m : \E c \in 1..l : IsCall(H, c, rest[k])
    <2> TAKE k \in 1..m
    <2>1. PICK x \in DOMAIN pend : rest[k] = pend[x]
      BY DEF EndsWith
    <2> QED
      BY <1>1, <2>1 DEF GoodHistory, OpenCalled
  <1>5. \A k \in 1..m, q \in 1..l : ~IsReturn(H, q, rest[k])
    <2> TAKE k \in 1..m, q \in 1..l
    <2>1. PICK x \in DOMAIN pend : rest[k] = pend[x]
      BY DEF EndsWith
    <2> QED
      BY <1>1, <2>1 DEF GoodHistory, OpenNotReturned
  <1>6. EachOnce(h)
    <2> SUFFICES ASSUME NEW p \in 1..(l + m), NEW q \in 1..(l + m),
                        h[p].kind = h[q].kind, h[p].id = h[q].id
                 PROVE  p = q
      BY <1>1 DEF EachOnce
    <2>1. CASE p \in 1..l /\ q \in 1..l
      BY <1>1, <2>1 DEF GoodHistory, EachOnce
    <2>2. CASE p \in 1..l /\ \E k \in 1..m : q = l + k
      BY <1>1, <1>3, <1>5, <2>2 DEF IsReturn
    <2>3. CASE q \in 1..l /\ \E k \in 1..m : p = l + k
      <3>1. PICK k \in 1..m : p = l + k
        BY <2>3
      <3>2. h[q] = H[q] /\ h[p].kind = "return" /\ h[p].id = rest[k]
        BY <1>1, <1>3, <2>3, <3>1
      <3>3. IsReturn(H, q, rest[k])
        BY <3>2 DEF IsReturn
      <3> QED
        BY <1>5, <2>3, <3>3
    <2>4. CASE (\E k \in 1..m : p = l + k) /\ (\E k \in 1..m : q = l + k)
      <3>1. PICK j \in 1..m, k \in 1..m : p = l + j /\ q = l + k
        BY <2>4
      <3>2. rest[j] = rest[k]
        BY <1>3, <3>1
      <3> QED
        BY <3>1, <3>2 DEF EndsWith
    <2> QED
      BY <1>2, <2>1, <2>2, <2>3, <2>4
  <1>7. ASSUME NEW p \in 1..(l + m), h[p].kind = "call"
        PROVE  \E q \in 1..(l + m) : IsReturn(h, q, h[p].id) /\ p < q
    <2>1. p \in 1..l /\ h[p] = H[p] /\ H[p].kind = "call"
      BY <1>1, <1>2, <1>3, <1>7
    <2>2. CASE \E q \in DOMAIN H : IsReturn(H, q, H[p].id)
      <3>1. PICK q \in 1..l : IsReturn(H, q, H[p].id)
        BY <1>1, <2>2
      <3>2. PICK c \in 1..l : IsCall(H, c, H[q].id) /\ c < q
        BY <1>1, <3>1 DEF GoodHistory, CalledBefore, IsReturn
      <3>3. c = p
        BY <1>1, <2>1, <3>1, <3>2 DEF GoodHistory, EachOnce, IsCall, IsReturn
      <3>4. q \in 1..(l + m) /\ IsReturn(h, q, h[p].id)
        BY <1>1, <2>1, <3>1 DEF IsReturn
      <3> QED
        BY <3>2, <3>3, <3>4
    <2>3. CASE \E x \in DOMAIN pend : pend[x] = H[p].id
      <3>1. PICK k \in 1..m : rest[k] = H[p].id
        BY <2>3 DEF EndsWith
      <3>2. l + k \in 1..(l + m) /\ p < l + k
        BY <1>1, <2>1
      <3>3. IsReturn(h, l + k, h[p].id)
        BY <1>3, <2>1, <3>1 DEF IsReturn
      <3> QED
        BY <3>2, <3>3
    <2> QED
      BY <1>1, <2>1, <2>2, <2>3 DEF GoodHistory, OpenOrReturned
  <1>8. ASSUME NEW q \in 1..(l + m), h[q].kind = "return"
        PROVE  \E p \in 1..(l + m) : IsCall(h, p, h[q].id)
    <2>1. ASSUME NEW c \in 1..l, IsCall(H, c, h[q].id)
          PROVE  c \in 1..(l + m) /\ IsCall(h, c, h[q].id)
      BY <1>1, <2>1 DEF IsCall
    <2>2. CASE q \in 1..l
      BY <1>1, <1>8, <2>1, <2>2 DEF GoodHistory, CalledBefore
    <2>3. CASE \E k \in 1..m : q = l + k
      BY <1>3, <1>4, <2>1, <2>3
    <2> QED
      BY <1>2, <2>2, <2>3
  <1>9. ASSUME NEW p \in 1..(l + m), h[p].kind = "call" PROVE p \in 1..l
    BY <1>2, <1>3, <1>9
  <1> QED
    BY <1>1, <1>6, <1>7, <1>8, <1>9

LEMMA FinishedIsComplete ==
    ASSUME NEW acc, GoodAcc(acc)
    PROVE  Complete(Finish(acc))
  <1> DEFINE h == Finish(acc)
  <1>1. PICK l, m, rest : EndsWith(acc.events, acc.open, h, l, m, rest)
    BY Finished
  <1>2. h \in Seq(HistoryEvents)
    BY Finished
  <1>3. GoodHistory(acc.events, acc.open, acc.next)
    BY DEF GoodAcc
  <1> HIDE DEF h
  <1>4. /\ EachOnce(h)
        /\ \A p \in DOMAIN h : h[p].kind = "call" =>
              \E q \in DOMAIN h : IsReturn(h, q, h[p].id) /\ p < q
        /\ \A q \in DOMAIN h : h[q].kind = "return" =>
              \E p \in DOMAIN h : IsCall(h, p, h[q].id)
    BY <1>1, <1>3, CompleteAtEnd
  <1>5. h \in Seq([kind : {"call"}, id : Nat, value : Inputs]
                   \cup [kind : {"return"}, id : Nat, value : Outputs])
    BY <1>2, Zenon DEF HistoryEvents, CallEvents, ReturnEvents
  <1>6. Complete(h)
    BY <1>4, <1>5, Zenon DEF Complete, EachOnce, IsCall, IsReturn
  <1> QED
    BY <1>6 DEF h

(* An order of all operations explains the whole history.                   *)
LEMMA LinToTheEnd ==
    ASSUME NEW H, NEW pend, NEW next, NEW h, NEW l, NEW m, NEW rest,
           NEW n, NEW lin, NEW st, NEW reg,
           EndsWith(H, pend, h, l, m, rest), GoodHistory(H, pend, next),
           CallsHaveInputs(H), Lin(H, n, lin, st, reg), AllIn(pend, n, lin)
    PROVE  Lin(h, n, lin, st, reg)
  <1>1. /\ l \in Nat /\ m \in Nat /\ DOMAIN H = 1..l /\ DOMAIN h = 1..(l + m)
        /\ \A k \in 1..l : k \in 1..(l + m) /\ h[k] = H[k]
    BY DEF EndsWith
  <1>2. \A p \in 1..(l + m) : p \in 1..l \/ \E k \in 1..m : p = l + k
    <2> TAKE p \in 1..(l + m)
    <2>1. p \in 1..l \/ (p - l \in 1..m /\ p = l + (p - l))
      BY <1>1
    <2> QED
      BY <2>1
  <1>3. \A k \in 1..m : /\ h[l + k].kind = "return" /\ h[l + k].id = rest[k]
                        /\ h[l + k].value = UnknownOutput
    <2>1. \A i, o : Return(i, o).kind = "return" /\ Return(i, o).id = i /\ Return(i, o).value = o
      BY DEF Return
    <2>2. \A k \in 1..m : h[l + k] = Return(rest[k], UnknownOutput)
      BY Zenon DEF EndsWith
    <2> TAKE k \in 1..m
    <2>3. h[l + k] = Return(rest[k], UnknownOutput)
      BY <2>2
    <2> QED
      BY <2>1, <2>3
  <1>4. n \in Nat /\ lin \in [1..n -> Nat] /\ st \in [0..n -> States]
    BY DEF Lin, LinTypes
  <1>5. \A c \in 1..(l + m) : h[c].kind = "call" => c \in 1..l /\ h[c] = H[c]
    BY <1>1, <1>2, <1>3
  <1>6. LinCalled(h, n, lin)
    BY <1>1 DEF Lin, LinCalled, IsCall
  <1>7. LinReturned(h, n, lin)
    <2> SUFFICES ASSUME NEW q \in 1..(l + m), h[q].kind = "return"
                 PROVE  \E k \in 1..n : lin[k] = h[q].id
      BY <1>1 DEF LinReturned
    <2>1. CASE q \in 1..l
      BY <1>1, <2>1 DEF Lin, LinReturned
    <2>2. CASE \E k \in 1..m : q = l + k
      <3>1. PICK k \in 1..m : h[q].id = rest[k]
        BY <1>3, <2>2
      <3>2. PICK x \in DOMAIN pend : rest[k] = pend[x]
        BY DEF EndsWith
      <3> QED
        BY <3>1, <3>2 DEF AllIn
    <2> QED
      BY <1>2, <2>1, <2>2
  <1>8. LinTime(h, n, lin)
    <2> SUFFICES ASSUME NEW j \in 1..n, NEW k \in 1..n,
                        NEW r \in 1..(l + m), NEW c \in 1..(l + m),
                        j < k, IsReturn(h, r, lin[k]), IsCall(h, c, lin[j]), r < c
                 PROVE  FALSE
      BY <1>1 DEF LinTime
    <2>1. c \in 1..l /\ r \in 1..l
      BY <1>1, <1>5 DEF IsCall
    <2> QED
      BY <1>1, <2>1 DEF Lin, LinTime, IsReturn, IsCall
  <1>9. LinRun(h, n, lin, st)
    BY <1>1, <1>5 DEF Lin, LinRun, IsCall
  <1>10. LinAllowed(h, n, lin, st)
    <2> SUFFICES ASSUME NEW k \in 1..n, NEW c \in 1..(l + m), NEW r \in 1..(l + m),
                        IsCall(h, c, lin[k]), IsReturn(h, r, lin[k])
                 PROVE  StepOK(st[k - 1], h[c].value, h[r].value)
      BY <1>1 DEF LinAllowed
    <2>1. c \in 1..l /\ h[c] = H[c] /\ IsCall(H, c, lin[k])
      BY <1>5 DEF IsCall
    <2>2. CASE r \in 1..l
      BY <1>1, <2>1, <2>2 DEF Lin, LinAllowed, IsReturn
    <2>3. CASE \E i \in 1..m : r = l + i
      <3>1. h[r].value = UnknownOutput
        BY <1>3, <2>3
      <3>2. h[c].value \in Inputs
        BY <1>1, <2>1 DEF CallsHaveInputs, IsCall
      <3>3. st[k - 1] \in States
        BY <1>4
      <3> QED
        BY <3>1, <3>2, <3>3, StepStateType
    <2> QED
      BY <1>2, <2>2, <2>3
  <1> QED
    BY <1>6, <1>7, <1>8, <1>9, <1>10 DEF Lin

LEMMA LinIsLinearizable ==
    ASSUME NEW h, NEW n, NEW lin, NEW st, NEW reg,
           h \in Seq(HistoryEvents), Complete(h), Lin(h, n, lin, st, reg)
    PROVE  Linearizable(h)
  <1>1. n \in Nat /\ lin \in [1..n -> Nat] /\ st \in [0..n -> States] /\ st[0] = NilValue
    BY DEF Lin, LinTypes
  <1>2. \A k \in 1..n : \E c \in DOMAIN h : IsCall(h, c, lin[k])
    BY DEF Lin, LinCalled
  <1>3. EachOnce(h)
    BY Zenon DEF Complete, EachOnce
  <1>4. \A p \in DOMAIN h : h[p].kind \in {"call", "return"}
    <2>1. \A ev \in HistoryEvents : ev.kind \in {"call", "return"}
      BY DEF HistoryEvents, CallEvents, ReturnEvents
    <2> QED
      BY <2>1
  <1>5. \A p \in DOMAIN h : h[p].kind = "call" => \E q \in DOMAIN h : IsReturn(h, q, h[p].id)
    BY Zenon DEF Complete, IsReturn
  <1>6. \A i \in Ops(h) : \E k \in 1..n : lin[k] = i
    <2> TAKE i \in Ops(h)
    <2>1. PICK p \in DOMAIN h : h[p].id = i
      BY DEF Ops
    <2>2. PICK q \in DOMAIN h : IsReturn(h, q, i)
      BY <1>4, <1>5, <2>1 DEF IsReturn
    <2> QED
      BY <2>2 DEF Lin, LinReturned, IsReturn
  <1>7. lin \in [1..n -> Ops(h)]
    <2>1. \A k \in 1..n : lin[k] \in Ops(h)
      BY <1>2 DEF Ops, IsCall
    <2> QED
      BY <1>1, <2>1
  <1>8. \A k \in 1..n : /\ CallAt(h, lin[k]) \in DOMAIN h /\ ReturnAt(h, lin[k]) \in DOMAIN h
                        /\ IsCall(h, CallAt(h, lin[k]), lin[k])
                        /\ IsReturn(h, ReturnAt(h, lin[k]), lin[k])
    <2> TAKE k \in 1..n
    <2>1. PICK c \in DOMAIN h : IsCall(h, c, lin[k])
      BY <1>2
    <2>2. PICK r \in DOMAIN h : IsReturn(h, r, lin[k])
      BY <1>5, <2>1 DEF IsCall
    <2>3. CallAt(h, lin[k]) \in DOMAIN h /\ IsCall(h, CallAt(h, lin[k]), lin[k])
      BY <2>1, Zenon DEF CallAt, IsCall
    <2>4. ReturnAt(h, lin[k]) \in DOMAIN h /\ IsReturn(h, ReturnAt(h, lin[k]), lin[k])
      BY <2>2, Zenon DEF ReturnAt, IsReturn
    <2> QED
      BY <2>3, <2>4
  <1> HIDE DEF Complete
  <1>9. IsOrder(h, {}, n, lin)
    <2>1. ASSUME NEW j \in 1..n, NEW k \in 1..n, j < k
          PROVE  lin[j] # lin[k] /\ ~Precedes(h, lin[k], lin[j])
      <3>1. lin[j] # lin[k]
        BY <1>1, <2>1 DEF Lin, LinOnce
      <3>2. ~(ReturnAt(h, lin[k]) < CallAt(h, lin[j]))
        BY <1>8, <2>1 DEF Lin, LinTime
      <3> QED
        BY <3>1, <3>2 DEF Precedes
    <2> QED
      BY <1>6, <2>1 DEF IsOrder
  <1>10. IsRun(h, NilValue, n, lin, st)
    <2>1. ASSUME NEW k \in 1..n
          PROVE  Allowed(h, st[k - 1], lin[k]) /\ st[k] = After(h, st[k - 1], lin[k])
      BY <1>8 DEF Lin, LinRun, LinAllowed, Allowed, After
    <2> QED
      BY <1>1, <2>1 DEF IsRun
  <1>11. n \in 0..Cardinality(Ops(h))
    <2>1. IsFiniteSet(DOMAIN h)
      <3>1. DOMAIN h = 1..Len(h) /\ Len(h) \in Int /\ 1 \in Int
        BY LenProperties
      <3> QED
        BY <3>1, FS_Interval
    <2>2. [p \in DOMAIN h |-> h[p].id] \in Surjection(DOMAIN h, Ops(h))
      BY DEF Surjection, Ops
    <2>3. IsFiniteSet(Ops(h))
      BY <2>1, <2>2, FS_Surjection
    <2>4. lin \in Injection(1..n, Ops(h))
      BY <1>7 DEF Injection, IsInjective, Lin, LinOnce
    <2>5. Cardinality(1..n) <= Cardinality(Ops(h)) /\ Cardinality(Ops(h)) \in Nat
      BY <2>3, <2>4, FS_Injection, FS_CardinalityType
    <2>6. Cardinality(1..n) = n
      <3>1. n \in Int /\ 1 \in Int /\ (1 > n => n = 0)
        BY <1>1
      <3> QED
        BY <1>1, <3>1, FS_Interval
    <2> QED
      BY <1>1, <2>5, <2>6
  <1>12. \E states \in [0..n -> States] : IsRun(h, NilValue, n, lin, states)
    BY <1>1, <1>10
  <1> QED
    BY <1>7, <1>9, <1>11, <1>12, Zenon DEF Linearizable, Completable

LEMMA FinishedIsLinearizable ==
    ASSUME NEW acc, GoodAcc(acc), \E n, lin, st, reg : Lin(acc.events, n, lin, st, reg)
    PROVE  Linearizable(Finish(acc))
  <1>1. /\ Numbers(acc.events, acc.open, acc.next) /\ CallsHaveInputs(acc.events)
        /\ GoodHistory(acc.events, acc.open, acc.next)
    BY GoodNumbers DEF GoodAcc
  <1>2. PICK n, lin, st, reg : Lin(acc.events, n, lin, st, reg) /\ AllIn(acc.open, n, lin)
    BY <1>1, LinOfAll
  <1>3. PICK l, m, rest : EndsWith(acc.events, acc.open, Finish(acc), l, m, rest)
    BY Finished
  <1>4. Lin(Finish(acc), n, lin, st, reg)
    BY <1>1, <1>2, <1>3, LinToTheEnd
  <1> QED
    BY <1>4, Finished, FinishedIsComplete, LinIsLinearizable

-----------------------------------------------------------------------------
(* The processes.  Operations that did not take effect are not in the      *)
(* order; those that did, and await their answer, are in it where the      *)
(* register had the value they saw; and each write that may still take     *)
(* effect is the open one of a process that is given no other.             *)

OfUndone(pend, n, lin, undone) ==
    \A p \in undone : p \in DOMAIN pend /\ NotIn(n, lin, pend[p])
OfDone(pend, n, lin, st, done, val) ==
    \A p \in done : /\ p \in DOMAIN pend
                    /\ \E k \in 1..n : lin[k] = pend[p] /\ val[p] = st[k - 1]
OfLate(H, pend, n, lin, lates, dead) ==
    \A v \in lates : \E p \in dead : /\ p \in DOMAIN pend
                                     /\ NotIn(n, lin, pend[p])
                                     /\ InputIs(H, pend[p], WriteInput(v))

Explained(H, pend, reg, undone, done, val, lates, dead) ==
    \E n, lin, st : /\ Lin(H, n, lin, st, reg)
                    /\ OfUndone(pend, n, lin, undone)
                    /\ OfDone(pend, n, lin, st, done, val)
                    /\ OfLate(H, pend, n, lin, lates, dead)

LEMMA ExplainedWithLess ==
    ASSUME NEW H, NEW pend, NEW reg, NEW undone, NEW done, NEW val, NEW lates, NEW dead,
           NEW undone2, NEW done2, NEW val2, NEW lates2, NEW dead2,
           Explained(H, pend, reg, undone, done, val, lates, dead),
           undone2 \subseteq undone, done2 \subseteq done,
           \A p \in done2 : val2[p] = val[p],
           lates2 \subseteq lates, dead \subseteq dead2
    PROVE  Explained(H, pend, reg, undone2, done2, val2, lates2, dead2)
  <1>1. PICK n, lin, st : /\ Lin(H, n, lin, st, reg)
                          /\ OfUndone(pend, n, lin, undone)
                          /\ OfDone(pend, n, lin, st, done, val)
                          /\ OfLate(H, pend, n, lin, lates, dead)
    BY DEF Explained
  <1>2. OfUndone(pend, n, lin, undone2)
    BY <1>1 DEF OfUndone
  <1>3. OfDone(pend, n, lin, st, done2, val2)
    BY <1>1 DEF OfDone
  <1>4. OfLate(H, pend, n, lin, lates2, dead2)
    BY <1>1 DEF OfLate
  <1> QED
    BY <1>1, <1>2, <1>3, <1>4 DEF Explained

LEMMA ExplainedAfterCall ==
    ASSUME NEW H, NEW H2, NEW m, NEW e, NEW pend, NEW pend2, NEW next, NEW x,
           NEW reg, NEW undone, NEW done, NEW val, NEW lates, NEW dead,
           Longer(H, H2, m, e), e.kind = "call", e.id = next,
           Opened(pend, pend2, x, next), Numbers(H, pend, next), Numbered(H, next),
           Explained(H, pend, reg, undone, done, val, lates, dead)
    PROVE  Explained(H2, pend2, reg, undone \cup {x}, done, val, lates, dead)
  <1>1. PICK n, lin, st : /\ Lin(H, n, lin, st, reg)
                          /\ OfUndone(pend, n, lin, undone)
                          /\ OfDone(pend, n, lin, st, done, val)
                          /\ OfLate(H, pend, n, lin, lates, dead)
    BY DEF Explained
  <1>2. \A p \in DOMAIN H : H[p].id # e.id
    BY DEF Numbers, Numbered
  <1>3. Lin(H2, n, lin, st, reg)
    BY <1>1, <1>2, LinAfterCall
  <1>4. NotIn(n, lin, next)
    BY <1>1, <1>2 DEF Lin, LinCalled, NotIn, IsCall
  <1>5. OfUndone(pend2, n, lin, undone \cup {x})
    BY <1>1, <1>4 DEF OfUndone, Opened
  <1>6. OfDone(pend2, n, lin, st, done, val)
    BY <1>1 DEF OfDone, Opened
  <1>7. OfLate(H2, pend2, n, lin, lates, dead)
    <2>1. \A i, in : InputIs(H, i, in) => InputIs(H2, i, in)
      BY DEF InputIs, Longer, IsCall
    <2> QED
      BY <1>1, <2>1 DEF OfLate, Opened
  <1> QED
    BY <1>3, <1>5, <1>6, <1>7 DEF Explained

(* What the order becomes when the operation of x takes effect.             *)
EffectOf(n, lin, st, n2, lin2, st2, i, reg) ==
    /\ n \in Nat /\ n2 = n + 1 /\ lin2[n2] = i /\ st[n] = reg
    /\ \A k \in 1..n : lin2[k] = lin[k] /\ st2[k - 1] = st[k - 1]
    /\ st2[n] = st[n]

LEMMA EffectExists ==
    ASSUME NEW H, NEW pend, NEW next, NEW n, NEW lin, NEW st, NEW reg, NEW x, NEW in,
           Numbers(H, pend, next), GoodHistory(H, pend, next),
           x \in DOMAIN pend, InputIs(H, pend[x], in), in \in Inputs,
           NotIn(n, lin, pend[x]), Lin(H, n, lin, st, reg)
    PROVE  \E n2, lin2, st2 : /\ Lin(H, n2, lin2, st2, StepState(reg, in))
                              /\ EffectOf(n, lin, st, n2, lin2, st2, pend[x], reg)
  <1> DEFINE i == pend[x]
             lin2 == [k \in 1..(n + 1) |-> IF k = n + 1 THEN i ELSE lin[k]]
             st2 == [k \in 0..(n + 1) |-> IF k = n + 1 THEN StepState(reg, in) ELSE st[k]]
  <1>1. n \in Nat /\ reg \in States /\ st[n] = reg
    BY DEF Lin, LinTypes
  <1>2. StepState(reg, in) \in States
    BY <1>1, StepStateType
  <1>3. \A q \in DOMAIN H : ~IsReturn(H, q, i)
    BY DEF GoodHistory, OpenNotReturned
  <1>4. EachOnce(H) /\ i \in Nat
    BY DEF GoodHistory, Numbers
  <1>5. InputIs(H, i, in) /\ NotIn(n, lin, i)
    OBVIOUS
  <1>6. EffectOf(n, lin, st, n + 1, lin2, st2, i, reg)
    <2>1. /\ n + 1 \in 1..(n + 1) /\ n \in 0..(n + 1) /\ n # n + 1
          /\ \A k \in 1..n : /\ k \in 1..(n + 1) /\ k # n + 1
                             /\ k - 1 \in 0..(n + 1) /\ k - 1 # n + 1
      BY <1>1
    <2> HIDE DEF i
    <2> QED
      BY <1>1, <2>1, Zenon DEF EffectOf
  <1> HIDE DEF i
  <1>7. Lin(H, n + 1, lin2, st2, StepState(reg, in))
    BY <1>2, <1>3, <1>4, <1>5, LinAfterEffect
  <1> HIDE DEF lin2, st2
  <1> QED
    BY <1>6, <1>7 DEF i

LEMMA ExplainedAfterEffect ==
    ASSUME NEW H, NEW pend, NEW next, NEW x, NEW in,
           NEW reg, NEW undone, NEW done, NEW val, NEW val2, NEW lates, NEW dead,
           Numbers(H, pend, next), GoodHistory(H, pend, next),
           InputIs(H, pend[x], in), in \in Inputs,
           x \in undone, x \notin dead, val2[x] = reg,
           \A p \in done : val2[p] = val[p],
           Explained(H, pend, reg, undone, done, val, lates, dead)
    PROVE  Explained(H, pend, StepState(reg, in), undone \ {x}, done \cup {x},
                     val2, lates, dead)
  <1>1. PICK n, lin, st : /\ Lin(H, n, lin, st, reg)
                          /\ OfUndone(pend, n, lin, undone)
                          /\ OfDone(pend, n, lin, st, done, val)
                          /\ OfLate(H, pend, n, lin, lates, dead)
    BY DEF Explained
  <1>2. x \in DOMAIN pend /\ NotIn(n, lin, pend[x])
    BY <1>1 DEF OfUndone
  <1>3. PICK n2, lin2, st2 : /\ Lin(H, n2, lin2, st2, StepState(reg, in))
                             /\ EffectOf(n, lin, st, n2, lin2, st2, pend[x], reg)
    BY <1>1, <1>2, EffectExists
  <1>4. \A i : NotIn(n2, lin2, i) <=> NotIn(n, lin, i) /\ i # pend[x]
    <2>1. n \in Nat /\ n2 = n + 1 /\ lin2[n + 1] = pend[x] /\ \A k \in 1..n : lin2[k] = lin[k]
      BY <1>3 DEF EffectOf
    <2> QED
      BY <2>1, NotInLonger
  <1>5. \A p \in DOMAIN pend : p # x => pend[p] # pend[x]
    BY <1>2 DEF GoodHistory, OneOpen
  <1>6. OfUndone(pend, n2, lin2, undone \ {x})
    BY <1>1, <1>4, <1>5 DEF OfUndone
  <1>7. OfDone(pend, n2, lin2, st2, done \cup {x}, val2)
    <2>1. ASSUME NEW p \in done
          PROVE  p \in DOMAIN pend /\ \E k \in 1..n2 : lin2[k] = pend[p] /\ val2[p] = st2[k - 1]
      <3>1. PICK k \in 1..n : lin[k] = pend[p] /\ val[p] = st[k - 1]
        BY <1>1 DEF OfDone
      <3>2. k \in 1..n2 /\ lin2[k] = pend[p] /\ val2[p] = st2[k - 1]
        BY <1>3, <3>1 DEF EffectOf
      <3> QED
        BY <1>1, <3>2 DEF OfDone
    <2>2. \E k \in 1..n2 : lin2[k] = pend[x] /\ val2[x] = st2[k - 1]
      <3>1. n2 \in 1..n2 /\ lin2[n2] = pend[x] /\ val2[x] = st2[n2 - 1]
        BY <1>3 DEF EffectOf
      <3> QED
        BY <3>1
    <2> QED
      BY <1>2, <2>1, <2>2 DEF OfDone
  <1>8. OfLate(H, pend, n2, lin2, lates, dead)
    BY <1>1, <1>4, <1>5 DEF OfLate
  <1> QED
    BY <1>3, <1>6, <1>7, <1>8 DEF Explained

LEMMA ExplainedAfterFailure ==
    ASSUME NEW H, NEW pend, NEW x, NEW v, NEW reg, NEW undone, NEW done, NEW val,
           NEW lates, NEW dead, NEW dead2,
           x \in undone, InputIs(H, pend[x], WriteInput(v)),
           x \in dead2, dead \subseteq dead2,
           Explained(H, pend, reg, undone, done, val, lates, dead)
    PROVE  Explained(H, pend, reg, undone \ {x}, done, val, lates \cup {v}, dead2)
  <1>1. PICK n, lin, st : /\ Lin(H, n, lin, st, reg)
                          /\ OfUndone(pend, n, lin, undone)
                          /\ OfDone(pend, n, lin, st, done, val)
                          /\ OfLate(H, pend, n, lin, lates, dead)
    BY DEF Explained
  <1>2. OfUndone(pend, n, lin, undone \ {x})
    BY <1>1 DEF OfUndone
  <1>3. OfLate(H, pend, n, lin, lates \cup {v}, dead2)
    BY <1>1 DEF OfLate, OfUndone
  <1> QED
    BY <1>1, <1>2, <1>3 DEF Explained

LEMMA ExplainedAfterLate ==
    ASSUME NEW H, NEW pend, NEW next, NEW v \in Values,
           NEW reg, NEW undone, NEW done, NEW val, NEW lates, NEW dead,
           Numbers(H, pend, next), GoodHistory(H, pend, next),
           v \in lates, \A p \in dead : p \notin undone,
           Explained(H, pend, reg, undone, done, val, lates, dead)
    PROVE  Explained(H, pend, v, undone, done, val, lates \ {v}, dead)
  <1>1. PICK n, lin, st : /\ Lin(H, n, lin, st, reg)
                          /\ OfUndone(pend, n, lin, undone)
                          /\ OfDone(pend, n, lin, st, done, val)
                          /\ OfLate(H, pend, n, lin, lates, dead)
    BY DEF Explained
  <1>2. PICK x \in dead : /\ x \in DOMAIN pend /\ NotIn(n, lin, pend[x])
                          /\ InputIs(H, pend[x], WriteInput(v))
    BY <1>1 DEF OfLate
  <1>3. WriteInput(v) \in Inputs /\ StepState(reg, WriteInput(v)) = v
    <2>1. WriteInput(v) \in Inputs
      BY DEF Inputs
    <2>2. StepState(reg, WriteInput(v)) = v
      BY DEF StepState, WriteInput, Input
    <2> QED
      BY <2>1, <2>2
  <1>4. PICK n2, lin2, st2 : /\ Lin(H, n2, lin2, st2, v)
                             /\ EffectOf(n, lin, st, n2, lin2, st2, pend[x], reg)
    <2>1. \E n2, lin2, st2 : /\ Lin(H, n2, lin2, st2, StepState(reg, WriteInput(v)))
                             /\ EffectOf(n, lin, st, n2, lin2, st2, pend[x], reg)
      BY <1>1, <1>2, <1>3, EffectExists
    <2> QED
      BY <1>3, <2>1
  <1>5. \A i : NotIn(n2, lin2, i) <=> NotIn(n, lin, i) /\ i # pend[x]
    <2>1. n \in Nat /\ n2 = n + 1 /\ lin2[n + 1] = pend[x] /\ \A k \in 1..n : lin2[k] = lin[k]
      BY <1>4 DEF EffectOf
    <2> QED
      BY <2>1, NotInLonger
  <1>6. \A p \in DOMAIN pend : p # x => pend[p] # pend[x]
    BY <1>2 DEF GoodHistory, OneOpen
  <1>7. OfUndone(pend, n2, lin2, undone)
    BY <1>1, <1>5, <1>6 DEF OfUndone
  <1>8. OfDone(pend, n2, lin2, st2, done, val)
    <2>1. ASSUME NEW p \in done
          PROVE  p \in DOMAIN pend /\ \E k \in 1..n2 : lin2[k] = pend[p] /\ val[p] = st2[k - 1]
      <3>1. PICK k \in 1..n : lin[k] = pend[p] /\ val[p] = st[k - 1]
        BY <1>1 DEF OfDone
      <3>2. k \in 1..n2 /\ lin2[k] = pend[p] /\ val[p] = st2[k - 1]
        BY <1>4, <3>1 DEF EffectOf
      <3> QED
        BY <1>1, <3>2 DEF OfDone
    <2> QED
      BY <2>1 DEF OfDone
  <1>9. OfLate(H, pend, n2, lin2, lates \ {v}, dead)
    <2> SUFFICES ASSUME NEW w \in lates, w # v
                 PROVE  \E p \in dead : /\ p \in DOMAIN pend /\ NotIn(n2, lin2, pend[p])
                                        /\ InputIs(H, pend[p], WriteInput(w))
      BY DEF OfLate
    <2>1. PICK y \in dead : /\ y \in DOMAIN pend /\ NotIn(n, lin, pend[y])
                            /\ InputIs(H, pend[y], WriteInput(w))
      BY <1>1 DEF OfLate
    <2>2. WriteInput(w) # WriteInput(v)
      BY DEF WriteInput, Input
    <2>3. y # x
      BY <1>2, <2>1, <2>2 DEF InputIs, IsCall, GoodHistory, EachOnce
    <2> QED
      BY <1>5, <1>6, <2>1, <2>3
  <1> QED
    BY <1>4, <1>7, <1>8, <1>9 DEF Explained

LEMMA OthersStay ==
    ASSUME NEW H, NEW H2, NEW m, NEW e, NEW pend, NEW pend2, NEW x,
           NEW n, NEW lin, NEW st, NEW undone, NEW done, NEW val, NEW lates, NEW dead,
           Longer(H, H2, m, e), Closed(pend, pend2, x), x \notin undone, x \notin dead,
           OfUndone(pend, n, lin, undone),
           OfDone(pend, n, lin, st, done, val),
           OfLate(H, pend, n, lin, lates, dead)
    PROVE  /\ OfUndone(pend2, n, lin, undone)
           /\ OfDone(pend2, n, lin, st, done \ {x}, val)
           /\ OfLate(H2, pend2, n, lin, lates, dead)
  <1>1. OfUndone(pend2, n, lin, undone)
    BY DEF OfUndone, Closed
  <1>2. OfDone(pend2, n, lin, st, done \ {x}, val)
    BY DEF OfDone, Closed
  <1>3. OfLate(H2, pend2, n, lin, lates, dead)
    <2>1. \A i, in : InputIs(H, i, in) => InputIs(H2, i, in)
      BY DEF InputIs, Longer, IsCall
    <2> QED
      BY <2>1 DEF OfLate, Closed
  <1> QED
    BY <1>1, <1>2, <1>3

LEMMA ExplainedAfterAnswer ==
    ASSUME NEW H, NEW H2, NEW m, NEW e, NEW pend, NEW pend2, NEW next, NEW x,
           NEW reg, NEW undone, NEW done, NEW val, NEW lates, NEW dead,
           Longer(H, H2, m, e), e.kind = "return", e.id = pend[x],
           Closed(pend, pend2, x), GoodHistory(H, pend, next),
           x \in done, x \notin undone, x \notin dead,
           MayReturn(H, pend[x], val[x], e.value),
           Explained(H, pend, reg, undone, done, val, lates, dead)
    PROVE  Explained(H2, pend2, reg, undone, done \ {x}, val, lates, dead)
  <1>1. PICK n, lin, st : /\ Lin(H, n, lin, st, reg)
                          /\ OfUndone(pend, n, lin, undone)
                          /\ OfDone(pend, n, lin, st, done, val)
                          /\ OfLate(H, pend, n, lin, lates, dead)
    BY DEF Explained
  <1>2. PICK k \in 1..n : lin[k] = e.id /\ val[x] = st[k - 1]
    BY <1>1 DEF OfDone
  <1>3. \A q \in DOMAIN H : ~IsReturn(H, q, e.id)
    BY DEF GoodHistory, OpenNotReturned, Closed
  <1>4. EachOnce(H) /\ MayReturn(H, e.id, st[k - 1], e.value)
    BY <1>2 DEF GoodHistory
  <1>5. Lin(H2, n, lin, st, reg)
    BY <1>1, <1>2, <1>3, <1>4, LinAfterReturn
  <1>6. /\ OfUndone(pend2, n, lin, undone)
        /\ OfDone(pend2, n, lin, st, done \ {x}, val)
        /\ OfLate(H2, pend2, n, lin, lates, dead)
    BY <1>1, OthersStay
  <1> QED
    BY <1>5, <1>6 DEF Explained

LEMMA ExplainedAfterTimeout ==
    ASSUME NEW H, NEW H2, NEW m, NEW e, NEW pend, NEW pend2, NEW next, NEW x,
           NEW reg, NEW undone, NEW done, NEW val, NEW lates, NEW dead,
           Numbers(H, pend, next), Longer(H, H2, m, e), e.kind = "return", e.id = pend[x],
           e.value = UnknownOutput, InputIs(H, pend[x], ReadInput),
           Closed(pend, pend2, x), GoodHistory(H, pend, next),
           x \notin undone, x \notin done, x \notin dead,
           Explained(H, pend, reg, undone, done, val, lates, dead)
    PROVE  Explained(H2, pend2, reg, undone, done, val, lates, dead)
  <1>0. x \in DOMAIN pend /\ ReadInput \in Inputs
    BY DEF Closed, Inputs
  <1>1. \A s : StepState(s, ReadInput) = s /\ StepOK(s, ReadInput, UnknownOutput)
    BY DEF StepState, StepOK, ReadInput, Input, UnknownOutput, Output
  <1>2. \A s : MayReturn(H, e.id, s, e.value)
    BY <1>1 DEF MayReturn, InputIs, IsCall, GoodHistory, EachOnce
  <1>3. \A q \in DOMAIN H : ~IsReturn(H, q, e.id)
    BY <1>0 DEF GoodHistory, OpenNotReturned
  <1>4. \A p \in DOMAIN pend : p # x => pend[p] # pend[x]
    BY <1>0 DEF GoodHistory, OneOpen
  <1>5. PICK n, lin, st : /\ Lin(H, n, lin, st, reg)
                          /\ OfUndone(pend, n, lin, undone)
                          /\ OfDone(pend, n, lin, st, done, val)
                          /\ OfLate(H, pend, n, lin, lates, dead)
    BY DEF Explained
  <1>6. EachOnce(H) /\ done \ {x} = done
    BY DEF GoodHistory
  <1>7. CASE \E k \in 1..n : lin[k] = pend[x]
    <2>1. PICK k \in 1..n : lin[k] = e.id
      BY <1>7
    <2>2. Lin(H2, n, lin, st, reg)
      BY <1>2, <1>3, <1>5, <1>6, <2>1, LinAfterReturn
    <2>3. /\ OfUndone(pend2, n, lin, undone)
          /\ OfDone(pend2, n, lin, st, done \ {x}, val)
          /\ OfLate(H2, pend2, n, lin, lates, dead)
      BY <1>5, OthersStay
    <2> QED
      BY <1>6, <2>2, <2>3 DEF Explained
  <1>8. CASE NotIn(n, lin, pend[x])
    <2>1. PICK n2, lin2, st2 : /\ Lin(H, n2, lin2, st2, StepState(reg, ReadInput))
                               /\ EffectOf(n, lin, st, n2, lin2, st2, pend[x], reg)
      BY <1>0, <1>5, <1>8, EffectExists
    <2>2. Lin(H, n2, lin2, st2, reg) /\ n2 \in 1..n2 /\ lin2[n2] = e.id
      BY <1>1, <2>1 DEF EffectOf
    <2>3. Lin(H2, n2, lin2, st2, reg)
      BY <1>2, <1>3, <1>6, <2>2, LinAfterReturn
    <2>4. \A i : NotIn(n2, lin2, i) <=> NotIn(n, lin, i) /\ i # pend[x]
      <3>1. n \in Nat /\ n2 = n + 1 /\ lin2[n + 1] = pend[x] /\ \A k \in 1..n : lin2[k] = lin[k]
        BY <2>1 DEF EffectOf
      <3> QED
        BY <3>1, NotInLonger
    <2>5. OfUndone(pend, n2, lin2, undone)
      BY <1>4, <1>5, <2>4 DEF OfUndone
    <2>6. OfDone(pend, n2, lin2, st2, done, val)
      <3>1. ASSUME NEW p \in done
            PROVE  p \in DOMAIN pend /\ \E k \in 1..n2 : lin2[k] = pend[p] /\ val[p] = st2[k - 1]
        <4>1. PICK k \in 1..n : lin[k] = pend[p] /\ val[p] = st[k - 1]
          BY <1>5 DEF OfDone
        <4>2. k \in 1..n2 /\ lin2[k] = pend[p] /\ val[p] = st2[k - 1]
          BY <2>1, <4>1 DEF EffectOf
        <4> QED
          BY <1>5, <4>2 DEF OfDone
      <3> QED
        BY <3>1 DEF OfDone
    <2>7. OfLate(H, pend, n2, lin2, lates, dead)
      BY <1>4, <1>5, <2>4 DEF OfLate
    <2>8. /\ OfUndone(pend2, n2, lin2, undone)
          /\ OfDone(pend2, n2, lin2, st2, done \ {x}, val)
          /\ OfLate(H2, pend2, n2, lin2, lates, dead)
      BY <2>5, <2>6, <2>7, OthersStay
    <2> QED
      BY <1>6, <2>3, <2>8 DEF Explained
  <1> QED
    BY <1>7, <1>8 DEF NotIn

-----------------------------------------------------------------------------
(* The inductive invariant.                                                *)

Operations == {ReadOp} \cup {WriteOp(v) : v \in Values}
Places     == {"none", "connect", "call", "failed", "flagged", "stopped", "recorded"}
Effects    == [done : BOOLEAN, value : States]

Types ==
    /\ log \in Seq(LogEvents)
    /\ value \in Nat /\ 1 <= value /\ value <= Started + 1
    /\ loop \in {"ticker", "select", "start", "ended"}
    /\ loop = "start" => chosen \in Processes \X Operations
    /\ idle \in [Processes -> BOOLEAN] /\ stopped \in [Processes -> BOOLEAN]
    /\ pc \in [Processes -> Places]
    /\ op \in [Processes -> Operations]
    /\ stopping \in {"no", "cancelled", "closing", "pool", "done"}
    /\ toClose \subseteq Processes
    /\ register \in States
    /\ effect \in [Processes -> Effects]
    /\ late \subseteq Values

StartsNow(p) == loop = "start" /\ chosen[1] = p

FlagsInv ==
    /\ \A p \in Processes :
          /\ idle[p] <=> pc[p] = "none"
          /\ pc[p] \in {"none", "connect"} => ~effect[p].done
          /\ pc[p] \in {"flagged", "stopped"} => stopped[p]
          /\ StartsNow(p) => pc[p] = "none" /\ ~stopped[p]

\* Stop has set the flag of p and is about to close its pool.
Closing(p) == stopping = "pool" /\ InTurn(p)

MayBeOpen(o) ==
    IF o = Coord THEN stopping \in {"no", "cancelled"}
    ELSE stopped[o] => pc[o] = "flagged" \/ Closing(o)

\* A stopped process whose pool nobody is about to close has no connection, and
\* dials no more: it is given no operation, and what it carries out has failed
\* or is cancelled.
ConnectionsInv ==
    /\ \A p \in Processes : /\ stopped[p] /\ pc[p] = "connect" => Cancelled
                            /\ Closing(p) => stopped[p]
    /\ \A c \in open : c[1] \in Owners /\ MayBeOpen(c[1])
    /\ stopping \in {"closing", "pool", "done"} =>
          /\ loop = "ended"
          /\ \A p \in Processes \ toClose : stopped[p]
    /\ stopping = "done" => toClose = {}

Busy(p) == pc[p] \in {"connect", "call", "failed", "flagged", "stopped"}

Parsed == ParseLines(log)

HasOpen(acc, p, in) == p \in DOMAIN acc.open /\ InputIs(acc.events, acc.open[p], in)

\* A process has an open call while it is busy, and for good after a failed
\* write.
OpenInv ==
    /\ \A p \in Processes : Busy(p) => HasOpen(Parsed, p, InputOf(op[p]))
    /\ loop = "start" => HasOpen(Parsed, chosen[1], InputOf(chosen[2]))
    /\ \A p \in DOMAIN Parsed.open : Busy(p) \/ stopped[p] \/ StartsNow(p)

Undone == {p \in Processes : \/ pc[p] \in {"connect", "call"} /\ ~effect[p].done
                             \/ StartsNow(p)}
Done   == {p \in Processes : pc[p] = "call" /\ effect[p].done}
Seen   == [p \in Processes |-> effect[p].value]
Dead   == {p \in Processes : \/ pc[p] \in {"failed", "flagged", "stopped"} /\ op[p].type = "write"
                             \/ pc[p] \in {"recorded", "none"} /\ stopped[p]}

ExplainedBy(acc, reg, undone, done, val, lates, dead) ==
    Explained(acc.events, acc.open, reg, undone, done, val, lates, dead)

HistoryInv ==
    /\ GoodAcc(Parsed)
    /\ OpenInv
    /\ ExplainedBy(Parsed, register, Undone, Done, Seen, late, Dead)

StateInv == Types /\ FlagsInv /\ ConnectionsInv
IInv == StateInv /\ HistoryInv

-----------------------------------------------------------------------------
(* The lines that the processes write, as the parser reads them.           *)

Keeps(acc, acc2, p) == \A in : HasOpen(acc, p, in) => HasOpen(acc2, p, in)

LEMMA LongerByOne ==
    ASSUME NEW H \in Seq(HistoryEvents), NEW e
    PROVE  Longer(H, Append(H, e), Len(H), e)
  <1> QED
    BY AppendProperties DEF Longer

LEMMA InvokedLine ==
    ASSUME NEW acc, GoodAcc(acc), NEW e \in LogEvents, e.result = "invoked",
           e.id \notin DOMAIN acc.open
    PROVE  LET acc2 == ParseLine(acc, e)
           IN  /\ Longer(acc.events, acc2.events, Len(acc.events), Call(acc.next, InputOf(e)))
               /\ Opened(acc.open, acc2.open, e.id, acc.next)
               /\ acc2.next = acc.next + 1
  <1> DEFINE acc2 == ParseLine(acc, e)
  <1>1. acc.events \in Seq(HistoryEvents)
    BY GoodNumbers
  <1>2. acc2 = [events |-> Append(acc.events, Call(acc.next, InputOf(e))),
                open |-> [p \in DOMAIN acc.open \cup {e.id} |->
                            IF p = e.id THEN acc.next ELSE acc.open[p]],
                next |-> acc.next + 1]
    BY Zenon DEF ParseLine
  <1> HIDE DEF acc2
  <1>3. acc2.events = Append(acc.events, Call(acc.next, InputOf(e))) /\ acc2.next = acc.next + 1
    BY <1>2
  <1>4. Opened(acc.open, acc2.open, e.id, acc.next)
    BY <1>2 DEF Opened
  <1> QED
    BY <1>1, <1>3, <1>4, LongerByOne DEF acc2

LEMMA MatchedLine ==
    ASSUME NEW acc, GoodAcc(acc), NEW e \in LogEvents, e.result # "invoked",
           IsMatched(e), e.id \in DOMAIN acc.open
    PROVE  LET acc2 == ParseLine(acc, e)
           IN  /\ Longer(acc.events, acc2.events, Len(acc.events),
                         Return(acc.open[e.id], OutputOf(e)))
               /\ Closed(acc.open, acc2.open, e.id)
               /\ acc2.next = acc.next
  <1> DEFINE acc2 == ParseLine(acc, e)
             id == IF e.id \in DOMAIN acc.open THEN acc.open[e.id] ELSE 0
  <1>1. /\ acc.events \in Seq(HistoryEvents)
        /\ acc = [events |-> acc.events, open |-> acc.open, next |-> acc.next]
    BY GoodNumbers DEF GoodAcc, Accs
  <1>2. acc2 = [acc EXCEPT !.events = Append(@, Return(id, OutputOf(e))),
                           !.open = [p \in DOMAIN @ \ {e.id} |-> @[p]]]
    BY Zenon DEF ParseLine
  <1>3. id = acc.open[e.id]
    OBVIOUS
  <1> HIDE DEF acc2, id
  <1>4. acc2 = [events |-> Append(acc.events, Return(id, OutputOf(e))),
                open |-> [p \in DOMAIN acc.open \ {e.id} |-> acc.open[p]],
                next |-> acc.next]
    BY <1>1, <1>2
  <1>5. acc2.events = Append(acc.events, Return(id, OutputOf(e))) /\ acc2.next = acc.next
    BY <1>4
  <1>6. Closed(acc.open, acc2.open, e.id)
    BY <1>4 DEF Closed
  <1> QED
    BY <1>1, <1>3, <1>5, <1>6, LongerByOne DEF acc2

LEMMA UnmatchedLine ==
    ASSUME NEW acc, NEW e, e.result = "failed", e.type = "write"
    PROVE  ParseLine(acc, e) = acc
  <1>1. ~IsMatched(e) /\ e.result # "invoked"
    BY DEF IsMatched
  <1> QED
    BY <1>1, Zenon DEF ParseLine

LEMMA InputsStay ==
    ASSUME NEW H, NEW H2, NEW n, NEW e, Longer(H, H2, n, e), NEW i, NEW in, InputIs(H, i, in)
    PROVE  InputIs(H2, i, in)
  <1> QED
    BY DEF InputIs, Longer, IsCall

(* The line of an invocation.                                               *)
LEMMA ParseInvoked ==
    ASSUME NEW acc, NEW acc2, NEW e, GoodAcc(acc), e \in LogEvents, e.result = "invoked",
           e.id \notin DOMAIN acc.open, acc2 = ParseLine(acc, e),
           NEW reg, NEW undone, NEW done, NEW val, NEW lates, NEW dead,
           ExplainedBy(acc, reg, undone, done, val, lates, dead)
    PROVE  /\ GoodAcc(acc2)
           /\ ExplainedBy(acc2, reg, undone \cup {e.id}, done, val, lates, dead)
           /\ HasOpen(acc2, e.id, InputOf(e))
           /\ DOMAIN acc2.open = DOMAIN acc.open \cup {e.id}
           /\ \A p : Keeps(acc, acc2, p)
  <1> DEFINE H == acc.events
             n == Len(acc.events)
             ev == Call(acc.next, InputOf(e))
  <1>1. /\ Longer(H, acc2.events, n, ev) /\ Opened(acc.open, acc2.open, e.id, acc.next)
        /\ acc2.next = acc.next + 1
    BY InvokedLine
  <1>2. ev.kind = "call" /\ ev.id = acc.next /\ ev.value = InputOf(e)
    BY DEF Call
  <1>3. Numbers(H, acc.open, acc.next) /\ GoodHistory(H, acc.open, acc.next)
    BY GoodNumbers DEF GoodAcc
  <1>4. acc2 \in Accs
    BY ParseLineType DEF GoodAcc
  <1>5. Numbered(H, acc.next)
    BY <1>3 DEF GoodHistory
  <1> HIDE DEF H, n, ev
  <1>6. GoodAcc(acc2)
    BY <1>1, <1>2, <1>3, <1>4, GoodAfterCall DEF GoodAcc
  <1>7. ExplainedBy(acc2, reg, undone \cup {e.id}, done, val, lates, dead)
    BY <1>1, <1>2, <1>3, <1>5, ExplainedAfterCall DEF ExplainedBy, H
  <1>8. HasOpen(acc2, e.id, InputOf(e))
    <2>1. n + 1 \in DOMAIN acc2.events /\ acc2.events[n + 1] = ev
      BY <1>1 DEF Longer
    <2>2. InputIs(acc2.events, acc.next, InputOf(e))
      BY <1>2, <2>1 DEF InputIs, IsCall
    <2> QED
      BY <1>1, <2>2 DEF HasOpen, Opened
  <1>9. ASSUME NEW p PROVE Keeps(acc, acc2, p)
    <2> SUFFICES ASSUME NEW in, HasOpen(acc, p, in) PROVE HasOpen(acc2, p, in)
      BY DEF Keeps
    <2>1. p \in DOMAIN acc.open /\ InputIs(H, acc.open[p], in)
      BY DEF HasOpen, H
    <2>2. InputIs(acc2.events, acc.open[p], in)
      BY <1>1, <2>1, InputsStay
    <2> QED
      BY <1>1, <2>1, <2>2 DEF HasOpen, Opened
  <1> QED
    BY <1>1, <1>6, <1>7, <1>8, <1>9 DEF Opened

(* The line of an answer: what p saw is what it returns.                    *)
Answers(o, seen, out) ==
    \/ InputOf(o) = ReadInput /\ out = ReadOutput(seen)
    \/ \E v \in Values : InputOf(o) = WriteInput(v)

LEMMA ParseCompleted ==
    ASSUME NEW acc, NEW acc2, NEW e, GoodAcc(acc), e \in LogEvents, e.result = "completed",
           acc2 = ParseLine(acc, e), NEW o, HasOpen(acc, e.id, InputOf(o)),
           NEW reg, NEW undone, NEW done, NEW val, NEW lates, NEW dead,
           Answers(o, val[e.id], OutputOf(e)),
           e.id \in done, e.id \notin undone, e.id \notin dead,
           ExplainedBy(acc, reg, undone, done, val, lates, dead)
    PROVE  /\ GoodAcc(acc2)
           /\ ExplainedBy(acc2, reg, undone, done \ {e.id}, val, lates, dead)
           /\ DOMAIN acc2.open = DOMAIN acc.open \ {e.id}
           /\ \A p : p # e.id => Keeps(acc, acc2, p)
  <1> DEFINE H == acc.events
             n == Len(acc.events)
             ev == Return(acc.open[e.id], OutputOf(e))
  <1>0. IsMatched(e) /\ e.id \in DOMAIN acc.open /\ e.result # "invoked"
    BY DEF IsMatched, HasOpen
  <1>1. /\ Longer(H, acc2.events, n, ev) /\ Closed(acc.open, acc2.open, e.id)
        /\ acc2.next = acc.next
    BY <1>0, MatchedLine
  <1>2. ev.kind = "return" /\ ev.id = acc.open[e.id] /\ ev.value = OutputOf(e)
    BY DEF Return
  <1>3. Numbers(H, acc.open, acc.next) /\ GoodHistory(H, acc.open, acc.next)
    BY GoodNumbers DEF GoodAcc
  <1>4. acc2 \in Accs
    BY ParseLineType DEF GoodAcc
  <1>5. MayReturn(H, acc.open[e.id], val[e.id], ev.value)
    <2>1. InputIs(H, acc.open[e.id], InputOf(o))
      BY DEF HasOpen
    <2>2. \A c \in DOMAIN H : IsCall(H, c, acc.open[e.id]) => H[c].value = InputOf(o)
      BY <1>3, <2>1 DEF InputIs, IsCall, GoodHistory, EachOnce
    <2>3. StepOK(val[e.id], InputOf(o), OutputOf(e))
      <3>1. \A s : StepOK(s, ReadInput, ReadOutput(s))
        BY DEF StepOK, ReadInput, Input, ReadOutput, Output
      <3>2. \A s, v, out : StepOK(s, WriteInput(v), out)
        BY DEF StepOK, WriteInput, Input
      <3> QED
        BY <3>1, <3>2 DEF Answers
    <2> QED
      BY <1>2, <2>2, <2>3 DEF MayReturn
  <1> HIDE DEF H, n, ev
  <1>6. GoodAcc(acc2)
    BY <1>1, <1>2, <1>3, <1>4, GoodAfterReturn DEF GoodAcc
  <1>7. ExplainedBy(acc2, reg, undone, done \ {e.id}, val, lates, dead)
    BY <1>1, <1>2, <1>3, <1>5, ExplainedAfterAnswer DEF ExplainedBy, H
  <1>8. ASSUME NEW p, p # e.id PROVE Keeps(acc, acc2, p)
    <2> SUFFICES ASSUME NEW in, HasOpen(acc, p, in) PROVE HasOpen(acc2, p, in)
      BY DEF Keeps
    <2>1. p \in DOMAIN acc.open /\ InputIs(H, acc.open[p], in)
      BY DEF HasOpen, H
    <2>2. InputIs(acc2.events, acc.open[p], in)
      BY <1>1, <2>1, InputsStay
    <2> QED
      BY <1>1, <1>8, <2>1, <2>2 DEF HasOpen, Closed
  <1> QED
    BY <1>1, <1>6, <1>7, <1>8 DEF Closed

(* The line of a read that failed.                                          *)
LEMMA ParseTimedOut ==
    ASSUME NEW acc, NEW acc2, NEW e, GoodAcc(acc), e \in LogEvents,
           e.result = "failed", e.type = "read",
           acc2 = ParseLine(acc, e), HasOpen(acc, e.id, ReadInput),
           NEW reg, NEW undone, NEW done, NEW val, NEW lates, NEW dead,
           e.id \notin undone, e.id \notin done, e.id \notin dead,
           ExplainedBy(acc, reg, undone, done, val, lates, dead)
    PROVE  /\ GoodAcc(acc2)
           /\ ExplainedBy(acc2, reg, undone, done, val, lates, dead)
           /\ DOMAIN acc2.open = DOMAIN acc.open \ {e.id}
           /\ \A p : p # e.id => Keeps(acc, acc2, p)
  <1> DEFINE H == acc.events
             n == Len(acc.events)
             ev == Return(acc.open[e.id], OutputOf(e))
  <1>0. IsMatched(e) /\ e.id \in DOMAIN acc.open /\ e.result # "invoked"
        /\ OutputOf(e) = UnknownOutput
    BY DEF IsMatched, HasOpen, OutputOf
  <1>1. /\ Longer(H, acc2.events, n, ev) /\ Closed(acc.open, acc2.open, e.id)
        /\ acc2.next = acc.next
    BY <1>0, MatchedLine
  <1>2. ev.kind = "return" /\ ev.id = acc.open[e.id] /\ ev.value = UnknownOutput
    BY <1>0 DEF Return
  <1>3. Numbers(H, acc.open, acc.next) /\ GoodHistory(H, acc.open, acc.next)
    BY GoodNumbers DEF GoodAcc
  <1>4. acc2 \in Accs
    BY ParseLineType DEF GoodAcc
  <1>5. InputIs(H, acc.open[e.id], ReadInput)
    BY DEF HasOpen
  <1> HIDE DEF H, n, ev
  <1>6. GoodAcc(acc2)
    BY <1>1, <1>2, <1>3, <1>4, GoodAfterReturn DEF GoodAcc
  <1>7. ExplainedBy(acc2, reg, undone, done, val, lates, dead)
    BY <1>1, <1>2, <1>3, <1>5, ExplainedAfterTimeout DEF ExplainedBy, H
  <1>8. ASSUME NEW p, p # e.id PROVE Keeps(acc, acc2, p)
    <2> SUFFICES ASSUME NEW in, HasOpen(acc, p, in) PROVE HasOpen(acc2, p, in)
      BY DEF Keeps
    <2>1. p \in DOMAIN acc.open /\ InputIs(H, acc.open[p], in)
      BY DEF HasOpen, H
    <2>2. InputIs(acc2.events, acc.open[p], in)
      BY <1>1, <2>1, InputsStay
    <2> QED
      BY <1>1, <1>8, <2>1, <2>2 DEF HasOpen, Closed
  <1> QED
    BY <1>1, <1>6, <1>7, <1>8 DEF Closed

-----------------------------------------------------------------------------
(* The state of the coordinator, the processes and the connections.         *)

InvokedIn(l) == Cardinality({k \in DOMAIN l : l[k].result = "invoked"})

LEMMA InvokedCount ==
    ASSUME NEW l \in Seq(LogEvents), NEW e \in LogEvents
    PROVE  /\ Append(l, e) \in Seq(LogEvents)
           /\ InvokedIn(l) \in Nat
           /\ InvokedIn(Append(l, e)) =
                 IF e.result = "invoked" THEN InvokedIn(l) + 1 ELSE InvokedIn(l)
  <1> DEFINE I(s) == {k \in DOMAIN s : s[k].result = "invoked"}
             n == Len(l)
             l2 == Append(l, e)
  <1>1. /\ n \in Nat /\ l2 \in Seq(LogEvents) /\ DOMAIN l = 1..n /\ DOMAIN l2 = 1..(n + 1)
        /\ \A k \in 1..n : l2[k] = l[k]
        /\ l2[n + 1] = e
    BY AppendProperties
  <1> HIDE DEF n, l2
  <1>2. IsFiniteSet(I(l)) /\ Cardinality(I(l)) \in Nat
    <2>1. I(l) \in SUBSET Nat /\ \A k \in I(l) : k <= n
      BY <1>1
    <2> HIDE DEF I
    <2>2. IsFiniteSet(I(l))
      BY <1>1, <2>1, FS_BoundedSetOfNaturals
    <2> QED
      BY <2>2, FS_CardinalityType
  <1>3. CASE e.result = "invoked"
    <2>1. I(l2) = I(l) \cup {n + 1} /\ n + 1 \notin I(l)
      BY <1>1, <1>3
    <2> HIDE DEF I
    <2>2. Cardinality(I(l2)) = Cardinality(I(l)) + 1
      BY <1>2, <2>1, FS_AddElement
    <2> QED
      BY <1>1, <1>2, <1>3, <2>2 DEF InvokedIn, I, l2
  <1>4. CASE e.result # "invoked"
    <2>1. I(l2) = I(l)
      BY <1>1, <1>4
    <2> HIDE DEF I
    <2> QED
      BY <1>1, <1>2, <1>4, <2>1 DEF InvokedIn, I, l2
  <1> QED
    BY <1>3, <1>4

LEMMA OperationType ==
    ASSUME NEW o \in Operations
    PROVE  /\ o.type \in {"read", "write"} /\ o.value \in States
           /\ o.type = "write" => o.value \in Values /\ InputOf(o) = WriteInput(o.value)
           /\ o.type = "read" => InputOf(o) = ReadInput
  <1> QED
    BY DEF Operations, ReadOp, WriteOp, States, InputOf

LEMMA EventType ==
    ASSUME NEW o \in Operations, NEW p \in Processes, NEW v \in States,
           NEW result \in {"invoked", "completed", "failed"},
           result = "invoked" => v = o.value
    PROVE  /\ Event(o, result, p, v) \in LogEvents
           /\ Event(o, result, p, v).result = result
           /\ Event(o, result, p, v).id = p
           /\ Event(o, result, p, v).type = o.type
           /\ Event(o, result, p, v).value = v
  <1>1. o.type \in {"read", "write"} /\ (o.type = "write" => o.value \in Values)
    BY OperationType
  <1> QED
    BY <1>1 DEF Event, LogEvents

LEMMA StateInit == Init => StateInv
  <1> SUFFICES ASSUME Init PROVE StateInv
    OBVIOUS
  <1>1. Types
    <2>1. log \in Seq(LogEvents) /\ Started \in Nat /\ Started = 0
      <3>1. log = <<>> /\ {k \in DOMAIN log : log[k].result = "invoked"} = {}
        BY DEF Init
      <3> QED
        BY <3>1, FS_EmptySet DEF Started
    <2>2. ReadOp \in Operations /\ NilValue \in States /\ NoEffect \in Effects
      BY DEF Operations, States, NoEffect, Effects
    <2> QED
      BY <2>1, <2>2 DEF Init, Types, Places
  <1>2. FlagsInv
    BY DEF Init, FlagsInv, NoEffect, StartsNow
  <1>3. ConnectionsInv
    BY DEF Init, ConnectionsInv, Closing
  <1> QED
    BY <1>1, <1>2, <1>3 DEF StateInv

(* Steps that leave most of the state as it was.                            *)
LEMMA TypesOfLoop ==
    ASSUME Types, log' = log, value' = value
    PROVE  log' \in Seq(LogEvents) /\ value' \in Nat /\ 1 <= value' /\ value' <= Started' + 1
  <1> QED
    BY DEF Types, Started

LEMMA CoordinatorState ==
    ASSUME StateInv, Coordinator PROVE StateInv'
  <1> USE DEF StateInv
  <1>1. CASE EndLoop
    <2>1. Types'
      BY <1>1, TypesOfLoop DEF EndLoop, Types, logVars, flagVars, procVars, stopVars, serviceVars
    <2>2. FlagsInv'
      BY <1>1 DEF EndLoop, FlagsInv, StartsNow, logVars, flagVars, procVars, stopVars, serviceVars
    <2>3. ConnectionsInv'
      BY <1>1 DEF EndLoop, ConnectionsInv, MayBeOpen, Closing, InTurn, Cancelled, logVars, flagVars, procVars, stopVars, serviceVars
    <2> QED
      BY <2>1, <2>2, <2>3
  <1>2. CASE TargetFound
    <2>1. Types'
      BY <1>2, TypesOfLoop DEF TargetFound, Types, logVars, flagVars, procVars, stopVars, serviceVars
    <2>2. FlagsInv'
      BY <1>2 DEF TargetFound, FlagsInv, StartsNow, logVars, flagVars, procVars, stopVars, serviceVars
    <2>3. ConnectionsInv'
      BY <1>2, RecorderAssumption DEF TargetFound, Connect, Owners, Types, ConnectionsInv, MayBeOpen, Closing, InTurn, Cancelled, flagVars, procVars, stopVars
    <2> QED
      BY <2>1, <2>2, <2>3
  <1>3. CASE TargetNotFound
    <2>1. open' \subseteq open \cup {<<Coord, Drummer>>} /\ loop # "ended"
      BY <1>3 DEF TargetNotFound, Connect, CloseConnection
    <2>2. Types'
      BY <1>3, TypesOfLoop DEF TargetNotFound, Types, logVars, loopVars, flagVars, procVars, stopVars, serviceVars
    <2>3. FlagsInv'
      BY <1>3 DEF TargetNotFound, FlagsInv, StartsNow, loopVars, flagVars, procVars, serviceVars
    <2>4. ConnectionsInv'
      BY <1>3, <2>1, RecorderAssumption DEF TargetNotFound, Owners, Types, ConnectionsInv, MayBeOpen, Closing, InTurn, Cancelled, loopVars, flagVars, procVars, stopVars
    <2> QED
      BY <2>2, <2>3, <2>4
  <1>4. CASE EndPass
    <2>1. Types'
      BY <1>4, TypesOfLoop DEF EndPass, Types, logVars, flagVars, procVars, stopVars, serviceVars
    <2>2. FlagsInv'
      BY <1>4 DEF EndPass, FlagsInv, StartsNow, flagVars, procVars, serviceVars
    <2>3. ConnectionsInv'
      BY <1>4 DEF EndPass, ConnectionsInv, MayBeOpen, Closing, InTurn, Cancelled, flagVars, procVars, stopVars
    <2> QED
      BY <2>1, <2>2, <2>3
  <1>5. ASSUME NEW p \in Processes, Invoke(p) PROVE StateInv'
    <2>1. PICK o \in {ReadOp, WriteOp(value)} :
             /\ o.type = "write" => value <= MaxWrites
             /\ Record(o, "invoked", p, o.value) /\ chosen' = <<p, o>>
             /\ value' = IF o.type = "write" THEN value + 1 ELSE value
      BY <1>5 DEF Invoke
    <2>2. o = ReadOp \/ (o = WriteOp(value) /\ value \in Values)
      <3>1. Event(ReadOp, "invoked", p, ReadOp.value) \in LogEvents
        <4>1. ReadOp \in Operations
          BY DEF Operations
        <4> QED
          BY <4>1, OperationType, EventType
      <3>2. Started \in Nat
        BY <3>1, InvokedCount DEF Types, Started, InvokedIn
      <3>3. value \in Nat /\ 1 <= value /\ value <= Started + 1 /\ Started < MaxOps
        BY <1>5 DEF Invoke, Types
      <3>4. value <= MaxWrites => value \in Values
        BY <3>2, <3>3, OpsAssumption
      <3> QED
        BY <2>1, <3>4 DEF WriteOp
    <2>3. o \in Operations /\ o.value \in States
      BY <2>1, <2>2, OperationType DEF Operations
    <2> DEFINE e == Event(o, "invoked", p, o.value)
    <2>4. e \in LogEvents /\ e.result = "invoked"
      BY <2>3, EventType
    <2>5. log' = Append(log, e)
      BY <2>1 DEF Record
    <2> HIDE DEF e
    <2>6. log' \in Seq(LogEvents) /\ Started' = Started + 1 /\ Started \in Nat
      BY <2>4, <2>5, InvokedCount DEF Types, Started, InvokedIn
    <2>7. /\ loop = "select" /\ loop' = "start" /\ Available(p)
          /\ UNCHANGED <<idle, stopped, pc, op, open, stopping, toClose, register, effect, late>>
      BY <1>5 DEF Invoke, flagVars, procVars, stopVars, serviceVars
    <2>8. Types'
      BY <2>1, <2>3, <2>6, <2>7 DEF Types
    <2>9. FlagsInv'
      BY <2>1, <2>7 DEF FlagsInv, StartsNow, Available
    <2>10. ConnectionsInv'
      BY <2>7 DEF ConnectionsInv, MayBeOpen, Closing, InTurn, Cancelled
    <2> QED
      BY <2>8, <2>9, <2>10
  <1>6. CASE Start
    <2> DEFINE p == chosen[1]
    <2>1. /\ loop = "start" /\ loop' = "select" /\ p \in Processes /\ chosen[2] \in Operations
          /\ pc[p] = "none" /\ ~stopped[p]
      BY <1>6 DEF Start, Types, FlagsInv, StartsNow
    <2>2. /\ idle' = [idle EXCEPT ![p] = FALSE] /\ pc' = [pc EXCEPT ![p] = "connect"]
          /\ op' = [op EXCEPT ![p] = chosen[2]]
          /\ UNCHANGED <<log, value, stopped, open, stopping, toClose, register, effect, late>>
      BY <1>6 DEF Start, logVars, stopVars, serviceVars
    <2>3. ~effect[p].done
      BY <2>1 DEF FlagsInv
    <2> HIDE DEF p
    <2>4. Types'
      BY <2>1, <2>2, TypesOfLoop DEF Types, Places
    <2>5. FlagsInv'
      BY <2>1, <2>2, <2>3 DEF FlagsInv, StartsNow, Types
    <2>6. ConnectionsInv'
      BY <2>1, <2>2 DEF ConnectionsInv, MayBeOpen, Closing, InTurn, Cancelled, Types
    <2> QED
      BY <2>4, <2>5, <2>6
  <1> QED
    BY <1>1, <1>2, <1>3, <1>4, <1>5, <1>6 DEF Coordinator

LEMMA TypesOfRecord ==
    ASSUME Types, NEW o \in Operations, NEW p \in Processes, NEW v \in States,
           NEW result \in {"completed", "failed"},
           Record(o, result, p, v), value' = value
    PROVE  log' \in Seq(LogEvents) /\ value' \in Nat /\ 1 <= value' /\ value' <= Started' + 1
  <1> DEFINE e == Event(o, result, p, v)
  <1>1. e \in LogEvents /\ e.result # "invoked"
    BY EventType
  <1>2. log' = Append(log, e)
    BY DEF Record
  <1> HIDE DEF e
  <1>3. log' \in Seq(LogEvents) /\ Started' = Started
    BY <1>1, <1>2, InvokedCount DEF Types, Started, InvokedIn
  <1> QED
    BY <1>3 DEF Types

LEMMA GoroutineState ==
    ASSUME StateInv, NEW p \in Processes, Goroutine(p) \/ TakeEffect(p) PROVE StateInv'
  <1> USE DEF StateInv
  <1>0. op[p] \in Operations /\ op[p].value \in States /\ NilValue \in States
        /\ ReadOp \in Operations /\ NoEffect \in Effects
        /\ effect[p] \in Effects /\ effect[p].value \in States
    BY OperationType DEF Types, States, Operations, NoEffect, Effects
  <1>1. CASE GetSession(p)
    <2>1. /\ pc[p] = "connect" /\ pc' = [pc EXCEPT ![p] = "call"]
          /\ open' = open \cup {<<p, addr[p]>>} /\ (<<p, addr[p]>> \in open \/ ~Cancelled)
          /\ UNCHANGED <<log, value, loop, chosen, idle, stopped, op, stopping, toClose,
                         register, effect, late>>
      BY <1>1 DEF GetSession, Connect, Goto, logVars, loopVars, flagVars, stopVars, serviceVars
    <2>2. Types'
      BY <2>1, TypesOfLoop DEF Types, Places
    <2>3. FlagsInv'
      BY <2>1 DEF FlagsInv, StartsNow, Types
    <2>4. ConnectionsInv'
      BY <2>1, RecorderAssumption DEF Owners, ConnectionsInv, MayBeOpen, Closing, InTurn, Cancelled, Types
    <2> QED
      BY <2>2, <2>3, <2>4
  <1>2. CASE GetSessionFails(p)
    <2>1. /\ pc[p] = "connect" /\ pc' = [pc EXCEPT ![p] = "failed"]
          /\ open' \subseteq open
          /\ UNCHANGED <<log, value, loop, chosen, idle, stopped, op, stopping, toClose,
                         register, effect, late>>
      BY <1>2 DEF GetSessionFails, CloseConnection, Goto, logVars, loopVars, flagVars, stopVars, serviceVars
    <2>2. Types'
      BY <2>1, TypesOfLoop DEF Types, Places
    <2>3. FlagsInv'
      BY <2>1 DEF FlagsInv, StartsNow, Types
    <2>4. ConnectionsInv'
      BY <2>1, RecorderAssumption DEF Owners, ConnectionsInv, MayBeOpen, Closing, InTurn, Cancelled, Types
    <2> QED
      BY <2>2, <2>3, <2>4
  <1>3. CASE CallFails(p)
    <2>1. /\ pc[p] = "call" /\ pc' = [pc EXCEPT ![p] = "failed"]
          /\ open' \subseteq open
          /\ UNCHANGED <<log, value, loop, chosen, idle, stopped, op, stopping, toClose,
                         register, effect>>
      BY <1>3 DEF CallFails, CloseConnection, Goto, logVars, loopVars, flagVars, stopVars
    <2>2. late' \subseteq Values
      BY <1>3, <1>0, OperationType DEF CallFails, Types
    <2>3. Types'
      BY <2>1, <2>2, TypesOfLoop DEF Types, Places
    <2>4. FlagsInv'
      BY <2>1 DEF FlagsInv, StartsNow, Types
    <2>5. ConnectionsInv'
      BY <2>1, RecorderAssumption DEF Owners, ConnectionsInv, MayBeOpen, Closing, InTurn, Cancelled, Types
    <2> QED
      BY <2>3, <2>4, <2>5
  <1>4. CASE RecordCompleted(p)
    <2>1. /\ pc[p] = "call" /\ pc' = [pc EXCEPT ![p] = "recorded"]
          /\ UNCHANGED <<value, loop, chosen, idle, stopped, op, open, stopping, toClose,
                         register, effect, late>>
      BY <1>4 DEF RecordCompleted, Goto, loopVars, flagVars, stopVars, serviceVars
    <2>2. log' \in Seq(LogEvents) /\ value' \in Nat /\ 1 <= value' /\ value' <= Started' + 1
      <3> DEFINE v == IF op[p].type = "write" THEN op[p].value ELSE effect[p].value
      <3>1. v \in States /\ Record(op[p], "completed", p, v)
        BY <1>4, <1>0 DEF RecordCompleted
      <3> HIDE DEF v
      <3> QED
        BY <1>0, <2>1, <3>1, TypesOfRecord
    <2>3. Types'
      BY <2>1, <2>2 DEF Types, Places
    <2>4. FlagsInv'
      BY <2>1 DEF FlagsInv, StartsNow, Types
    <2>5. ConnectionsInv'
      BY <2>1 DEF ConnectionsInv, MayBeOpen, Closing, InTurn, Cancelled, Types
    <2> QED
      BY <2>3, <2>4, <2>5
  <1>5. CASE StopSelf(p)
    <2>1. /\ pc[p] = "failed" /\ pc' = [pc EXCEPT ![p] = "flagged"]
          /\ stopped' = [stopped EXCEPT ![p] = TRUE]
          /\ UNCHANGED <<log, value, loop, chosen, idle, op, open, stopping, toClose,
                         register, effect, late>>
      BY <1>5 DEF StopSelf, SetStoppedFlag, Goto, logVars, loopVars, stopVars, serviceVars
    <2>2. Types'
      BY <2>1, TypesOfLoop DEF Types, Places
    <2>3. FlagsInv'
      BY <2>1 DEF FlagsInv, StartsNow, Types
    <2>4. ConnectionsInv'
      BY <2>1, RecorderAssumption DEF Owners, ConnectionsInv, MayBeOpen, Closing, InTurn, Cancelled, Types
    <2> QED
      BY <2>2, <2>3, <2>4
  <1>9. CASE CloseOwnPool(p)
    <2>1. /\ pc[p] = "flagged" /\ pc' = [pc EXCEPT ![p] = "stopped"]
          /\ open' = {c \in open : c[1] # p}
          /\ UNCHANGED <<log, value, loop, chosen, idle, stopped, op, stopping, toClose,
                         register, effect, late>>
      BY <1>9 DEF CloseOwnPool, ClosePool, Goto, logVars, loopVars, flagVars, stopVars, serviceVars
    <2>2. Types'
      BY <2>1, TypesOfLoop DEF Types, Places
    <2>3. FlagsInv'
      BY <2>1 DEF FlagsInv, StartsNow, Types
    <2>4. ConnectionsInv'
      BY <2>1, RecorderAssumption DEF Owners, ConnectionsInv, MayBeOpen, Closing, InTurn, Cancelled, Types
    <2> QED
      BY <2>2, <2>3, <2>4
  <1>6. CASE RecordFailed(p)
    <2>1. /\ pc[p] = "stopped" /\ pc' = [pc EXCEPT ![p] = "recorded"]
          /\ UNCHANGED <<value, loop, chosen, idle, stopped, op, open, stopping, toClose,
                         register, effect, late>>
      BY <1>6 DEF RecordFailed, Goto, loopVars, flagVars, stopVars, serviceVars
    <2>2. log' \in Seq(LogEvents) /\ value' \in Nat /\ 1 <= value' /\ value' <= Started' + 1
      BY <1>0, <1>6, <2>1, TypesOfRecord DEF RecordFailed
    <2>3. Types'
      BY <2>1, <2>2 DEF Types, Places
    <2>4. FlagsInv'
      BY <2>1 DEF FlagsInv, StartsNow, Types
    <2>5. ConnectionsInv'
      BY <2>1 DEF ConnectionsInv, MayBeOpen, Closing, InTurn, Cancelled, Types
    <2> QED
      BY <2>3, <2>4, <2>5
  <1>7. CASE SetIdle(p)
    <2>1. /\ pc[p] = "recorded" /\ pc' = [pc EXCEPT ![p] = "none"]
          /\ idle' = [idle EXCEPT ![p] = TRUE]
          /\ op' = [op EXCEPT ![p] = ReadOp]
          /\ effect' = [effect EXCEPT ![p] = NoEffect]
          /\ UNCHANGED <<log, value, loop, chosen, stopped, open, stopping, toClose,
                         register, late>>
      BY <1>7 DEF SetIdle, Goto, logVars, loopVars, stopVars
    <2>2. Types'
      BY <1>0, <2>1, TypesOfLoop DEF Types, Places
    <2>3. FlagsInv'
      BY <2>1 DEF FlagsInv, StartsNow, Types, NoEffect
    <2>4. ConnectionsInv'
      BY <2>1 DEF ConnectionsInv, MayBeOpen, Closing, InTurn, Cancelled, Types
    <2> QED
      BY <2>2, <2>3, <2>4
  <1>8. CASE TakeEffect(p)
    <2>1. /\ pc[p] = "call"
          /\ effect' = [effect EXCEPT ![p] = [done |-> TRUE, value |-> register]]
          /\ UNCHANGED <<log, value, loop, chosen, idle, stopped, pc, op, open,
                         stopping, toClose, late>>
      BY <1>8 DEF TakeEffect, logVars, loopVars, flagVars, procVars, stopVars
    <2>2. register' \in States /\ [done |-> TRUE, value |-> register] \in Effects
      BY <1>0, <1>8 DEF TakeEffect, Types, Effects
    <2>3. Types'
      BY <2>1, <2>2, TypesOfLoop DEF Types
    <2>4. FlagsInv'
      BY <2>1 DEF FlagsInv, StartsNow, Types
    <2>5. ConnectionsInv'
      BY <2>1 DEF ConnectionsInv, MayBeOpen, Closing, InTurn, Cancelled, Types
    <2> QED
      BY <2>3, <2>4, <2>5
  <1> QED
    BY <1>1, <1>2, <1>3, <1>4, <1>5, <1>6, <1>7, <1>8, <1>9 DEF Goroutine

LEMMA StopState ==
    ASSUME StateInv, Stop PROVE StateInv'
  <1> USE DEF StateInv
  <1>1. CASE Cancel
    <2>1. /\ stopping = "no" /\ stopping' = "cancelled"
          /\ UNCHANGED <<log, value, loop, chosen, idle, stopped, pc, op, open, toClose,
                         register, effect, late>>
      BY <1>1 DEF Cancel, logVars, loopVars, flagVars, procVars, serviceVars
    <2>2. Types'
      BY <2>1, TypesOfLoop DEF Types
    <2>3. FlagsInv'
      BY <2>1 DEF FlagsInv, StartsNow
    <2>4. ConnectionsInv'
      BY <2>1 DEF ConnectionsInv, MayBeOpen, Closing, InTurn, Cancelled
    <2> QED
      BY <2>2, <2>3, <2>4
  <1>2. CASE LoopIsOver
    <2>1. /\ stopping = "cancelled" /\ stopping' = "closing" /\ loop = "ended"
          /\ open' = {c \in open : c[1] # Coord} /\ toClose' = Processes
          /\ UNCHANGED <<log, value, loop, chosen, idle, stopped, pc, op,
                         register, effect, late>>
      BY <1>2 DEF LoopIsOver, ClosePool, logVars, loopVars, flagVars, procVars, serviceVars
    <2>2. Types'
      BY <2>1, TypesOfLoop DEF Types
    <2>3. FlagsInv'
      BY <2>1 DEF FlagsInv, StartsNow
    <2>4. ConnectionsInv'
      BY <2>1 DEF ConnectionsInv, MayBeOpen, Closing, InTurn, Cancelled
    <2> QED
      BY <2>2, <2>3, <2>4
  <1>3. ASSUME NEW p \in Processes, SkipProcess(p) PROVE StateInv'
    <2>1. /\ stopping = "closing" /\ stopped[p] /\ toClose' = toClose \ {p}
          /\ UNCHANGED <<log, value, loop, chosen, idle, stopped, pc, op, open, stopping,
                         register, effect, late>>
      BY <1>3 DEF SkipProcess, logVars, loopVars, flagVars, procVars, serviceVars
    <2>2. Types'
      BY <2>1, TypesOfLoop DEF Types
    <2>3. FlagsInv'
      BY <2>1 DEF FlagsInv, StartsNow
    <2>4. ConnectionsInv'
      BY <2>1 DEF ConnectionsInv, MayBeOpen, Closing, Cancelled
    <2> QED
      BY <2>2, <2>3, <2>4
  <1>5. ASSUME NEW p \in Processes, StopProcess(p) PROVE StateInv'
    <2>1. /\ stopping = "closing" /\ stopping' = "pool" /\ InTurn(p)
          /\ stopped' = [stopped EXCEPT ![p] = TRUE]
          /\ UNCHANGED <<log, value, loop, chosen, idle, pc, op, open, toClose,
                         register, effect, late>>
      BY <1>5 DEF StopProcess, SetStoppedFlag, logVars, loopVars, procVars, serviceVars
    <2>2. Types'
      BY <2>1, TypesOfLoop DEF Types
    <2>3. loop = "ended"
      BY <2>1 DEF ConnectionsInv
    <2>4. FlagsInv'
      BY <2>1, <2>3 DEF FlagsInv, StartsNow, Types
    <2>5. \A q \in Processes : Closing(q)' <=> q = p
      <3>1. \A q \in Processes : InTurn(q) => q = p
        BY <2>1, RecorderAssumption DEF InTurn
      <3> QED
        BY <2>1, <3>1 DEF Closing, InTurn
    <2>6. \A c \in open' : c[1] \in Owners /\ MayBeOpen(c[1])'
      BY <2>1, <2>5 DEF ConnectionsInv, MayBeOpen, Closing, Owners, Types
    <2>7. ConnectionsInv'
      BY <2>1, <2>3, <2>5, <2>6 DEF ConnectionsInv, Cancelled, Types
    <2> QED
      BY <2>2, <2>4, <2>7
  <1>6. ASSUME NEW p \in Processes, CloseProcessPool(p) PROVE StateInv'
    <2>1. /\ stopping = "pool" /\ stopping' = "closing" /\ InTurn(p)
          /\ open' = {c \in open : c[1] # p} /\ toClose' = toClose \ {p}
          /\ UNCHANGED <<log, value, loop, chosen, idle, stopped, pc, op,
                         register, effect, late>>
      BY <1>6 DEF CloseProcessPool, ClosePool, logVars, loopVars, flagVars, procVars, serviceVars
    <2>2. Types'
      BY <2>1, TypesOfLoop DEF Types
    <2>3. FlagsInv'
      BY <2>1 DEF FlagsInv, StartsNow
    <2>4. Closing(p) /\ \A q \in Processes : Closing(q) => q = p
      BY <2>1, RecorderAssumption DEF Closing, InTurn
    <2>5. \A q \in Processes : ~Closing(q)'
      BY <2>1 DEF Closing
    <2>6. \A c \in open' : c[1] \in Owners /\ MayBeOpen(c[1])'
      BY <2>1, <2>4 DEF ConnectionsInv, MayBeOpen, Owners
    <2>7. ConnectionsInv'
      BY <2>1, <2>4, <2>5, <2>6 DEF ConnectionsInv, Cancelled
    <2> QED
      BY <2>2, <2>3, <2>7
  <1>4. CASE StopReturns
    <2>1. /\ stopping = "closing" /\ toClose = {} /\ stopping' = "done"
          /\ UNCHANGED <<log, value, loop, chosen, idle, stopped, pc, op, open, toClose,
                         register, effect, late>>
      BY <1>4 DEF StopReturns, logVars, loopVars, flagVars, procVars, serviceVars
    <2>2. Types'
      BY <2>1, TypesOfLoop DEF Types
    <2>3. FlagsInv'
      BY <2>1 DEF FlagsInv, StartsNow
    <2>4. ConnectionsInv'
      BY <2>1 DEF ConnectionsInv, MayBeOpen, Closing, InTurn, Cancelled
    <2> QED
      BY <2>2, <2>3, <2>4
  <1> QED
    BY <1>1, <1>2, <1>3, <1>4, <1>5, <1>6 DEF Stop

LEMMA StateNext ==
    ASSUME StateInv, [Next]_vars PROVE StateInv'
  <1>1. CASE UNCHANGED vars
    <2>1. /\ log' = log /\ value' = value /\ loop' = loop /\ chosen' = chosen
          /\ idle' = idle /\ stopped' = stopped /\ pc' = pc /\ op' = op /\ open' = open
          /\ stopping' = stopping /\ toClose' = toClose
          /\ register' = register /\ effect' = effect /\ late' = late
      BY <1>1, Zenon DEF vars, logVars, loopVars, flagVars, procVars, stopVars, serviceVars
    <2>2. Types'
      BY <2>1, TypesOfLoop DEF StateInv, Types
    <2>3. FlagsInv'
      BY <2>1 DEF StateInv, FlagsInv, StartsNow
    <2>4. ConnectionsInv'
      BY <2>1 DEF StateInv, ConnectionsInv, MayBeOpen, Closing, InTurn, Cancelled
    <2> QED
      BY <2>2, <2>3, <2>4 DEF StateInv
  <1>2. ASSUME NEW v \in late, LateEffect(v) PROVE StateInv'
    <2>1. /\ register' = v /\ late' = late \ {v}
          /\ UNCHANGED <<log, value, loop, chosen, idle, stopped, pc, op, open,
                         stopping, toClose, effect>>
      BY <1>2 DEF LateEffect, logVars, loopVars, flagVars, procVars, stopVars
    <2>2. Types'
      BY <2>1, TypesOfLoop DEF StateInv, Types, States
    <2>3. FlagsInv'
      BY <2>1 DEF StateInv, FlagsInv, StartsNow
    <2>4. ConnectionsInv'
      BY <2>1 DEF StateInv, ConnectionsInv, MayBeOpen, Closing, InTurn, Cancelled
    <2> QED
      BY <2>2, <2>3, <2>4 DEF StateInv
  <1> QED
    BY <1>1, <1>2, CoordinatorState, GoroutineState, StopState DEF Next

-----------------------------------------------------------------------------
(* The history: steps that write no line.                                   *)

LEMMA OpenOnesAreProcesses ==
    ASSUME NEW acc, GoodAcc(acc) PROVE DOMAIN acc.open \subseteq Processes
  <1> QED
    BY DEF GoodAcc, Accs, OpenMaps

LEMMA OpenStays ==
    ASSUME HistoryInv, log' = log,
           \A p \in Processes : Busy(p)' => Busy(p) /\ op'[p] = op[p],
           loop' = "start" => loop = "start" /\ chosen' = chosen,
           \A p \in Processes : Busy(p) \/ stopped[p] \/ StartsNow(p) =>
                                Busy(p)' \/ stopped'[p] \/ StartsNow(p)'
    PROVE  OpenInv'
  <1>1. Parsed' = Parsed
    BY Zenon DEF Parsed
  <1>2. DOMAIN Parsed.open \subseteq Processes
    BY OpenOnesAreProcesses DEF HistoryInv
  <1>3. \A p \in Processes : Busy(p)' => HasOpen(Parsed, p, InputOf(op'[p]))
    BY DEF HistoryInv, OpenInv
  <1>4. loop' = "start" => HasOpen(Parsed, chosen'[1], InputOf(chosen'[2]))
    BY DEF HistoryInv, OpenInv
  <1>5. \A p \in DOMAIN Parsed.open : Busy(p)' \/ stopped'[p] \/ StartsNow(p)'
    BY <1>2 DEF HistoryInv, OpenInv
  <1> QED
    BY <1>1, <1>3, <1>4, <1>5 DEF OpenInv

LEMMA HistoryWithLess ==
    ASSUME HistoryInv, log' = log, register' = register,
           Undone' \subseteq Undone, Done' \subseteq Done,
           \A p \in Done' : effect'[p].value = effect[p].value,
           late' \subseteq late, Dead \subseteq Dead', OpenInv'
    PROVE  HistoryInv'
  <1>1. Parsed' = Parsed
    BY Zenon DEF Parsed
  <1>2. \A p \in Done' : Seen'[p] = Seen[p]
    <2>1. Done' \subseteq Processes
      BY DEF Done
    <2> QED
      BY <2>1 DEF Seen
  <1>3. Explained(Parsed.events, Parsed.open, register, Undone, Done, Seen, late, Dead)
    BY DEF HistoryInv, ExplainedBy
  <1>4. Explained(Parsed.events, Parsed.open, register, Undone', Done', Seen', late', Dead')
    BY <1>2, <1>3, ExplainedWithLess
  <1>5. GoodAcc(Parsed)
    BY DEF HistoryInv
  <1> QED
    BY <1>1, <1>4, <1>5 DEF HistoryInv, ExplainedBy

LEMMA QuietCoordinator ==
    ASSUME IInv, EndLoop \/ TargetFound \/ TargetNotFound \/ EndPass
    PROVE  HistoryInv'
  <1>1. /\ log' = log /\ register' = register /\ late' = late /\ effect' = effect
        /\ pc' = pc /\ op' = op /\ stopped' = stopped
    BY DEF EndLoop, TargetFound, TargetNotFound, EndPass, logVars, flagVars, procVars, serviceVars
  <1>2. loop # "start" /\ loop' # "start"
    BY DEF EndLoop, TargetFound, TargetNotFound, EndPass, loopVars
  <1>3. OpenInv'
    <2>1. HistoryInv
      BY DEF IInv
    <2>2. \A p \in Processes : Busy(p)' => Busy(p) /\ op'[p] = op[p]
      BY <1>1 DEF Busy
    <2>3. \A p \in Processes : Busy(p) \/ stopped[p] \/ StartsNow(p) =>
                               Busy(p)' \/ stopped'[p] \/ StartsNow(p)'
      BY <1>1, <1>2 DEF Busy, StartsNow
    <2> QED
      BY <1>1, <1>2, <2>1, <2>2, <2>3, OpenStays
  <1>4. Undone' \subseteq Undone /\ Done' \subseteq Done /\ Dead \subseteq Dead'
    BY <1>1, <1>2 DEF Undone, Done, Dead, StartsNow
  <1> QED
    BY <1>1, <1>3, <1>4, HistoryWithLess DEF IInv

LEMMA QuietStop ==
    ASSUME IInv, Stop PROVE HistoryInv'
  <1>1. /\ log' = log /\ register' = register /\ late' = late /\ effect' = effect
        /\ pc' = pc /\ op' = op /\ loop' = loop /\ chosen' = chosen
    BY DEF Stop, Cancel, LoopIsOver, SkipProcess, StopProcess, CloseProcessPool, StopReturns, logVars, loopVars, procVars, serviceVars
  <1>2. \A p \in Processes : stopped[p] => stopped'[p]
    BY DEF Stop, Cancel, LoopIsOver, SkipProcess, StopProcess, CloseProcessPool, StopReturns, flagVars, SetStoppedFlag, IInv, StateInv, Types
  <1>3. OpenInv'
    <2>1. HistoryInv
      BY DEF IInv
    <2>2. \A p \in Processes : Busy(p)' => Busy(p) /\ op'[p] = op[p]
      BY <1>1 DEF Busy
    <2>3. \A p \in Processes : Busy(p) \/ stopped[p] \/ StartsNow(p) =>
                               Busy(p)' \/ stopped'[p] \/ StartsNow(p)'
      BY <1>1, <1>2 DEF Busy, StartsNow
    <2> QED
      BY <1>1, <2>1, <2>2, <2>3, OpenStays
  <1>4. Undone' \subseteq Undone /\ Done' \subseteq Done /\ Dead \subseteq Dead'
    BY <1>1, <1>2 DEF Undone, Done, Dead, StartsNow
  <1> QED
    BY <1>1, <1>3, <1>4, HistoryWithLess DEF IInv

LEMMA HistoryStart ==
    ASSUME IInv, Start PROVE HistoryInv'
  <1> DEFINE p == chosen[1]
  <1>1. /\ loop = "start" /\ loop' = "select" /\ p \in Processes
        /\ pc[p] = "none" /\ ~stopped[p] /\ StartsNow(p)
    BY DEF Start, IInv, StateInv, Types, FlagsInv, StartsNow
  <1>2. /\ pc' = [pc EXCEPT ![p] = "connect"] /\ op' = [op EXCEPT ![p] = chosen[2]]
        /\ log' = log /\ register' = register /\ late' = late /\ effect' = effect
        /\ stopped' = stopped
    BY DEF Start, logVars, serviceVars
  <1>3. ~effect[p].done /\ pc \in [Processes -> Places] /\ op \in [Processes -> Operations]
    BY <1>1 DEF IInv, StateInv, Types, FlagsInv
  <1>4. \A q \in Processes : StartsNow(q) <=> q = p
    BY <1>1 DEF StartsNow
  <1>5. Parsed' = Parsed
    BY <1>2, Zenon DEF Parsed
  <1>6. HasOpen(Parsed, p, InputOf(chosen[2])) /\ DOMAIN Parsed.open \subseteq Processes
    BY <1>1, OpenOnesAreProcesses DEF IInv, HistoryInv, OpenInv
  <1> HIDE DEF p
  <1>7. OpenInv'
    <2>1. \A q \in Processes : Busy(q)' => HasOpen(Parsed, q, InputOf(op'[q]))
      <3> TAKE q \in Processes
      <3>1. CASE q = p
        BY <1>1, <1>2, <1>3, <1>6, <3>1
      <3>2. CASE q # p
        <4>1. op'[q] = op[q] /\ (Busy(q)' => Busy(q))
          BY <1>1, <1>2, <1>3, <3>2 DEF Busy
        <4> QED
          BY <4>1 DEF IInv, HistoryInv, OpenInv
      <3> QED
        BY <3>1, <3>2
    <2>2. \A q \in DOMAIN Parsed.open : Busy(q)' \/ stopped'[q] \/ StartsNow(q)'
      <3> TAKE q \in DOMAIN Parsed.open
      <3>1. q \in Processes /\ (Busy(q) \/ stopped[q] \/ StartsNow(q))
        BY <1>6 DEF IInv, HistoryInv, OpenInv
      <3>2. Busy(q)' \/ stopped'[q]
        BY <1>1, <1>2, <1>3, <1>4, <3>1 DEF Busy
      <3> QED
        BY <3>2
    <2> QED
      BY <1>1, <1>5, <2>1, <2>2 DEF OpenInv
  <1>8. Undone' \subseteq Undone
    BY <1>1, <1>2, <1>3 DEF Undone, StartsNow
  <1>9. Done' \subseteq Done /\ Dead \subseteq Dead'
    BY <1>1, <1>2, <1>3 DEF Done, Dead
  <1> QED
    BY <1>2, <1>7, <1>8, <1>9, HistoryWithLess DEF IInv

(* A step of a process that writes no line and stays busy, or was idle.     *)
LEMMA OpenAfterProcess ==
    ASSUME IInv, NEW p \in Processes, NEW place \in Places,
           log' = log, loop' = loop, chosen' = chosen,
           pc' = [pc EXCEPT ![p] = place],
           \A q \in Processes : stopped[q] => stopped'[q],
           \A q \in Processes : q # p => op'[q] = op[q],
           \/ pc[p] # "recorded" /\ op'[p] = op[p] /\ Busy(p)
              /\ place \in {"connect", "call", "failed", "flagged", "stopped"}
           \/ pc[p] = "recorded" /\ place = "none"
    PROVE  OpenInv'
  <1>0. pc \in [Processes -> Places] /\ HistoryInv
    BY DEF IInv, StateInv, Types
  <1>1. \A q \in Processes : Busy(q)' => Busy(q) /\ op'[q] = op[q]
    BY <1>0 DEF Busy
  <1>2. \A q \in Processes : Busy(q) => Busy(q)'
    BY <1>0 DEF Busy
  <1>3. \A q \in Processes : Busy(q) \/ stopped[q] \/ StartsNow(q) =>
                             Busy(q)' \/ stopped'[q] \/ StartsNow(q)'
    BY <1>2 DEF StartsNow
  <1> QED
    BY <1>0, <1>1, <1>3, OpenStays

LEMMA QuietProcess ==
    ASSUME IInv, NEW p \in Processes,
           GetSession(p) \/ GetSessionFails(p) \/ StopSelf(p) \/ CloseOwnPool(p) \/ SetIdle(p)
    PROVE  HistoryInv'
  <1>0. /\ pc \in [Processes -> Places] /\ op \in [Processes -> Operations]
        /\ stopped \in [Processes -> BOOLEAN] /\ effect \in [Processes -> Effects]
        /\ \A q \in Processes : pc[q] \in {"none", "connect"} => ~effect[q].done
        /\ \A q \in Processes : StartsNow(q) => pc[q] = "none" /\ ~stopped[q]
    BY DEF IInv, StateInv, Types, FlagsInv
  <1>1. /\ log' = log /\ register' = register /\ late' = late
        /\ loop' = loop /\ chosen' = chosen
    BY DEF GetSession, GetSessionFails, StopSelf, CloseOwnPool, SetIdle, logVars, loopVars, serviceVars
  <1>2. CASE GetSession(p)
    <2>1. /\ pc[p] = "connect" /\ pc' = [pc EXCEPT ![p] = "call"]
          /\ op' = op /\ stopped' = stopped /\ effect' = effect
      BY <1>2 DEF GetSession, Goto, flagVars, serviceVars
    <2>2. OpenInv'
      BY <1>1, <2>1, OpenAfterProcess DEF Places, Busy
    <2>3. Undone' \subseteq Undone /\ Done' \subseteq Done /\ Dead \subseteq Dead'
      BY <1>0, <1>1, <2>1 DEF Undone, Done, Dead, StartsNow
    <2> QED
      BY <1>1, <2>1, <2>2, <2>3, HistoryWithLess DEF IInv
  <1>3. CASE GetSessionFails(p)
    <2>1. /\ pc[p] = "connect" /\ pc' = [pc EXCEPT ![p] = "failed"]
          /\ op' = op /\ stopped' = stopped /\ effect' = effect
      BY <1>3 DEF GetSessionFails, Goto, flagVars, serviceVars
    <2>2. OpenInv'
      BY <1>1, <2>1, OpenAfterProcess DEF Places, Busy
    <2>3. Undone' \subseteq Undone /\ Done' \subseteq Done /\ Dead \subseteq Dead'
      BY <1>0, <1>1, <2>1 DEF Undone, Done, Dead, StartsNow
    <2> QED
      BY <1>1, <2>1, <2>2, <2>3, HistoryWithLess DEF IInv
  <1>4. CASE StopSelf(p)
    <2>1. /\ pc[p] = "failed" /\ pc' = [pc EXCEPT ![p] = "flagged"]
          /\ op' = op /\ stopped' = [stopped EXCEPT ![p] = TRUE] /\ effect' = effect
      BY <1>4 DEF StopSelf, SetStoppedFlag, Goto, serviceVars
    <2>2. OpenInv'
      BY <1>0, <1>1, <2>1, OpenAfterProcess DEF Places, Busy
    <2>3. Undone' \subseteq Undone /\ Done' \subseteq Done /\ Dead \subseteq Dead'
      BY <1>0, <1>1, <2>1 DEF Undone, Done, Dead, StartsNow
    <2> QED
      BY <1>1, <2>1, <2>2, <2>3, HistoryWithLess DEF IInv
  <1>6. CASE CloseOwnPool(p)
    <2>1. /\ pc[p] = "flagged" /\ pc' = [pc EXCEPT ![p] = "stopped"]
          /\ op' = op /\ stopped' = stopped /\ effect' = effect
      BY <1>6 DEF CloseOwnPool, Goto, flagVars, serviceVars
    <2>2. OpenInv'
      BY <1>1, <2>1, OpenAfterProcess DEF Places, Busy
    <2>3. Undone' \subseteq Undone /\ Done' \subseteq Done /\ Dead \subseteq Dead'
      BY <1>0, <1>1, <2>1 DEF Undone, Done, Dead, StartsNow
    <2> QED
      BY <1>1, <2>1, <2>2, <2>3, HistoryWithLess DEF IInv
  <1>5. CASE SetIdle(p)
    <2>1. /\ pc[p] = "recorded" /\ pc' = [pc EXCEPT ![p] = "none"]
          /\ op' = [op EXCEPT ![p] = ReadOp] /\ stopped' = stopped
          /\ effect' = [effect EXCEPT ![p] = NoEffect]
      BY <1>5 DEF SetIdle, Goto
    <2>2. OpenInv'
      BY <1>0, <1>1, <2>1, OpenAfterProcess DEF Places, Busy
    <2>3. Undone' \subseteq Undone /\ Done' \subseteq Done /\ Dead \subseteq Dead'
      BY <1>0, <1>1, <2>1 DEF Undone, Done, Dead, StartsNow
    <2>4. \A q \in Done' : effect'[q].value = effect[q].value
      BY <1>0, <2>1 DEF Done
    <2> QED
      BY <1>1, <2>2, <2>3, <2>4, HistoryWithLess DEF IInv
  <1> QED
    BY <1>2, <1>3, <1>4, <1>5, <1>6

(* A call that fails.  A write that did not take effect still may.          *)
LEMMA HistoryCallFails ==
    ASSUME IInv, NEW p \in Processes, CallFails(p) PROVE HistoryInv'
  <1>0. /\ pc \in [Processes -> Places] /\ op \in [Processes -> Operations]
        /\ effect \in [Processes -> Effects]
        /\ \A q \in Processes : StartsNow(q) => pc[q] = "none" /\ ~stopped[q]
    BY DEF IInv, StateInv, Types, FlagsInv
  <1>1. /\ log' = log /\ register' = register /\ effect' = effect
        /\ loop' = loop /\ chosen' = chosen /\ op' = op /\ stopped' = stopped
        /\ pc[p] = "call" /\ pc' = [pc EXCEPT ![p] = "failed"]
    BY DEF CallFails, Goto, logVars, loopVars, flagVars
  <1>2. OpenInv'
    BY <1>1, OpenAfterProcess DEF Places, Busy
  <1>3. Undone' \subseteq Undone \ {p} /\ Done' \subseteq Done /\ Dead \subseteq Dead'
        /\ (op[p].type = "write" => p \in Dead')
    BY <1>0, <1>1 DEF Undone, Done, Dead, StartsNow
  <1>4. CASE op[p].type = "write" /\ ~effect[p].done
    <2> DEFINE v == op[p].value
    <2>1. late' = late \cup {v} /\ p \in Undone
      BY <1>1, <1>4 DEF CallFails, Undone
    <2>2. InputOf(op[p]) = WriteInput(v)
      BY <1>0, <1>4, OperationType
    <2>3. InputIs(Parsed.events, Parsed.open[p], WriteInput(v))
      BY <1>1, <2>2 DEF IInv, HistoryInv, OpenInv, Busy, HasOpen
    <2> HIDE DEF v
    <2>4. Explained(Parsed.events, Parsed.open, register, Undone, Done, Seen, late, Dead)
      BY DEF IInv, HistoryInv, ExplainedBy
    <2>5. Explained(Parsed.events, Parsed.open, register, Undone \ {p}, Done, Seen,
                    late \cup {v}, Dead')
      BY <1>3, <1>4, <2>1, <2>3, <2>4, ExplainedAfterFailure
    <2>6. Seen' = Seen
      BY <1>1 DEF Seen
    <2>7. Explained(Parsed.events, Parsed.open, register, Undone', Done', Seen',
                    late', Dead')
      <3>1. \A q \in Done' : Seen'[q] = Seen[q]
        BY <2>6
      <3> QED
        BY <1>3, <2>1, <2>5, <3>1, ExplainedWithLess
    <2>8. Parsed' = Parsed /\ GoodAcc(Parsed)
      BY <1>1, Zenon DEF Parsed, IInv, HistoryInv
    <2> QED
      BY <1>1, <1>2, <2>7, <2>8 DEF HistoryInv, ExplainedBy
  <1>5. CASE ~(op[p].type = "write" /\ ~effect[p].done)
    <2>1. late' = late
      BY <1>5 DEF CallFails
    <2> QED
      BY <1>1, <1>2, <1>3, <2>1, HistoryWithLess DEF IInv
  <1> QED
    BY <1>4, <1>5

(* The service carries out an operation between its call and its answer.    *)
LEMMA HistoryTakeEffect ==
    ASSUME IInv, NEW p \in Processes, TakeEffect(p) PROVE HistoryInv'
  <1>0. /\ pc \in [Processes -> Places] /\ op \in [Processes -> Operations]
        /\ effect \in [Processes -> Effects] /\ register \in States
        /\ \A q \in Processes : StartsNow(q) => pc[q] = "none" /\ ~stopped[q]
    BY DEF IInv, StateInv, Types, FlagsInv
  <1>1. /\ log' = log /\ late' = late /\ loop' = loop /\ chosen' = chosen
        /\ op' = op /\ stopped' = stopped /\ pc' = pc
        /\ pc[p] = "call" /\ ~effect[p].done
        /\ effect' = [effect EXCEPT ![p] = [done |-> TRUE, value |-> register]]
    BY DEF TakeEffect, logVars, loopVars, flagVars, procVars
  <1>2. OpenInv'
    <2>1. HistoryInv
      BY DEF IInv
    <2>2. /\ \A q \in Processes : Busy(q)' => Busy(q) /\ op'[q] = op[q]
          /\ \A q \in Processes : Busy(q) \/ stopped[q] \/ StartsNow(q) =>
                               Busy(q)' \/ stopped'[q] \/ StartsNow(q)'
      BY <1>1 DEF Busy, StartsNow
    <2> QED
      BY <1>1, <2>1, <2>2, OpenStays
  <1>3. p \in Undone /\ p \notin Dead /\ p \notin Done
    BY <1>1 DEF Undone, Dead, Done
  <1>4. Undone' \subseteq Undone \ {p} /\ Done' \subseteq Done \cup {p} /\ Dead' = Dead
    BY <1>0, <1>1 DEF Undone, Done, Dead, StartsNow
  <1>5. /\ Seen'[p] = register
        /\ \A q \in Done : Seen'[q] = Seen[q]
    BY <1>0, <1>1, <1>3 DEF Seen, Done
  <1> DEFINE in == InputOf(op[p])
  <1>6. in \in Inputs /\ register' = StepState(register, in)
    <2>1. CASE op[p].type = "write"
      <3>1. in = WriteInput(op[p].value) /\ op[p].value \in Values
        BY <1>0, <2>1, OperationType
      <3>2. register' = op[p].value
        BY <2>1 DEF TakeEffect
      <3> QED
        BY <3>1, <3>2 DEF Inputs, StepState, WriteInput, Input
    <2>2. CASE op[p].type = "read"
      <3>1. in = ReadInput
        BY <1>0, <2>2, OperationType
      <3>2. register' = register
        BY <2>2 DEF TakeEffect
      <3> QED
        BY <3>1, <3>2 DEF Inputs, StepState, ReadInput, Input
    <2> QED
      BY <1>0, <2>1, <2>2, OperationType
  <1>7. InputIs(Parsed.events, Parsed.open[p], in)
    BY <1>1 DEF IInv, HistoryInv, OpenInv, Busy, HasOpen
  <1> HIDE DEF in
  <1>8. /\ Explained(Parsed.events, Parsed.open, register, Undone, Done, Seen, late, Dead)
        /\ Numbers(Parsed.events, Parsed.open, Parsed.next)
        /\ GoodHistory(Parsed.events, Parsed.open, Parsed.next)
        /\ GoodAcc(Parsed)
    BY GoodNumbers DEF IInv, HistoryInv, ExplainedBy, GoodAcc
  <1>9. Explained(Parsed.events, Parsed.open, register', Undone \ {p}, Done \cup {p}, Seen',
                  late, Dead)
    BY <1>3, <1>5, <1>6, <1>7, <1>8, ExplainedAfterEffect
  <1>10. Explained(Parsed.events, Parsed.open, register', Undone', Done', Seen', late', Dead')
    BY <1>1, <1>4, <1>9, ExplainedWithLess
  <1>11. Parsed' = Parsed
    BY <1>1, Zenon DEF Parsed
  <1> QED
    BY <1>2, <1>8, <1>10, <1>11 DEF HistoryInv, ExplainedBy

(* A write that failed takes effect.                                        *)
LEMMA HistoryLateEffect ==
    ASSUME IInv, NEW v \in late, LateEffect(v) PROVE HistoryInv'
  <1>0. /\ late \subseteq Values
        /\ \A q \in Processes : StartsNow(q) => pc[q] = "none" /\ ~stopped[q]
    BY DEF IInv, StateInv, Types, FlagsInv
  <1>1. /\ log' = log /\ loop' = loop /\ chosen' = chosen /\ effect' = effect
        /\ op' = op /\ stopped' = stopped /\ pc' = pc
        /\ register' = v /\ late' = late \ {v}
    BY DEF LateEffect, logVars, loopVars, flagVars, procVars
  <1>2. OpenInv'
    <2>1. HistoryInv
      BY DEF IInv
    <2>2. /\ \A q \in Processes : Busy(q)' => Busy(q) /\ op'[q] = op[q]
          /\ \A q \in Processes : Busy(q) \/ stopped[q] \/ StartsNow(q) =>
                               Busy(q)' \/ stopped'[q] \/ StartsNow(q)'
      BY <1>1 DEF Busy, StartsNow
    <2> QED
      BY <1>1, <2>1, <2>2, OpenStays
  <1>3. Undone' = Undone /\ Done' = Done /\ Dead' = Dead /\ Seen' = Seen
    BY <1>1 DEF Undone, Done, Dead, Seen, StartsNow
  <1>4. \A q \in Dead : q \notin Undone
    BY <1>0 DEF Dead, Undone
  <1>5. /\ Explained(Parsed.events, Parsed.open, register, Undone, Done, Seen, late, Dead)
        /\ Numbers(Parsed.events, Parsed.open, Parsed.next)
        /\ GoodHistory(Parsed.events, Parsed.open, Parsed.next)
        /\ GoodAcc(Parsed)
    BY GoodNumbers DEF IInv, HistoryInv, ExplainedBy, GoodAcc
  <1>6. Explained(Parsed.events, Parsed.open, v, Undone, Done, Seen, late \ {v}, Dead)
    BY <1>0, <1>4, <1>5, ExplainedAfterLate
  <1>7. Parsed' = Parsed
    BY <1>1, Zenon DEF Parsed
  <1> QED
    BY <1>1, <1>2, <1>3, <1>5, <1>6, <1>7 DEF HistoryInv, ExplainedBy

-----------------------------------------------------------------------------
(* The history: steps that write a line.                                    *)

LEMMA ParsedMore ==
    ASSUME Types, NEW e \in LogEvents, log' = Append(log, e)
    PROVE  Parsed' = ParseLine(Parsed, e)
  <1>1. ParseLines(Append(log, e)) = ParseLine(ParseLines(log), e)
    BY ParsedAppend DEF Types
  <1> QED
    BY <1>1, Zenon DEF Parsed

LEMMA HistoryInvoke ==
    ASSUME IInv, StateInv', NEW p \in Processes, Invoke(p) PROVE HistoryInv'
  <1>0. /\ pc \in [Processes -> Places] /\ op \in [Processes -> Operations]
        /\ idle[p] <=> pc[p] = "none"
    BY DEF IInv, StateInv, Types, FlagsInv
  <1>1. /\ loop = "select" /\ loop' = "start" /\ idle[p] /\ ~stopped[p]
        /\ register' = register /\ late' = late /\ effect' = effect
        /\ pc' = pc /\ op' = op /\ stopped' = stopped
    BY DEF Invoke, Available, flagVars, procVars, serviceVars
  <1>2. PICK o \in {ReadOp, WriteOp(value)} :
              Record(o, "invoked", p, o.value) /\ chosen' = <<p, o>>
    BY DEF Invoke
  <1>3. o \in Operations /\ o.value \in States
    <2>1. chosen' \in Processes \X Operations
      BY <1>1 DEF StateInv, Types
    <2> QED
      BY <1>2, <2>1, OperationType
  <1> DEFINE e == Event(o, "invoked", p, o.value)
  <1>4. /\ e \in LogEvents /\ e.result = "invoked" /\ e.id = p
        /\ e.type = o.type /\ e.value = o.value
    BY <1>3, EventType
  <1>5. log' = Append(log, e)
    BY <1>2 DEF Record
  <1>6. InputOf(e) = InputOf(o)
    BY <1>4 DEF InputOf
  <1> HIDE DEF e
  <1> DEFINE acc == Parsed
             acc2 == Parsed'
  <1>7. acc2 = ParseLine(acc, e)
    BY <1>4, <1>5, ParsedMore DEF IInv, StateInv
  <1>8. DOMAIN acc.open \subseteq Processes /\ p \notin DOMAIN acc.open
    <2>1. DOMAIN acc.open \subseteq Processes
      BY OpenOnesAreProcesses DEF IInv, HistoryInv
    <2>2. ~Busy(p) /\ ~stopped[p] /\ ~StartsNow(p)
      BY <1>0, <1>1 DEF Busy, StartsNow
    <2> QED
      BY <2>1, <2>2 DEF IInv, HistoryInv, OpenInv
  <1>9. GoodAcc(acc) /\ ExplainedBy(acc, register, Undone, Done, Seen, late, Dead)
    BY DEF IInv, HistoryInv
  <1> HIDE DEF acc, acc2
  <1>10. /\ GoodAcc(acc2)
         /\ ExplainedBy(acc2, register, Undone \cup {p}, Done, Seen, late, Dead)
         /\ HasOpen(acc2, p, InputOf(o))
         /\ DOMAIN acc2.open = DOMAIN acc.open \cup {p}
         /\ \A q : Keeps(acc, acc2, q)
    BY <1>4, <1>6, <1>7, <1>8, <1>9, ParseInvoked
  <1>11. StartsNow(p)' /\ \A q \in Processes : StartsNow(q)' => q = p
    BY <1>1, <1>2 DEF StartsNow
  <1>12. OpenInv'
    <2>1. \A q \in Processes : Busy(q)' => HasOpen(acc2, q, InputOf(op'[q]))
      <3> TAKE q \in Processes
      <3> HAVE Busy(q)'
      <3>1. Busy(q)
        BY <1>1 DEF Busy
      <3>2. HasOpen(acc, q, InputOf(op[q]))
        BY <3>1 DEF IInv, HistoryInv, OpenInv, acc
      <3>3. Keeps(acc, acc2, q)
        BY <1>10
      <3> QED
        BY <1>1, <3>2, <3>3 DEF Keeps
    <2>2. HasOpen(acc2, chosen'[1], InputOf(chosen'[2]))
      BY <1>2, <1>10
    <2>3. \A q \in DOMAIN acc2.open : Busy(q)' \/ stopped'[q] \/ StartsNow(q)'
      <3> TAKE q \in DOMAIN acc2.open
      <3>1. CASE q = p
        BY <1>11, <3>1
      <3>2. CASE q # p
        <4>1. q \in DOMAIN acc.open
          BY <1>10, <3>2
        <4>2. Busy(q) \/ stopped[q] \/ StartsNow(q)
          BY <4>1 DEF IInv, HistoryInv, OpenInv, acc
        <4>3. Busy(q) \/ stopped[q]
          BY <1>1, <4>2 DEF StartsNow
        <4> QED
          BY <1>1, <4>3 DEF Busy
      <3> QED
        BY <3>1, <3>2
    <2> QED
      BY <2>1, <2>2, <2>3 DEF OpenInv, acc2
  <1>13. Undone' \subseteq Undone \cup {p} /\ Done' = Done /\ Dead' = Dead /\ Seen' = Seen
    <2>1. Undone' \subseteq Undone \cup {p}
      BY <1>1, <1>11 DEF Undone
    <2> QED
      BY <1>1, <2>1 DEF Done, Dead, Seen
  <1>14. Explained(acc2.events, acc2.open, register, Undone', Done', Seen', late', Dead')
    <2>1. Explained(acc2.events, acc2.open, register, Undone \cup {p}, Done, Seen, late, Dead)
      BY <1>10 DEF ExplainedBy
    <2> QED
      BY <1>1, <1>13, <2>1, ExplainedWithLess
  <1> QED
    BY <1>1, <1>10, <1>12, <1>14 DEF HistoryInv, ExplainedBy, acc2

(* Which calls are open when p has recorded the end of its operation.       *)
LEMMA OpenAfterRecord ==
    ASSUME IInv, NEW p \in Processes, pc[p] \in {"call", "stopped"},
           pc' = [pc EXCEPT ![p] = "recorded"],
           op' = op, stopped' = stopped, loop' = loop, chosen' = chosen,
           NEW acc, NEW acc2, acc = Parsed, acc2 = Parsed',
           \A q : q # p => Keeps(acc, acc2, q),
           DOMAIN acc2.open \subseteq DOMAIN acc.open,
           p \in DOMAIN acc2.open => stopped[p]
    PROVE  OpenInv'
  <1>0. /\ pc \in [Processes -> Places]
        /\ \A q \in Processes : StartsNow(q) => pc[q] = "none"
        /\ loop = "start" => chosen[1] \in Processes
    BY DEF IInv, StateInv, Types, FlagsInv
  <1>1. DOMAIN acc.open \subseteq Processes
    BY OpenOnesAreProcesses DEF IInv, HistoryInv
  <1>2. \A q \in Processes : Busy(q)' => HasOpen(acc2, q, InputOf(op'[q]))
    <2> TAKE q \in Processes
    <2> HAVE Busy(q)'
    <2>1. q # p /\ Busy(q)
      BY <1>0 DEF Busy
    <2>2. HasOpen(acc, q, InputOf(op[q])) /\ Keeps(acc, acc2, q)
      BY <2>1 DEF IInv, HistoryInv, OpenInv
    <2> QED
      BY <2>2 DEF Keeps
  <1>3. loop' = "start" => HasOpen(acc2, chosen'[1], InputOf(chosen'[2]))
    <2> HAVE loop' = "start"
    <2>1. chosen[1] # p
      BY <1>0 DEF StartsNow
    <2>2. HasOpen(acc, chosen[1], InputOf(chosen[2])) /\ Keeps(acc, acc2, chosen[1])
      BY <2>1 DEF IInv, HistoryInv, OpenInv
    <2> QED
      BY <2>2 DEF Keeps
  <1>4. \A q \in DOMAIN acc2.open : Busy(q)' \/ stopped'[q] \/ StartsNow(q)'
    <2> TAKE q \in DOMAIN acc2.open
    <2>1. q \in Processes /\ (Busy(q) \/ stopped[q] \/ StartsNow(q))
      BY <1>1 DEF IInv, HistoryInv, OpenInv
    <2>2. CASE q = p
      BY <2>2
    <2>3. CASE q # p
      BY <1>0, <2>1, <2>3 DEF Busy, StartsNow
    <2> QED
      BY <2>2, <2>3
  <1> QED
    BY <1>2, <1>3, <1>4 DEF OpenInv

LEMMA HistoryCompleted ==
    ASSUME IInv, NEW p \in Processes, RecordCompleted(p) PROVE HistoryInv'
  <1>0. /\ pc \in [Processes -> Places] /\ op[p] \in Operations
        /\ effect[p].value \in States
        /\ \A q \in Processes : StartsNow(q) => pc[q] = "none"
    BY DEF IInv, StateInv, Types, FlagsInv, Effects
  <1> DEFINE v == IF op[p].type = "write" THEN op[p].value ELSE effect[p].value
             e == Event(op[p], "completed", p, v)
  <1>1. /\ pc[p] = "call" /\ effect[p].done
        /\ pc' = [pc EXCEPT ![p] = "recorded"]
        /\ register' = register /\ late' = late /\ effect' = effect
        /\ op' = op /\ stopped' = stopped /\ loop' = loop /\ chosen' = chosen
    BY DEF RecordCompleted, Goto, loopVars, flagVars, serviceVars
  <1>2. v \in States /\ (op[p].type = "read" => v = effect[p].value)
    BY <1>0, OperationType
  <1>3. log' = Append(log, e)
    BY DEF RecordCompleted, Record
  <1> HIDE DEF v
  <1>4. /\ e \in LogEvents /\ e.result = "completed" /\ e.id = p
        /\ e.type = op[p].type /\ e.value = v
    BY <1>0, <1>2, EventType
  <1> HIDE DEF e
  <1> DEFINE acc == Parsed
             acc2 == Parsed'
  <1>5. acc2 = ParseLine(acc, e)
    BY <1>3, <1>4, ParsedMore DEF IInv, StateInv
  <1>6. HasOpen(acc, p, InputOf(op[p]))
    BY <1>1 DEF IInv, HistoryInv, OpenInv, Busy
  <1>7. Answers(op[p], Seen[p], OutputOf(e))
    <2>1. CASE op[p].type = "write"
      <3>1. InputOf(op[p]) = WriteInput(op[p].value) /\ op[p].value \in Values
        BY <1>0, <2>1, OperationType
      <3> QED
        BY <3>1 DEF Answers
    <2>2. CASE op[p].type = "read"
      <3>1. InputOf(op[p]) = ReadInput
        BY <1>0, <2>2, OperationType
      <3>2. OutputOf(e) = ReadOutput(Seen[p])
        BY <1>2, <1>4, <2>2 DEF OutputOf, Seen
      <3> QED
        BY <3>1, <3>2 DEF Answers
    <2> QED
      BY <1>0, <2>1, <2>2, OperationType
  <1>8. p \in Done /\ p \notin Undone /\ p \notin Dead
    BY <1>0, <1>1 DEF Done, Undone, Dead
  <1>9. GoodAcc(acc) /\ ExplainedBy(acc, register, Undone, Done, Seen, late, Dead)
    BY DEF IInv, HistoryInv
  <1> HIDE DEF acc, acc2
  <1>10. /\ GoodAcc(acc2)
         /\ ExplainedBy(acc2, register, Undone, Done \ {p}, Seen, late, Dead)
         /\ DOMAIN acc2.open = DOMAIN acc.open \ {p}
         /\ \A q : q # p => Keeps(acc, acc2, q)
    BY <1>4, <1>5, <1>6, <1>7, <1>8, <1>9, ParseCompleted
  <1>11. OpenInv'
    BY <1>1, <1>10, OpenAfterRecord DEF acc, acc2
  <1>12. Undone' \subseteq Undone /\ Done' \subseteq Done \ {p} /\ Dead \subseteq Dead'
         /\ Seen' = Seen
    BY <1>0, <1>1 DEF Undone, Done, Dead, Seen, StartsNow
  <1>13. Explained(acc2.events, acc2.open, register, Undone', Done', Seen', late', Dead')
    <2>1. Explained(acc2.events, acc2.open, register, Undone, Done \ {p}, Seen, late, Dead)
      BY <1>10 DEF ExplainedBy
    <2> QED
      BY <1>1, <1>12, <2>1, ExplainedWithLess
  <1> QED
    BY <1>1, <1>10, <1>11, <1>13 DEF HistoryInv, ExplainedBy, acc2

LEMMA HistoryFailed ==
    ASSUME IInv, NEW p \in Processes, RecordFailed(p) PROVE HistoryInv'
  <1>0. /\ pc \in [Processes -> Places] /\ op[p] \in Operations
        /\ \A q \in Processes : StartsNow(q) => pc[q] = "none"
        /\ (pc[p] = "stopped" => stopped[p])
    BY DEF IInv, StateInv, Types, FlagsInv
  <1> DEFINE e == Event(op[p], "failed", p, NilValue)
  <1>1. /\ pc[p] = "stopped" /\ stopped[p]
        /\ pc' = [pc EXCEPT ![p] = "recorded"]
        /\ register' = register /\ late' = late /\ effect' = effect
        /\ op' = op /\ stopped' = stopped /\ loop' = loop /\ chosen' = chosen
    BY <1>0 DEF RecordFailed, Goto, loopVars, flagVars, serviceVars
  <1>2. log' = Append(log, e)
    BY DEF RecordFailed, Record
  <1>3. /\ e \in LogEvents /\ e.result = "failed" /\ e.id = p /\ e.type = op[p].type
    <2>1. NilValue \in States
      BY DEF States
    <2> QED
      BY <1>0, <2>1, EventType
  <1> HIDE DEF e
  <1> DEFINE acc == Parsed
             acc2 == Parsed'
  <1>4. acc2 = ParseLine(acc, e)
    BY <1>2, <1>3, ParsedMore DEF IInv, StateInv
  <1>5. GoodAcc(acc) /\ ExplainedBy(acc, register, Undone, Done, Seen, late, Dead)
        /\ HasOpen(acc, p, InputOf(op[p]))
    BY <1>1 DEF IInv, HistoryInv, OpenInv, Busy
  <1>6. Undone' \subseteq Undone /\ Done' \subseteq Done /\ Dead \subseteq Dead'
        /\ Seen' = Seen
    BY <1>0, <1>1 DEF Undone, Done, Dead, Seen, StartsNow
  <1> HIDE DEF acc, acc2
  <1>7. /\ GoodAcc(acc2)
        /\ ExplainedBy(acc2, register, Undone, Done, Seen, late, Dead)
        /\ DOMAIN acc2.open \subseteq DOMAIN acc.open
        /\ \A q : q # p => Keeps(acc, acc2, q)
    <2>1. CASE op[p].type = "write"
      <3>1. acc2 = acc
        BY <1>3, <1>4, <2>1, UnmatchedLine
      <3> QED
        BY <1>5, <3>1 DEF Keeps
    <2>2. CASE op[p].type = "read"
      <3>1. InputOf(op[p]) = ReadInput
        BY <1>0, <2>2, OperationType
      <3>2. p \notin Done /\ p \notin Undone /\ p \notin Dead
        BY <1>0, <1>1, <2>2 DEF Done, Undone, Dead
      <3> QED
        BY <1>3, <1>4, <1>5, <2>2, <3>1, <3>2, ParseTimedOut
    <2> QED
      BY <1>0, <2>1, <2>2, OperationType
  <1>8. OpenInv'
    BY <1>1, <1>7, OpenAfterRecord DEF acc, acc2
  <1>9. Explained(acc2.events, acc2.open, register, Undone', Done', Seen', late', Dead')
    <2>1. Explained(acc2.events, acc2.open, register, Undone, Done, Seen, late, Dead)
      BY <1>7 DEF ExplainedBy
    <2> QED
      BY <1>1, <1>6, <2>1, ExplainedWithLess
  <1> QED
    BY <1>1, <1>7, <1>8, <1>9 DEF HistoryInv, ExplainedBy, acc2

-----------------------------------------------------------------------------
(* The theorems.                                                            *)

LEMMA HistoryInit == Init => HistoryInv
  <1> SUFFICES ASSUME Init PROVE HistoryInv
    OBVIOUS
  <1>1. Parsed = NothingParsed
    BY ParsedNothing, Zenon DEF Init, Parsed
  <1> DEFINE acc == NothingParsed
  <1>2. acc.events = <<>> /\ acc.next = 0 /\ DOMAIN acc.open = {} /\ DOMAIN acc.events = {}
    BY DEF NothingParsed
  <1>3. acc \in Accs
    BY NothingParsedType
  <1> HIDE DEF acc
  <1>4. GoodAcc(acc)
    <2>1. EachOnce(acc.events) /\ CalledBefore(acc.events) /\ Numbered(acc.events, acc.next)
      BY <1>2 DEF EachOnce, CalledBefore, Numbered
    <2>2. /\ OpenCalled(acc.events, acc.open) /\ OpenNotReturned(acc.events, acc.open)
          /\ OpenOrReturned(acc.events, acc.open) /\ OneOpen(acc.open)
      BY <1>2 DEF OpenCalled, OpenNotReturned, OpenOrReturned, OneOpen
    <2> QED
      BY <1>3, <2>1, <2>2 DEF GoodAcc, GoodHistory
  <1>5. OpenInv
    BY <1>1, <1>2 DEF Init, OpenInv, Busy, acc
  <1>6. Undone = {} /\ Done = {} /\ late = {} /\ register = NilValue
    BY DEF Init, Undone, Done, StartsNow
  <1>7. Explained(acc.events, acc.open, register, Undone, Done, Seen, late, Dead)
    <2> DEFINE lin == [k \in 1..0 |-> 0]
               st == [k \in 0..0 |-> NilValue]
    <2>1. LinTypes(0, lin, st, register) /\ LinOnce(0, lin)
      BY <1>6 DEF LinTypes, LinOnce, States
    <2> HIDE DEF lin, st
    <2>2. /\ LinCalled(acc.events, 0, lin) /\ LinReturned(acc.events, 0, lin)
          /\ LinTime(acc.events, 0, lin) /\ LinRun(acc.events, 0, lin, st)
          /\ LinAllowed(acc.events, 0, lin, st)
      BY <1>2 DEF LinCalled, LinReturned, LinTime, LinRun, LinAllowed
    <2>3. Lin(acc.events, 0, lin, st, register)
      BY <2>1, <2>2 DEF Lin
    <2>4. /\ OfUndone(acc.open, 0, lin, Undone) /\ OfDone(acc.open, 0, lin, st, Done, Seen)
          /\ OfLate(acc.events, acc.open, 0, lin, late, Dead)
      BY <1>6 DEF OfUndone, OfDone, OfLate
    <2> QED
      BY <2>3, <2>4 DEF Explained
  <1> QED
    BY <1>1, <1>4, <1>5, <1>7 DEF HistoryInv, ExplainedBy, acc

LEMMA HistoryNext ==
    ASSUME IInv, StateInv', [Next]_vars PROVE HistoryInv'
  <1>1. CASE UNCHANGED vars
    <2>1. /\ log' = log /\ loop' = loop /\ chosen' = chosen
          /\ stopped' = stopped /\ pc' = pc /\ op' = op
          /\ register' = register /\ effect' = effect /\ late' = late
      BY <1>1, Zenon DEF vars, logVars, loopVars, flagVars, procVars, stopVars, serviceVars
    <2>2. OpenInv'
      <3>1. HistoryInv
        BY DEF IInv
      <3>2. /\ \A q \in Processes : Busy(q)' => Busy(q) /\ op'[q] = op[q]
            /\ \A q \in Processes : Busy(q) \/ stopped[q] \/ StartsNow(q) =>
                                    Busy(q)' \/ stopped'[q] \/ StartsNow(q)'
        BY <2>1 DEF Busy, StartsNow
      <3> QED
        BY <2>1, <3>1, <3>2, OpenStays
    <2>3. Undone' = Undone /\ Done' = Done /\ Dead' = Dead
      BY <2>1 DEF Undone, Done, Dead, StartsNow
    <2> QED
      BY <2>1, <2>2, <2>3, HistoryWithLess DEF IInv
  <1>2. CASE Coordinator
    BY <1>2, QuietCoordinator, HistoryInvoke, HistoryStart DEF Coordinator
  <1>3. ASSUME NEW p \in Processes, Goroutine(p) PROVE HistoryInv'
    BY <1>3, QuietProcess, HistoryCallFails, HistoryCompleted, HistoryFailed DEF Goroutine
  <1>4. ASSUME NEW p \in Processes, TakeEffect(p) PROVE HistoryInv'
    BY <1>4, HistoryTakeEffect
  <1>5. ASSUME NEW v \in late, LateEffect(v) PROVE HistoryInv'
    BY <1>5, HistoryLateEffect
  <1>6. CASE Stop
    BY <1>6, QuietStop
  <1> QED
    BY <1>1, <1>2, <1>3, <1>4, <1>5, <1>6 DEF Next

(* At any moment of a run an order of the operations that took effect       *)
(* explains the lines written so far, and agrees with what each process     *)
(* awaits or has given up (lcm/manager.go, lcm/process.go).                 *)
THEOREM IInvHolds == Spec => []IInv
  <1>1. Init => IInv
    BY StateInit, HistoryInit DEF IInv
  <1>2. IInv /\ [Next]_vars => IInv'
    <2> SUFFICES ASSUME IInv, [Next]_vars PROVE IInv'
      OBVIOUS
    <2>1. StateInv'
      BY StateNext DEF IInv
    <2>2. HistoryInv'
      BY <2>1, HistoryNext
    <2> QED
      BY <2>1, <2>2 DEF IInv
  <1> QED
    BY <1>1, <1>2, PTL DEF Spec

(* A log saved at any moment is a history with one return for each call,    *)
(* behind it (SaveAsJepsenLog, parseJepsenLog).                             *)
THEOREM LogIsCompleteHolds == Spec => []LogIsComplete
  <1>1. IInv => LogIsComplete
    BY FinishedIsComplete, Zenon DEF IInv, HistoryInv, Parsed, LogIsComplete, Parse, SaveAsJepsenLog
  <1> QED
    BY <1>1, IInvHolds, PTL

(* No false alarm: of a service that behaves the checker is given a         *)
(* linearizable history, however late the records are written, whichever    *)
(* calls failed, and whenever what failed took effect.                      *)
THEOREM NoFalseAlarmHolds == Spec => []NoFalseAlarm
  <1>1. IInv => NoFalseAlarm
    <2> SUFFICES ASSUME IInv PROVE NoFalseAlarm
      OBVIOUS
    <2>1. GoodAcc(Parsed) /\ \E n, lin, st, reg : Lin(Parsed.events, n, lin, st, reg)
      BY DEF IInv, HistoryInv, ExplainedBy, Explained
    <2>2. Linearizable(Finish(Parsed))
      BY <2>1, FinishedIsLinearizable
    <2> QED
      BY <2>2, Zenon DEF Parsed, NoFalseAlarm, Parse, SaveAsJepsenLog
  <1> QED
    BY <1>1, IInvHolds, PTL

(* When Stop has returned, only a process that marked itself stopped and    *)
(* is about to close its pool has an open connection, and none is opened    *)
(* again: every process is stopped, and a dial after Cancel fails           *)
(* (Stop, lcm/manager.go; setStopped, lcm/process.go; getConnection).       *)
THEOREM NoConnectionLeftHolds == Spec => []NoConnectionLeft
  <1>1. IInv => NoConnectionLeft
    BY DEF IInv, StateInv, ConnectionsInv, MayBeOpen, Closing, NoConnectionLeft, Owners
  <1> QED
    BY <1>1, IInvHolds, PTL
=============================================================================
