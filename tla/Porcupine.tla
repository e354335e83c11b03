----------------------------- MODULE Porcupine -----------------------------
(***************************************************************************)
(* The linearizability checker (lcm/porcupine): CheckEventsTimeout and the *)
(* search of checkSingle, on the linked list of events that it takes       *)
(* operations out of and puts them back into.                              *)
(*                                                                         *)
(* A node of the list is the position of its event in the history.  The    *)
(* bit set of linearized operations is a set of their ids; the cache is    *)
(* the set of its entries, for the hash only finds them faster.  There is  *)
(* one partition, for the register has one key, so that the kill flag is   *)
(* never seen by a search.                                                 *)
(***************************************************************************)
EXTENDS History

CONSTANT Histories

\* What the parser makes of a log (LogIsComplete of HistoryRecorder).
ASSUME HistoriesAssumption == \A h \in Histories : Complete(h)

VARIABLES
    events,      \* the history
    limited,     \* CheckEventsTimeout was given a timeout
    next, prev,  \* the links of the nodes
    linearized,  \* ids of the operations that are taken out
    cache,       \* pairs of such a set and a state that have been reached
    calls,       \* stack of [entry, state]: what to go back to
    state,       \* the state of the register
    entry,       \* the node that is looked at
    result,      \* what checkSingle sent: "none", "ok" or "violation"
    verdict      \* what CheckEventsTimeout returned, or "none"

searchVars == <<next, prev, linearized, cache, calls, state, entry, result>>
vars == <<events, limited, searchVars, verdict>>

Nodes == DOMAIN events
Head0 == 0                  \* headEntry
Nil   == Len(events) + 1

\* match: the return of a call; it is nil for a return.
Match(e)  == ReturnAt(events, events[e].id)
IsCall(e) == events[e].kind = "call"

-----------------------------------------------------------------------------
(* makeLinkedEntries, and headEntry put before the list.                   *)

Init ==
    /\ events \in Histories
    /\ limited \in BOOLEAN
    /\ next = [e \in Nodes \cup {Head0} |-> e + 1]
    /\ prev = [e \in Nodes |-> e - 1]
    /\ linearized = {}
    /\ cache = {}
    /\ calls = <<>>
    /\ state = NilValue
    /\ entry = 1
    /\ result = "none"
    /\ verdict = "none"

\* lift: take a call and its return out of the list.
Link(links, e, to) == IF e = Nil THEN links ELSE [links EXCEPT ![e] = to]

Lift(e) ==
    LET m == Match(e)
        n1 == [next EXCEPT ![prev[e]] = next[e]]
        p1 == Link(prev, next[e], prev[e])
    IN  /\ next' = [n1 EXCEPT ![p1[m]] = n1[m]]
        /\ prev' = Link(p1, n1[m], p1[m])

\* Faulty variant: what follows the return keeps its link past it.
UnliftOneWay(e) ==
    LET m == Match(e)
        n1 == [next EXCEPT ![prev[m]] = m]
    IN  /\ next' = [n1 EXCEPT ![prev[e]] = e]
        /\ prev' = Link(prev, n1[e], e)

\* unlift: put them back, in the opposite order.
Unlift(e) ==
    LET m == Match(e)
        n1 == [next EXCEPT ![prev[m]] = m]
        p1 == Link(prev, next[m], m)
    IN  /\ next' = [n1 EXCEPT ![p1[e]] = e]
        /\ prev' = Link(p1, n1[e], e)

-----------------------------------------------------------------------------
(* The loop of checkSingle.                                                *)

Searching == result = "none" /\ verdict = "none"

\* The call at the entry may come next, and leads to something new.
MayLinearize == Allowed(events, state, events[entry].id)
NewEntry     == <<linearized \cup {events[entry].id}, After(events, state, events[entry].id)>>

\* Faulty variant: the cache is asked for the operations only.
CachedByOperations == \E c \in cache : c[1] = NewEntry[1]

Cached == NewEntry \in cache

\* After an operation is taken out, the search starts again from the front.
Restart == next'[Head0]

Clear(e) == linearized \ {events[e].id}

Linearize ==
    /\ Searching
    /\ next[Head0] # Nil
    /\ IsCall(entry)
    /\ MayLinearize
    /\ ~Cached
    /\ cache' = cache \cup {NewEntry}
    /\ calls' = Append(calls, [entry |-> entry, state |-> state])
    /\ state' = NewEntry[2]
    /\ linearized' = NewEntry[1]
    /\ Lift(entry)
    /\ entry' = Restart
    /\ UNCHANGED <<events, limited, result, verdict>>

Skip ==
    /\ Searching
    /\ next[Head0] # Nil
    /\ IsCall(entry)
    /\ ~MayLinearize \/ Cached
    /\ entry' = next[entry]
    /\ UNCHANGED <<events, limited, next, prev, linearized, cache, calls, state,
                   result, verdict>>

\* A return is reached: nothing can come next, so the last choice is undone.
Backtrack ==
    /\ Searching
    /\ next[Head0] # Nil
    /\ ~IsCall(entry)
    /\ calls # <<>>
    /\ LET top == calls[Len(calls)]
       IN  /\ state' = top.state
           /\ linearized' = Clear(top.entry)
           /\ calls' = SubSeq(calls, 1, Len(calls) - 1)
           /\ Unlift(top.entry)
           /\ entry' = next'[top.entry]
    /\ UNCHANGED <<events, limited, cache, result, verdict>>

Exhausted ==
    /\ Searching
    /\ next[Head0] # Nil
    /\ ~IsCall(entry)
    /\ calls = <<>>
    /\ result' = "violation"
    /\ UNCHANGED <<events, limited, next, prev, linearized, cache, calls, state,
                   entry, verdict>>

Done ==
    /\ Searching
    /\ next[Head0] = Nil
    /\ result' = "ok"
    /\ UNCHANGED <<events, limited, next, prev, linearized, cache, calls, state,
                   entry, verdict>>

-----------------------------------------------------------------------------
(* The select of CheckEventsTimeout.                                       *)

Receive ==
    /\ verdict = "none"
    /\ result # "none"
    /\ verdict' = result
    /\ UNCHANGED <<events, limited, searchVars>>

\* Out of time the answer is that nothing was found.
TimeOut ==
    /\ limited
    /\ verdict = "none"
    /\ verdict' = "ok"
    /\ UNCHANGED <<events, limited, searchVars>>

Search == Linearize \/ Skip \/ Backtrack \/ Exhausted \/ Done

Next == Search \/ Receive \/ TimeOut

\* The search runs on and its result is taken; a timer need not be in time.
Spec == Init /\ [][Next]_vars /\ WF_vars(Search) /\ WF_vars(Receive)

-----------------------------------------------------------------------------

(* The list is that of the events whose operation is not linearized, in    *)
(* the order of the history, whatever was lifted and put back before: this *)
(* is what lets unlift (lcm/porcupine/porcupine.go:147) find its place by  *)
(* links that were set many steps earlier.  The loop stands at a node of   *)
(* it, not behind a return, so that entry.match (line 170) is not nil.     *)
Listed == {e \in Nodes : events[e].id \notin linearized}
Between(e, f) == {g \in Listed : e < g /\ g < f}
ListIsHistory ==
    /\ \A e \in Listed \cup {Head0} :
          /\ next[e] \in Listed \cup {Nil}
          /\ e < next[e]
          /\ Between(e, next[e]) = {}
          /\ next[e] # Nil => prev[next[e]] = e
    /\ Searching /\ next[Head0] # Nil =>
          /\ entry \in Listed
          /\ \A e \in Listed : e < entry => IsCall(e)

(* The verdict is the definition's: "violation" only and always for a      *)
(* history that no order of its operations explains, and there is one in   *)
(* the end.                                                                *)
Check == INSTANCE CheckSpec
VerdictIsTrue == Check!Spec
=============================================================================
