----------------------------- MODULE CheckSpec -----------------------------
(***************************************************************************)
(* What a check of a history promises: a verdict that is the truth, unless *)
(* there is a time limit, when the answer may be "ok" without being known. *)
(***************************************************************************)
EXTENDS History

VARIABLES
    events,     \* the history under check
    limited,    \* there is a time limit
    verdict     \* "none", "ok" or "violation"

vars == <<events, limited, verdict>>

Init ==
    /\ Complete(events)
    /\ limited \in BOOLEAN
    /\ verdict = "none"

Decide ==
    /\ verdict = "none"
    /\ verdict' \in {"ok", "violation"}
    /\ verdict' = "ok" <=> Linearizable(events)
    /\ UNCHANGED <<events, limited>>

TimeOut ==
    /\ limited
    /\ verdict = "none"
    /\ verdict' = "ok"
    /\ UNCHANGED <<events, limited>>

Next == Decide \/ TimeOut

Spec == Init /\ [][Next]_vars /\ <>(verdict # "none")
=============================================================================
