----------------------------- MODULE Reconcile ------------------------------
(***************************************************************************)
(* What the sync promises of the two working copies, whatever way it goes  *)
(* about it (docs/SYNC.md, P1, P2, P10): two copies, a record of what they *)
(* agreed on, and the versions somebody has replaced or given up.  Module  *)
(* Mirror implements it.                                                   *)
(***************************************************************************)
CONSTANTS Place, Side, Version, Nothing

VARIABLES
    copy,      \* what each side holds
    agreed,    \* what the two are on record as having agreed on
    retired    \* <<p, v>>: version v of p, which somebody replaced

vars == <<copy, agreed, retired>>

Content == Version \cup {Nothing}

Gone(p, v) == v = Nothing \/ <<p, v>> \in retired

Init ==
    /\ agreed \in [Place -> Content]
    /\ copy = [s \in Side |-> agreed]
    /\ retired = {}

\* Somebody works on a side, and so replaces what it held.
Edits ==
    \E s \in Side, p \in Place, v \in Content :
        /\ v # copy[s][p]
        /\ copy' = [copy EXCEPT ![s][p] = v]
        /\ retired' = retired \cup ({<<p, copy[s][p]>>} \ {<<p, Nothing>>})
        /\ UNCHANGED agreed

\* The user's answer gives up versions a side holds.
GivesUp ==
    /\ retired' \in SUBSET (Place \X Version)
    /\ retired \subseteq retired'
    /\ \A r \in retired' \ retired : \E s \in Side : copy[s][r[1]] = r[2]
    /\ UNCHANGED <<copy, agreed>>

\* The sync writes to one side at one place: over nothing but what has been
\* replaced, and nothing of its own making.
Carries ==
    /\ \E s \in Side, p \in Place :
          /\ Gone(p, copy[s][p])
          /\ \E v \in Content :
                /\ Gone(p, v) \/ \E t \in Side : copy[t][p] = v
                /\ copy' = [copy EXCEPT ![s][p] = v]
    /\ UNCHANGED <<agreed, retired>>

\* It records as agreed only what each side holds, or has moved on from.
Agrees ==
    /\ agreed' \in [Place -> Content]
    /\ \A s \in Side, p \in Place : copy[s][p] = agreed'[p] \/ Gone(p, agreed'[p])
    /\ UNCHANGED <<copy, retired>>

Next == Edits \/ GivesUp \/ Carries \/ Agrees

Spec == Init /\ [][Next]_vars
=============================================================================
