------------------------------ MODULE Unicast ------------------------------
(***************************************************************************)
(* What the HTTP transport promises about a question an upstream asks: it  *)
(* is put to one session at most, only that session's answer counts, and   *)
(* it is settled once, by that answer or by being given up.                *)
(***************************************************************************)
CONSTANTS Requests, Sessions, Nobody, GivenUp

VARIABLES
    put,        \* the session a question was put to
    result      \* whose answer settled it, or GivenUp

vars == <<put, result>>

Init ==
    /\ put = [r \in Requests |-> Nobody]
    /\ result = [r \in Requests |-> Nobody]

Put(r, s) ==
    /\ put[r] = Nobody
    /\ put' = [put EXCEPT ![r] = s]
    /\ UNCHANGED result

Answer(r) ==
    /\ put[r] # Nobody
    /\ result[r] = Nobody
    /\ result' = [result EXCEPT ![r] = put[r]]
    /\ UNCHANGED put

(* Shutdown gives up on everything at once. *)
GiveUp(R) ==
    /\ \A r \in R : result[r] = Nobody
    /\ result' = [r \in Requests |-> IF r \in R THEN GivenUp ELSE result[r]]
    /\ UNCHANGED put

Next ==
    \/ \E r \in Requests : Answer(r) \/ \E s \in Sessions : Put(r, s)
    \/ \E R \in SUBSET Requests : GiveUp(R)

Spec == Init /\ [][Next]_vars
=============================================================================
