------------------------------- MODULE MCMrtr -------------------------------
(* Small instances of Mrtr for TLC: two calls, so that a question can be   *)
(* claimed by the newer one, fall to the older one, or be refused.         *)
EXTENDS Mrtr

CONSTANTS a1, a2, q1, q2

OneCall  == {a1}
TwoCalls == {a1, a2}
TwoQuestions == {q1, q2}

(* The calls are alike, and so are the questions: a1 starts and q1 is asked*)
(* first.                                                                  *)
Ordered ==
    /\ pc[a1] = "idle" => pc[a2] = "idle"
    /\ step[q1] = "unasked" => step[q2] = "unasked"
OrderedSpec == Init /\ [][Next /\ Ordered']_vars /\ Fairness
=============================================================================
