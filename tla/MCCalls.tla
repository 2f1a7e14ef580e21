------------------------------ MODULE MCCalls ------------------------------
(* Small instances of Calls for TLC. *)
EXTENDS Calls

CONSTANTS a, b, c1, c2

OneClient == {a}
TwoClients == {a, b}
TwoCalls == {c1, c2}
OneThenUnlimited == [g \in 0 .. MaxReloads |-> IF g = 0 THEN 1 ELSE 0]

(* Calls and ids are alike: c1 is the first to be issued and has id 1, and *)
(* is the tools/call if only one of the two is.                            *)
Ordered ==
    /\ pc[c1] = "idle" => pc[c2] = "idle"
    /\ id[c1] # 2
    /\ kind[c1] = "read" => kind[c2] # "tool"
OrderedSpec == Init /\ [][Next /\ Ordered']_vars /\ Fairness
=============================================================================
