------------------------------ MODULE MCRelist ------------------------------
(* Small instances of Relist for TLC. *)
EXTENDS Relist

CONSTANTS c1, c2, p1, p2

OneConn    == {c1}
TwoConns   == {c1, c2}
TwoRunners == {p1, p2}

(* Connections are alike until they are launched and runners while they    *)
(* are idle: c1 is launched first, and p2 starts only beside p1.           *)
InOrder ==
    /\ status'[c2] # "unborn" => status'[c1] # "unborn"
    /\ pc[p2] = "idle" /\ pc'[p2] # "idle" => pc[p1] # "idle"
OrderedSpec == Init /\ [][Next /\ InOrder]_vars /\ Fairness
=============================================================================
