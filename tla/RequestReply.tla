---------------------------- MODULE RequestReply ----------------------------
(***************************************************************************)
(* What the gateway promises about one server->client request: somebody    *)
(* decides its outcome exactly once, or it is dropped with the connection  *)
(* that asked, and neither decision is ever revised.  Nothing is said of   *)
(* who decides (the client, the deadline, a transport giving up, the       *)
(* capability gate) nor of how the response travels.                       *)
(***************************************************************************)
CONSTANT Requests

VARIABLE fate

Fates == {"unasked", "waiting", "decided", "dropped"}

Move(r, from, to) ==
    /\ fate[r] = from
    /\ fate' = [fate EXCEPT ![r] = to]

Ask(r)    == Move(r, "unasked", "waiting")   \* parked until somebody decides
Refuse(r) == Move(r, "unasked", "decided")   \* turned down on the spot
Decide(r) == Move(r, "waiting", "decided")

(* Connections go away with everything they asked, so a drop takes a set. *)
Drop(R) ==
    /\ R # {}
    /\ \A r \in R : fate[r] = "waiting"
    /\ fate' = [r \in Requests |-> IF r \in R THEN "dropped" ELSE fate[r]]

Resolve(r) == Decide(r) \/ \E R \in SUBSET Requests : r \in R /\ Drop(R)

Init == fate = [r \in Requests |-> "unasked"]

Next ==
    \/ \E r \in Requests : Ask(r) \/ Refuse(r) \/ Decide(r)
    \/ \E R \in SUBSET Requests : Drop(R)

Safety == Init /\ [][Next]_fate

Spec == Safety /\ \A r \in Requests : WF_fate(Resolve(r))
=============================================================================
