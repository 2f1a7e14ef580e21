----------------------------- MODULE AtMostOnce -----------------------------
(***************************************************************************)
(* What the call path promises about a client's call: the upstream runs it *)
(* once at most, an answer is given only to a call that has run, and a     *)
(* call that was refused never runs, so that it may be repeated.           *)
(***************************************************************************)
EXTENDS Naturals

CONSTANTS Calls, None

VARIABLES
    runs,       \* how often the upstream was given the call
    verdict     \* what the client was told

vars == <<runs, verdict>>

Init ==
    /\ runs = [c \in Calls |-> 0]
    /\ verdict = [c \in Calls |-> None]

(* It may run after its client was told that it failed: a write that was   *)
(* given up on may still reach the upstream.                               *)
Run(c) ==
    /\ runs[c] = 0
    /\ verdict[c] \notin {"refused", "answered"}
    /\ runs' = [runs EXCEPT ![c] = 1]
    /\ UNCHANGED verdict

Conclude(c, v) ==
    /\ verdict[c] = None
    /\ v = "answered" => runs[c] = 1
    /\ v = "refused" => runs[c] = 0
    /\ verdict' = [verdict EXCEPT ![c] = v]
    /\ UNCHANGED runs

Next ==
    \E c \in Calls : Run(c) \/ \E v \in {"refused", "answered", "failed", "silence"} : Conclude(c, v)

Spec == Init /\ [][Next]_vars
=============================================================================
