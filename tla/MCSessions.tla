----------------------------- MODULE MCSessions -----------------------------
(* A small instance of Sessions for TLC: two sessions, of which one may be *)
(* deleted or expire while the other's streams are served.                 *)
EXTENDS Sessions

CONSTANTS s1, s2, t1, t2, p1, p2, r1, r2

TwoIds == {s1, s2}
OneStream == {t1}
TwoStreams == {t1, t2}
OnePost == {p1}
OneRequest == {r1}
TwoRequests == {r1, r2}

(* Streams, sessions and questions are alike until they are opened or asked*)
Ordered ==
    /\ s2 \in live \cup gone => s1 \in live \cup gone
    /\ t1 \in Streams /\ t2 \in Streams => (at[t1] = "off" => at[t2] = "off")
    /\ r2 \in asked => r1 \in asked
OrderedSpec == Init /\ [][Next /\ Ordered']_vars /\ Fairness
=============================================================================
