-------------------------- MODULE MCServerRequests --------------------------
(* A small instance of ServerRequests for TLC: one upstream, restarted or  *)
(* reloaded once.                                                          *)
EXTENDS ServerRequests, TLC

CONSTANTS n1, c1, c2

OneName  == {n1}
TwoConns == {c1, c2}
Successive == c1 :> n1 @@ c2 :> n1
=============================================================================
