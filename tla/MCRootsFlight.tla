--------------------------- MODULE MCRootsFlight ----------------------------
(* A small instance of RootsFlight for TLC: three upstreams asking once    *)
(* each, so that a flight can be joined, expire and be followed by another *)
(* while the first one's answer is still under way.                        *)
EXTENDS RootsFlight

CONSTANTS u1, u2, u3

ThreeUpstreams == {u1, u2, u3}
=============================================================================
