------------------------------ MODULE MCParts -------------------------------
(* A small instance of each component of Parts for TLC. *)
EXTENDS Parts

Pair == {"a", "b"}

(* Lifecycle: one reload changes an upstream's command, the next replaces  *)
(* it by another.                                                          *)
Launch(a, b) == [launch |-> [n \in Pair |-> IF n = "a" THEN a ELSE b], restart |-> TRUE]
ListedOrder == <<"a", "b">>
ChangeThenSwap == <<Launch(1, 0), Launch(2, 0), Launch(0, 1)>>

(* Catalog: two configurations whose filters make the tools of a and b     *)
(* collide and part.                                                       *)
Named(ax, ay, bx, by) ==
    [n \in Pair |-> IF n = "a" THEN [t \in {"x", "y"} |-> IF t = "x" THEN ax ELSE ay]
                              ELSE [t \in {"x", "y"} |-> IF t = "x" THEN bx ELSE by]]
TwoFilters == <<Named(1, 3, 0, 3), Named(1, 0, 4, 4)>>
OneShared == [n \in Pair |-> {101}]
OneShape == [n \in Pair |-> {102}]

(* StdioServe: one frame of each kind the gates tell apart. *)
AFrame(kind, modern, able) == [kind |-> kind, modern |-> modern, able |-> able]
Frames == {
    AFrame("initialize", FALSE, TRUE), AFrame("initialize", TRUE, FALSE), AFrame("ping", FALSE, FALSE),
    AFrame("list", FALSE, FALSE), AFrame("call", TRUE, TRUE), AFrame("other", TRUE, FALSE),
    AFrame("answer", FALSE, FALSE)}
=============================================================================
