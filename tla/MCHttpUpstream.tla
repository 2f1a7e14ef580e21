--------------------------- MODULE MCHttpUpstream ---------------------------
(* A small instance of HttpUpstream for TLC: one caller, which calls tools *)
(* and lists as it likes, and a server that forgets its sessions but never *)
(* fails.                                                                  *)
EXTENDS HttpUpstream

CONSTANTS a

OneCaller == {a}
ToolsAndLists == {"tool", "list"}
=============================================================================
