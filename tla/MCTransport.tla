---------------------------- MODULE MCTransport ----------------------------
(* Instances of Transport for TLC. *)
EXTENDS Transport

x == "char"
nl == "newline"

\* Two lines, a line and an invalid byte, too long a line.
SomeScripts == {<<nl, x, nl>>, <<nl, x, "invalid">>, <<x, x, x>>}
============================================================================
