---------------------------- MODULE MCBusServer ----------------------------
(* Three connections: two that ask for the same key, so that a reference    *)
(* count reaches 2, and one for another key.                                *)
EXTENDS BusServer

CONSTANTS c1, c2, c3

MCConns == {c1, c2, c3}
MCKeys == {"started", "ended"}
MCKeyOf == [c \in MCConns |-> IF c = c3 THEN "ended" ELSE "started"]
=============================================================================
