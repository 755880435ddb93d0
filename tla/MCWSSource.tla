----------------------------- MODULE MCWSSource -----------------------------
(* The constants are numbers, and those of the code: a backoff of 1 s to    *)
(* 30 s and a breaker of 30 failures.                                       *)
EXTENDS WSSource
=============================================================================
