----------------------------- MODULE MCDelivery -----------------------------
(* Two consumers of different keys, one of which also filters; a channel of *)
(* two frames and a window of one id, so that both overflow.                *)
EXTENDS Delivery

CONSTANTS t1, t2, noId, c1, c2

MCTraceIds == {t1, t2}
MCConsumers == {c1, c2}
MCKeyOf == [c \in MCConsumers |-> IF c = c1 THEN "started" ELSE "ended"]
MCRoutes == [c \in MCConsumers |->
               IF c = c1 THEN {t1, t2} ELSE {t2}]
=============================================================================
