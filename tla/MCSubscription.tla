--------------------------- MODULE MCSubscription ---------------------------
(* Two consumers that share a key the gateway refuses, or one it accepts,   *)
(* or that ask for one of each.                                             *)
EXTENDS Subscription

CONSTANTS c1, c2

MCConsumers == {c1, c2}
MCKeys == {"refused", "accepted"}

World(k1, k2) == [keyOf |-> [c \in MCConsumers |-> IF c = c1 THEN k1 ELSE k2],
                  rejected |-> {"refused"}]

MCSharedRefused == {World("refused", "refused")}
MCWorlds == MCSharedRefused
            \union {World("accepted", "accepted"), World("refused", "accepted")}
=============================================================================
