------------------------------ MODULE Register ------------------------------
(***************************************************************************)
(* What internal/core/filecache promises for a key: one value that a Set   *)
(* replaces and a Delete or a Purge removes at one moment, that is fresh   *)
(* until its TTL is over, and that a Get sees whole or not at all.         *)
(***************************************************************************)
EXTENDS Naturals

CONSTANTS
  Readers,   \* the processes that call Get
  Versions   \* the payloads ever stored, positive numbers

VARIABLES
  value,   \* the payload stored, 0 for none, and whether its TTL lasts
  answer   \* answer[p]: what the last Get of p returned, 0 for a miss

registerVars == <<value, answer>>

Nothing == [payload |-> 0, fresh |-> FALSE]

RegisterInit ==
  /\ value = Nothing
  /\ answer = [p \in Readers |-> 0]

Put(v) == value' = [payload |-> v, fresh |-> TRUE] /\ UNCHANGED answer
Remove == value' = Nothing /\ UNCHANGED answer
Lapse == value' = [payload |-> value.payload, fresh |-> FALSE] /\ UNCHANGED answer
Read(p) ==
  /\ answer' = [answer EXCEPT ![p] = IF value.fresh THEN value.payload ELSE 0]
  /\ UNCHANGED value

RegisterNext ==
  \/ \E v \in Versions : Put(v)
  \/ Remove \/ Lapse
  \/ \E p \in Readers : Read(p)

RegisterSpec == RegisterInit /\ [][RegisterNext]_registerVars
=============================================================================
