-------------------------------- MODULE Json --------------------------------
(***************************************************************************)
(* JSON values as encoding/json decodes them, reduced to what the walks    *)
(* over them tell apart: objects, arrays, scalars with their text, null.   *)
(***************************************************************************)
EXTENDS Sequences, Naturals

Object(f) == [t |-> "object", f |-> f]
Array(s) == [t |-> "array", e |-> s]
Scalar(text) == [t |-> "scalar", v |-> text]
Null == [t |-> "null"]

(***************************************************************************)
(* The leaves of a value, each with the steps that lead to it; a step      *)
(* names the key of an object or the place in an array.                    *)
(***************************************************************************)
Key(k) == [key |-> k, at |-> 0]
Place(i) == [key |-> "", at |-> i]
IsKey(step) == step.at = 0

RECURSIVE Leaves(_)
Leaves(v) ==
  LET under(step, w) == {[l EXCEPT !.steps = <<step>> \o @] : l \in Leaves(w)} IN
  CASE v.t = "object" -> UNION {under(Key(k), v.f[k]) : k \in DOMAIN v.f}
    [] v.t = "array"  -> UNION {under(Place(i), v.e[i]) : i \in DOMAIN v.e}
    [] OTHER          -> {[steps |-> <<>>, leaf |-> v]}

KeysOf(steps) ==
  LET keys == SelectSeq(steps, IsKey) IN [i \in DOMAIN keys |-> keys[i].key]
=============================================================================
