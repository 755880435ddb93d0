------------------------------- MODULE Fields -------------------------------
(***************************************************************************)
(* What --compact keeps of an answer, what is deleted from one and which   *)
(* fields are converted (internal/utils/filter.go, converter.go).  A rule  *)
(* is a path of keys; a path of one key is a name and applies anywhere.    *)
(***************************************************************************)
EXTENDS Json, SequencesExt

Names(rules) == {p[1] : p \in {q \in rules : Len(q) = 1}}
Paths(rules) == {p \in rules : Len(p) > 1}

\* Without the check for a leaf, a longer path narrows a shorter one.
AddPathOverLeaf(tree, path) ==
  {p \in tree : ~IsPrefix(p, path) /\ ~IsPrefix(path, p)} \cup {path}

(***************************************************************************)
(* The tree of the paths, as the set of its leaves.  A path below a leaf   *)
(* adds nothing, a leaf above others takes their place.                    *)
(***************************************************************************)
AddPathToTree(tree, path) ==
  IF \E p \in tree : IsPrefix(p, path) THEN tree
  ELSE {p \in tree : ~IsPrefix(path, p)} \cup {path}

PathTree(paths) == FoldLeft(AddPathToTree, {}, paths)

Roots(tree) == {p[1] : p \in tree}
Below(tree, k) == {Tail(p) : p \in {q \in tree : q[1] = k}}
IsLeafOf(tree, k) == <<k>> \in tree

RECURSIVE HasNameMatchInside(_, _, _)
HasNameMatchInside(v, depth, names) ==
  /\ depth > 0
  /\ CASE v.t = "object" -> \E k \in DOMAIN v.f :
                              k \in names \/ HasNameMatchInside(v.f[k], depth - 1, names)
       [] v.t = "array"  -> \E i \in DOMAIN v.e : HasNameMatchInside(v.e[i], depth - 1, names)
       [] OTHER          -> FALSE

RECURSIVE KeepRecursive(_, _, _, _)
KeepRecursive(v, depth, names, tree) ==
  LET keeps(k) == k \in names \/ k \in Roots(tree)
                              \/ HasNameMatchInside(v.f[k], depth - 1, names)
      kept(k) == IF k \in names \/ IsLeafOf(tree, k) THEN v.f[k]
                 ELSE KeepRecursive(v.f[k], depth - 1, names, Below(tree, k)) IN
  IF depth = 0 THEN v
  ELSE CASE v.t = "object" -> Object([k \in {j \in DOMAIN v.f : keeps(j)} |-> kept(k)])
         [] v.t = "array" -> Array([i \in DOMAIN v.e |-> KeepRecursive(v.e[i], depth - 1, names, tree)])
         [] OTHER -> v

RECURSIVE DeleteRecursive(_, _, _, _)
DeleteRecursive(v, depth, names, tree) ==
  LET drops(k) == k \in names \/ IsLeafOf(tree, k)
      left(k) == DeleteRecursive(v.f[k], depth - 1, names, Below(tree, k)) IN
  IF depth = 0 THEN v
  ELSE CASE v.t = "object" -> Object([k \in {j \in DOMAIN v.f : ~drops(j)} |-> left(k)])
         [] v.t = "array" -> Array([i \in DOMAIN v.e |-> DeleteRecursive(v.e[i], depth - 1, names, tree)])
         [] OTHER -> v

KeepFields(v, depth, rules) ==
  IF rules = {} THEN v
  ELSE KeepRecursive(v, depth, Names(rules), PathTree(SetToSeq(Paths(rules))))

DeleteFields(v, depth, rules) ==
  IF rules = {} THEN v
  ELSE DeleteRecursive(v, depth, Names(rules), PathTree(SetToSeq(Paths(rules))))

(***************************************************************************)
(* A converter changes a scalar and returns anything else as it is.        *)
(***************************************************************************)
Converted(v) == IF v.t = "scalar" THEN [v EXCEPT !.v = @ \o "*"] ELSE v

RECURSIVE ConvertRecursive(_, _, _)
ConvertRecursive(v, depth, names) ==
  IF depth = 0 THEN v
  ELSE CASE v.t = "object" -> Object([k \in DOMAIN v.f |->
                                IF k \in names THEN Converted(v.f[k])
                                ELSE ConvertRecursive(v.f[k], depth - 1, names)])
         [] v.t = "array" -> Array([i \in DOMAIN v.e |-> ConvertRecursive(v.e[i], depth - 1, names)])
         [] OTHER -> v

RECURSIVE ConvertByPath(_, _)
ConvertByPath(v, path) ==
  CASE v.t = "object" /\ Head(path) \in DOMAIN v.f ->
         Object([v.f EXCEPT ![Head(path)] =
           IF Len(path) = 1 THEN Converted(@) ELSE ConvertByPath(@, Tail(path))])
    [] v.t = "array" -> Array([i \in DOMAIN v.e |-> ConvertByPath(v.e[i], path)])
    [] OTHER         -> v

ConvertFields(v, depth, rules) ==
  IF depth = 0 THEN v
  ELSE FoldLeft(ConvertByPath, ConvertRecursive(v, depth, Names(rules)), SetToSeq(Paths(rules)))

-----------------------------------------------------------------------------
(***************************************************************************)
(* The same by leaves.  Only the keys above the depth count; a leaf is     *)
(* named when one of them is a name.                                       *)
(***************************************************************************)
Seen(l, depth) == KeysOf(SubSeq(l.steps, 1, IF Len(l.steps) < depth THEN Len(l.steps) ELSE depth))
Named(l, depth, rules) == \E i \in DOMAIN Seen(l, depth) : Seen(l, depth)[i] \in Names(rules)
UnderPath(l, depth, rules) == \E p \in Paths(rules) : IsPrefix(p, Seen(l, depth))

\* A bare element of an array stays with what is named below the same key.
InArray(l) == l.steps # <<>> /\ ~IsKey(Last(l.steps))
Holder(l) ==
  LET keys == {i \in DOMAIN l.steps : IsKey(l.steps[i])} IN
  SubSeq(l.steps, 1, IF keys = {} THEN 0 ELSE Max(keys))

\* A leaf of which only arrays are seen, or that ends inside a path, stays.
KeptLeaf(l, v, depth, rules) ==
  \/ rules = {}
  \/ Named(l, depth, rules) \/ UnderPath(l, depth, rules)
  \/ Seen(l, depth) = <<>>
  \/ \E p \in Paths(rules) : IsPrefix(Seen(l, depth), p)
  \/ InArray(l) /\ \E m \in Leaves(v) : IsPrefix(Holder(l), m.steps) /\ Named(m, depth, rules)

KeepAgrees(v, depth, rules) ==
  Leaves(KeepFields(v, depth, rules)) = {l \in Leaves(v) : KeptLeaf(l, v, depth, rules)}

DeleteAgrees(v, depth, rules) ==
  Leaves(DeleteFields(v, depth, rules))
    = {l \in Leaves(v) : ~Named(l, depth, rules) /\ ~UnderPath(l, depth, rules)}

\* By name once, if no key above it had a converter; by its whole path once.
EndsInKey(l) == l.steps # <<>> /\ IsKey(Last(l.steps)) /\ l.leaf.t = "scalar"
ByName(l, depth, rules) ==
  /\ EndsInKey(l) /\ Len(l.steps) <= depth
  /\ Last(l.steps).key \in Names(rules)
  /\ \A i \in 1..(Len(l.steps) - 1) : ~(IsKey(l.steps[i]) /\ l.steps[i].key \in Names(rules))
ByPath(l, rules) == EndsInKey(l) /\ KeysOf(l.steps) \in Paths(rules)

ConvertAgrees(v, depth, rules) ==
  Leaves(ConvertFields(v, depth, rules)) =
    {[l EXCEPT !.leaf =
        LET named == IF ByName(l, depth, rules) THEN Converted(@) ELSE @
        IN  IF ByPath(l, rules) THEN Converted(named) ELSE named] : l \in Leaves(v)}

\* Which path comes first does not matter.
OrderOfPathsIsIrrelevant(p, q) ==
  AddPathToTree(AddPathToTree({}, p), q) = AddPathToTree(AddPathToTree({}, q), p)
=============================================================================
