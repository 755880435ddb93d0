------------------------------ MODULE Versions ------------------------------
(***************************************************************************)
(* The order of versions that decides whether an update is announced       *)
(* (internal/notice/compare.go).  A version is its two lists of segments;  *)
(* a segment is a number or a text, texts being numbered in their order.   *)
(***************************************************************************)
EXTENDS Integers, Sequences

NumSeg(n) == [num |-> TRUE, val |-> n]
TextSeg(k) == [num |-> FALSE, val |-> k]

\* splitVersion: without the leading v, cut at the first hyphen.
Version(release, pre) == [release |-> release, pre |-> pre]

\* segInt: a missing segment and one that is not a number count as 0.
SegInt(segs, i) == IF i <= Len(segs) /\ segs[i].num THEN segs[i].val ELSE 0

Sign(x, y) == IF x < y THEN -1 ELSE IF x > y THEN 1 ELSE 0

Longer(s, t) == IF Len(s) > Len(t) THEN Len(s) ELSE Len(t)

\* The first difference decides; equal lists differ nowhere.
FirstSign(signs) ==
  LET at == {i \in DOMAIN signs : signs[i] # 0} IN
  IF at = {} THEN 0 ELSE signs[CHOOSE i \in at : \A j \in at : i <= j]

CompareSegments(a, b) ==
  IF a.num = b.num THEN Sign(a.val, b.val) ELSE IF a.num THEN -1 ELSE 1

\* A list that ends where the other goes on is the older one.
ComparePreRelease(a, b) ==
  FirstSign([i \in 1..Longer(a, b) |->
    IF i > Len(a) THEN -1 ELSE IF i > Len(b) THEN 1 ELSE CompareSegments(a[i], b[i])])

CompareRelease(a, b) == FirstSign([i \in 1..Longer(a, b) |-> Sign(SegInt(a, i), SegInt(b, i))])

Compare(current, target) ==
  LET release == CompareRelease(current.release, target.release) IN
  IF release # 0 THEN release
  ELSE IF current.pre = <<>> \/ target.pre = <<>>
       THEN Sign(IF current.pre = <<>> THEN 1 ELSE 0, IF target.pre = <<>> THEN 1 ELSE 0)
       ELSE ComparePreRelease(current.pre, target.pre)

-----------------------------------------------------------------------------
(***************************************************************************)
(* Any three versions are ordered: the comparison is antisymmetric and     *)
(* transitive, so a chain of updates cannot come back to where it began.   *)
(***************************************************************************)
OrderAgrees(a, b, c) ==
  /\ Compare(a, b) = -Compare(b, a)
  /\ Compare(a, b) <= 0 /\ Compare(b, c) <= 0 =>
       /\ Compare(a, c) <= 0
       /\ Compare(a, c) = 0 => Compare(a, b) = 0 /\ Compare(b, c) = 0
=============================================================================
