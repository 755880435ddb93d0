---------------------------- MODULE DedupProofs ----------------------------
(***************************************************************************)
(* Proofs about Dedup for every capacity and every set of trace ids: the   *)
(* ring and the map agree, and together they implement DedupWindow.        *)
(***************************************************************************)
EXTENDS Dedup, TLAPS

DedupInv == DedupTypeOK /\ RingMatchesMap

\* NewDedup never yields an empty ring, whatever capacity it is asked for.
LEMMA CapPositive == Cap \in Nat \ {0}
  BY DedupAssumption DEF Cap, DefaultDedupCapacity

\* Advancing next stays inside the ring.
LEMMA NextSlot ==
  ASSUME NEW i \in Slots
  PROVE  /\ (i + 1) % Cap \in Slots
         /\ (i + 1) % Cap = IF i = Cap - 1 THEN 0 ELSE i + 1
<1>1. CASE i = Cap - 1
  <2>1. (i + 1) % Cap = 0
    BY <1>1, CapPositive
  <2> QED
    BY <2>1, <1>1, CapPositive DEF Slots
<1>2. CASE i # Cap - 1
  <2>1. i + 1 \in 0..(Cap - 1)
    BY <1>2, CapPositive DEF Slots
  <2>2. (i + 1) % Cap = i + 1
    BY <2>1, CapPositive
  <2> QED
    BY <2>1, <2>2, <1>2 DEF Slots
<1> QED
  BY <1>1, <1>2

-----------------------------------------------------------------------------
\* Recording a new id keeps the type of every variable and the agreement of
\* ring and map: the only interesting step of Dedup.
LEMMA SeenNewKeepsInv ==
  ASSUME DedupInv, NEW t \in TraceIds, SeenNew(t)
  PROVE  DedupInv'
<1> USE DEF DedupInv
<1>1. t # NoId
  BY DedupAssumption
<1>2. next \in Slots /\ ring \in [Slots -> TraceIds \union {NoId}]
  BY DEF DedupTypeOK
<1>3. ring' = [ring EXCEPT ![next] = t]
  BY DEF SeenNew
<1>4. \A i \in Slots : ring'[i] = IF i = next THEN t ELSE ring[i]
  BY <1>2, <1>3
<1>5. \A i \in Slots : ring[i] # t
  BY <1>1 DEF RingMatchesMap, SeenNew
<1>6. DedupTypeOK'
  <2>1. next' \in Slots
    BY <1>2, NextSlot DEF SeenNew
  <2> QED
    BY <2>1, <1>2, <1>3 DEF DedupTypeOK, SeenNew, Verdict
<1>7. RingMatchesMap'
  <2>1. \A i, j \in Slots : ring'[i] = ring'[j] /\ ring'[i] # NoId => i = j
    BY <1>4, <1>5 DEF RingMatchesMap
  <2>2. ASSUME NEW x \in present' PROVE x \in {ring'[i] : i \in Slots} \ {NoId}
    <3>1. CASE x = t
      BY <3>1, <1>1, <1>2, <1>4
    <3>2. CASE x # t
      <4>1. x \in present /\ x # ring[next]
        BY <2>2, <3>2 DEF SeenNew
      <4>2. PICK i \in Slots : ring[i] = x
        BY <4>1 DEF RingMatchesMap
      <4>3. i # next /\ x # NoId
        BY <4>1, <4>2 DEF RingMatchesMap
      <4> QED
        BY <4>2, <4>3, <1>4
    <3> QED
      BY <3>1, <3>2
  <2>3. ASSUME NEW i \in Slots, ring'[i] # NoId PROVE ring'[i] \in present'
    <3>1. CASE i = next
      BY <3>1, <1>4 DEF SeenNew
    <3>2. CASE i # next
      <4>1. ring'[i] = ring[i] /\ ring[i] \in present
        BY <2>3, <3>2, <1>4 DEF RingMatchesMap
      <4>2. ring[i] # ring[next]
        BY <2>3, <3>2, <4>1, <1>2 DEF RingMatchesMap
      <4> QED
        BY <4>1, <4>2 DEF SeenNew
    <3> QED
      BY <3>1, <3>2
  <2>4. present' = {ring'[i] : i \in Slots} \ {NoId}
    BY <2>2, <2>3
  <2> QED
    BY <2>1, <2>4 DEF RingMatchesMap
<1> QED
  BY <1>6, <1>7

\* The typing of Dedup's state and RingMatchesMap hold in every reachable
\* state.
THEOREM DedupInvariant == DedupSpec => []DedupInv
<1>1. DedupInit => DedupInv
  BY CapPositive, DedupAssumption
     DEF DedupInit, DedupInv, DedupTypeOK, RingMatchesMap, Slots, Verdict
<1>2. DedupInv /\ [DedupNext]_dedupVars => DedupInv'
  <2> SUFFICES ASSUME DedupInv, [DedupNext]_dedupVars PROVE DedupInv'
    OBVIOUS
  <2>1. CASE SeenUnnamed
    BY <2>1 DEF SeenUnnamed, DedupInv, DedupTypeOK, RingMatchesMap, Verdict
  <2>2. ASSUME NEW t \in TraceIds, SeenDuplicate(t) PROVE DedupInv'
    BY <2>2 DEF SeenDuplicate, DedupInv, DedupTypeOK, RingMatchesMap, Verdict
  <2>3. ASSUME NEW t \in TraceIds, SeenNew(t) PROVE DedupInv'
    BY <2>3, SeenNewKeepsInv
  <2>4. CASE UNCHANGED dedupVars
    BY <2>4 DEF dedupVars, DedupInv, DedupTypeOK, RingMatchesMap
  <2> QED
    BY <2>1, <2>2, <2>3, <2>4 DEF DedupNext
<1> QED
  BY <1>1, <1>2, PTL DEF DedupSpec

-----------------------------------------------------------------------------
\* Under the invariant the age of an id is the age of the one slot that holds
\* it, before a step and after it.
LEMMA AgeOfSlot ==
  ASSUME DedupInv, NEW t \in TraceIds, NEW i \in Slots, ring[i] = t
  PROVE  AgeOf(t) = SlotAge(i)
<1>1. t # NoId
  BY DedupAssumption
<1>2. (CHOOSE j \in Slots : ring[j] = t) = i
  BY <1>1 DEF DedupInv, RingMatchesMap
<1> QED
  BY <1>2 DEF AgeOf

LEMMA AgeOfSlotAfter ==
  ASSUME DedupInv', NEW t \in TraceIds, NEW i \in Slots, ring'[i] = t
  PROVE  AgeOf(t)' = SlotAge(i)'
<1>1. t # NoId
  BY DedupAssumption
<1>2. (CHOOSE j \in Slots : ring'[j] = t) = i
  BY <1>1 DEF DedupInv, RingMatchesMap
<1>3. AgeOf(t)' = (IF i < next' THEN next' - i ELSE next' - i + Cap)
  BY <1>2 DEF AgeOf, SlotAge
<1> QED
  BY <1>3 DEF SlotAge

\* An id that no slot holds has age 0, before a step and after it.
LEMMA AgeOfAbsent ==
  ASSUME NEW t, \A i \in Slots : ring[i] # t
  PROVE  AgeOf(t) = 0
  BY DEF AgeOf

LEMMA AgeOfAbsentAfter ==
  ASSUME NEW t, \A i \in Slots : ring'[i] # t
  PROVE  AgeOf(t)' = 0
  BY DEF AgeOf

\* Having an age is being present in the map.
LEMMA AgeIsPresence ==
  ASSUME DedupInv, NEW t \in TraceIds
  PROVE  /\ t \in present => AgeOf(t) \in 1..Cap
         /\ t \notin present => AgeOf(t) = 0
<1>1. ASSUME t \in present PROVE AgeOf(t) \in 1..Cap
  <2>1. PICK i \in Slots : ring[i] = t /\ t # NoId
    BY <1>1 DEF DedupInv, RingMatchesMap
  <2>2. AgeOf(t) = SlotAge(i)
    BY <2>1, AgeOfSlot
  <2> QED
    BY <2>2, CapPositive DEF SlotAge, Slots, DedupInv, DedupTypeOK
<1>2. ASSUME t \notin present PROVE AgeOf(t) = 0
  <2>1. \A i \in Slots : ring[i] # t
    BY <1>2, DedupAssumption DEF DedupInv, RingMatchesMap
  <2> QED
    BY <2>1, AgeOfAbsent
<1> QED
  BY <1>1, <1>2

\* The step of next makes every slot one older; the slot it leaves is the
\* youngest.
LEMMA SlotAgeStep ==
  ASSUME DedupInv, next' = (next + 1) % Cap, NEW i \in Slots
  PROVE  /\ SlotAge(i) \in 1..Cap
         /\ SlotAge(i)' = IF i = next THEN 1 ELSE SlotAge(i) + 1
         /\ i = next <=> SlotAge(i) = Cap
<1>1. next \in Slots
  BY DEF DedupInv, DedupTypeOK
<1>2. next' = IF next = Cap - 1 THEN 0 ELSE next + 1
  BY <1>1, NextSlot
<1> QED
  BY <1>1, <1>2, CapPositive DEF SlotAge, Slots

\* Dedup implements the window of the last Cap distinct ids: this is the
\* property DedupImplementsWindow of the runs, for every capacity.
THEOREM DedupRefinesWindow == DedupSpec => DedupImplementsWindow
<1> DEFINE ages == [t \in TraceIds |-> AgeOf(t)]
<1>1. DedupInit => Window!WindowInit
  <2> SUFFICES ASSUME DedupInit PROVE Window!WindowInit
    OBVIOUS
  <2>1. \A t \in TraceIds : \A i \in Slots : ring[i] # t
    BY DedupAssumption DEF DedupInit
  <2>2. \A t \in TraceIds : AgeOf(t) = 0
    BY <2>1, AgeOfAbsent
  <2> QED
    BY <2>2 DEF DedupInit, Window!WindowInit, Verdict, Window!Verdict
<1>2. DedupInv /\ DedupInv' /\ [DedupNext]_dedupVars
        => [Window!WindowNext]_(Window!windowVars)
  <2> SUFFICES ASSUME DedupInv, DedupInv', [DedupNext]_dedupVars
               PROVE  [Window!WindowNext]_(Window!windowVars)
    OBVIOUS
  <2>0. ASSUME UNCHANGED <<ring, next>> PROVE ages' = ages
    BY <2>0 DEF AgeOf, SlotAge
  <2>1. CASE SeenUnnamed
    BY <2>0, <2>1 DEF SeenUnnamed, Window!WindowNext, Window!PassUnnamed,
                      Verdict, Window!Verdict
  <2>2. ASSUME NEW t \in TraceIds, SeenDuplicate(t)
        PROVE  Window!Suppress(t)
    <3>1. AgeOf(t) # 0
      BY <2>2, AgeIsPresence DEF SeenDuplicate
    <3> QED
      BY <2>0, <2>2, <3>1 DEF SeenDuplicate, Window!Suppress, Verdict,
                              Window!Verdict
  <2>3. ASSUME NEW t \in TraceIds, SeenNew(t)
        PROVE  Window!Record(t)
    <3>1. next \in Slots /\ ring \in [Slots -> TraceIds \union {NoId}]
      BY DEF DedupInv, DedupTypeOK
    <3>2. \A i \in Slots : ring'[i] = IF i = next THEN t ELSE ring[i]
      BY <2>3, <3>1 DEF SeenNew
    <3>3. AgeOf(t) = 0
      BY <2>3, AgeIsPresence DEF SeenNew
    <3>4. next' = (next + 1) % Cap
      BY <2>3 DEF SeenNew
    <3>5. ASSUME NEW u \in TraceIds
          PROVE  AgeOf(u)' = IF u = t THEN 1
                             ELSE IF AgeOf(u) \in 1..(Cap - 1) THEN AgeOf(u) + 1
                             ELSE 0
      <4>1. CASE u = t
        <5>1. PICK i \in Slots : i = next
          BY <3>1
        <5>2. AgeOf(t)' = SlotAge(i)'
          BY <5>1, <3>2, AgeOfSlotAfter
        <5> QED
          BY <4>1, <5>1, <5>2, <3>4, SlotAgeStep
      <4>2. CASE u # t /\ \E i \in Slots : ring[i] = u /\ i # next
        <5>1. PICK i \in Slots : ring[i] = u /\ i # next
          BY <4>2
        <5>2. AgeOf(u)' = SlotAge(i)'
          BY <5>1, <3>2, AgeOfSlotAfter
        <5>3. AgeOf(u) = SlotAge(i)
          BY <5>1, AgeOfSlot
        <5>4. /\ SlotAge(i) \in 1..Cap /\ SlotAge(i) # Cap
              /\ SlotAge(i)' = SlotAge(i) + 1
          BY <5>1, <3>4, SlotAgeStep
        <5> QED
          BY <4>2, <5>2, <5>3, <5>4, CapPositive
      <4>3. CASE u # t /\ \A i \in Slots : ring[i] = u => i = next
        <5>1. \A i \in Slots : ring'[i] # u
          BY <4>3, <3>2
        <5>2. AgeOf(u)' = 0
          BY <5>1, AgeOfAbsentAfter
        <5>3. AgeOf(u) = 0 \/ AgeOf(u) = Cap
          <6>1. CASE \A i \in Slots : ring[i] # u
            BY <6>1, AgeOfAbsent
          <6>2. CASE \E i \in Slots : ring[i] = u
            <7>1. PICK i \in Slots : ring[i] = u /\ i = next
              BY <6>2, <4>3
            <7> QED
              BY <7>1, <3>4, AgeOfSlot, SlotAgeStep
          <6> QED
            BY <6>1, <6>2
        <5> QED
          BY <4>3, <5>2, <5>3, CapPositive
      <4> QED
        BY <4>1, <4>2, <4>3
    <3> QED
      BY <2>3, <3>3, <3>5 DEF SeenNew, Window!Record, Verdict, Window!Verdict
  <2>4. CASE UNCHANGED dedupVars
    BY <2>0, <2>4 DEF dedupVars, Window!windowVars
  <2> QED
    BY <2>1, <2>2, <2>3, <2>4 DEF DedupNext, Window!WindowNext
<1> QED
  BY <1>1, <1>2, DedupInvariant, PTL
     DEF DedupSpec, DedupImplementsWindow, Window!WindowSpec
=============================================================================
