------------------------------- MODULE Dedup -------------------------------
(***************************************************************************)
(* internal/event/dedup.go: the bounded set of trace ids already seen, a   *)
(* ring of Cap slots and the map of the ids present in it.  Every method   *)
(* holds d.mu throughout, so each is one step.                             *)
(***************************************************************************)
EXTENDS Naturals, Integers, FiniteSets

CONSTANTS
  Requested,  \* the argument of NewDedup
  TraceIds,   \* the non-empty trace ids of the events the gateway pushes
  NoId        \* the empty string: a free slot, or an event without a trace id

ASSUME DedupAssumption ==
  /\ Requested \in Int
  /\ NoId \notin TraceIds

DefaultDedupCapacity == 512

\* NewDedup: a capacity that is not positive asks for the default.
Cap == IF Requested > 0 THEN Requested ELSE DefaultDedupCapacity

Slots == 0..(Cap - 1)

VARIABLES
  ring,     \* ring[next] is the slot that is overwritten next
  next,     \* index into ring, advances modulo Cap
  present,  \* the ids of the present map
  reply     \* what the last call of Seen was asked and returned

dedupVars == <<ring, next, present, reply>>

Verdict(t, dup) == [id |-> t, duplicate |-> dup]

DedupInit ==
  /\ ring = [i \in Slots |-> NoId]
  /\ next = 0
  /\ present = {}
  /\ reply = Verdict(NoId, FALSE)

\* Seen(""): false, and nothing is recorded.
SeenUnnamed ==
  /\ reply' = Verdict(NoId, FALSE)
  /\ UNCHANGED <<ring, next, present>>

\* Seen(t) of an id that is present: a duplicate.
SeenDuplicate(t) ==
  /\ t \in present
  /\ reply' = Verdict(t, TRUE)
  /\ UNCHANGED <<ring, next, present>>

\* A version that reuses the slot and forgets to delete the id it held.
SeenNewKeepsEvicted(t) ==
  /\ t \notin present
  /\ present' = present \union {t}
  /\ ring' = [ring EXCEPT ![next] = t]
  /\ next' = (next + 1) % Cap
  /\ reply' = Verdict(t, FALSE)

\* Seen(t) of a new id: the id in the slot that is overwritten is forgotten.
SeenNew(t) ==
  /\ t \notin present
  /\ present' = (present \ {ring[next]}) \union {t}
  /\ ring' = [ring EXCEPT ![next] = t]
  /\ next' = (next + 1) % Cap
  /\ reply' = Verdict(t, FALSE)

DedupNext ==
  \/ SeenUnnamed
  \/ \E t \in TraceIds : SeenDuplicate(t) \/ SeenNew(t)

DedupSpec == DedupInit /\ [][DedupNext]_dedupVars

-----------------------------------------------------------------------------
DedupTypeOK ==
  /\ ring \in [Slots -> TraceIds \union {NoId}]
  /\ next \in Slots
  /\ present \in SUBSET TraceIds
  /\ reply \in [id : TraceIds \union {NoId}, duplicate : BOOLEAN]

\* The map holds exactly the ids of the ring, and no id is in two slots, so
\* that evicting a slot never forgets an id another slot still holds.
RingMatchesMap ==
  /\ present = {ring[i] : i \in Slots} \ {NoId}
  /\ \A i, j \in Slots : ring[i] = ring[j] /\ ring[i] # NoId => i = j

\* The refinement mapping: how many slots ago an id was written, 1 for the
\* slot before next, Cap for next itself.
SlotAge(i) == IF i < next THEN next - i ELSE next - i + Cap

AgeOf(t) ==
  IF \E i \in Slots : ring[i] = t
  THEN SlotAge(CHOOSE i \in Slots : ring[i] = t)
  ELSE 0

Window == INSTANCE DedupWindow WITH age <- [t \in TraceIds |-> AgeOf(t)]

\* The ring and its map suppress a trace id exactly when it is among the last
\* Cap distinct ids recorded, never earlier and never later (dedup.go's Seen).
DedupImplementsWindow == Window!WindowSpec
=============================================================================
