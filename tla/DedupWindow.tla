---------------------------- MODULE DedupWindow ----------------------------
(***************************************************************************)
(* What the bus promises about duplicates, apart from how Dedup keeps it:  *)
(* a trace id is suppressed exactly when it is among the last Cap distinct *)
(* ids that were recorded.  age[t] is 0 for an id outside that window and  *)
(* otherwise its position in it, 1 for the most recent.                    *)
(***************************************************************************)
EXTENDS Naturals

CONSTANTS
  Cap,        \* the length of the window
  TraceIds,   \* the non-empty trace ids
  NoId        \* the empty trace id, never recorded

VARIABLES age, reply

windowVars == <<age, reply>>

Verdict(t, dup) == [id |-> t, duplicate |-> dup]

WindowInit ==
  /\ age = [t \in TraceIds |-> 0]
  /\ reply = Verdict(NoId, FALSE)

\* The empty id passes and leaves the window alone.
PassUnnamed ==
  /\ reply' = Verdict(NoId, FALSE)
  /\ UNCHANGED age

\* An id outside the window passes, becomes the newest entry and pushes the
\* entry of age Cap out.
Record(t) ==
  /\ age[t] = 0
  /\ age' = [u \in TraceIds |->
               IF u = t THEN 1
               ELSE IF age[u] \in 1..(Cap - 1) THEN age[u] + 1 ELSE 0]
  /\ reply' = Verdict(t, FALSE)

\* An id inside the window is a duplicate; seeing it again does not renew it.
Suppress(t) ==
  /\ age[t] # 0
  /\ reply' = Verdict(t, TRUE)
  /\ UNCHANGED age

WindowNext ==
  \/ PassUnnamed
  \/ \E t \in TraceIds : Record(t) \/ Suppress(t)

WindowSpec == WindowInit /\ [][WindowNext]_windowVars
=============================================================================
