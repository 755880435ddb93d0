------------------------- MODULE SubscriptionProofs -------------------------
(***************************************************************************)
(* Proofs about Subscription, for any sets of consumers and keys, any case *)
(* of who asks for what and what the gateway refuses, and any number of    *)
(* sessions and requests.                                                  *)
(*                                                                         *)
(* Neither invariant of the run is inductive.  Both need what each caller  *)
(* knows of its request (CallsMatch) and each request of its session       *)
(* (Unanswered); NoForgottenKey needs, beyond that, who will ask for a key *)
(* that was not asked for yet (KeysCovered).                               *)
(***************************************************************************)
EXTENDS Subscription, TLAPS

CallRecords ==
  [pc : {"none", "load", "pend", "write"}, keys : SUBSET Keys,
   session : 0..MaxSessions, id : 0..MaxRequests]

RequestRecords ==
  [keys : SUBSET Keys, session : Sessions, pending : BOOLEAN,
   future : {"empty", "accepted", "refused", "nil"},
   watcher : {"none", "waiting", "ended"}, atGateway : BOOLEAN]

Types ==
  /\ world \in Worlds
  /\ consumer \in [Consumers -> {"absent", "subscribed", "told", "missed", "gone"}]
  /\ call \in [Callers -> CallRecords]
  /\ requests \in Seq(RequestRecords) /\ Len(requests) <= MaxRequests
  /\ runner \in {"down", "bound", "steady", "replaying", "reading", "closed"}
  /\ dialled \in 0..MaxSessions /\ connState \in {0, dialled}
  /\ broken \subseteq Sessions /\ closed \subseteq broken

\* The goroutine of runOnce and the session it has published.
RunnerMatches ==
  /\ runner = "down" => connState = 0
  /\ runner = "bound" => connState = 0
  /\ runner # "down" => dialled # 0
  /\ runner \in {"steady", "replaying", "reading", "closed"} => connState = dialled

\* A caller inside subscribeKeys: where it writes, its request is its own and
\* nobody has touched it, unless the session was closed.
CallMatches(x) ==
  /\ call[x].pc = "none" => call[x].keys = {}
  /\ call[x].pc \in {"pend", "write"} => call[x].session # 0
  /\ call[x].pc = "write" =>
       /\ call[x].id \in DOMAIN requests
       /\ requests[call[x].id].keys = call[x].keys
       /\ requests[call[x].id].session = call[x].session
       /\ requests[call[x].id].watcher = "none"
       /\ call[x].session \notin closed => requests[call[x].id].pending

CallsMatch ==
  /\ \A x \in Callers : CallMatches(x)
  /\ \A x, y \in Callers :
       call[x].pc = "write" /\ call[y].pc = "write" /\ call[x].id = call[y].id => x = y

\* Who has not registered, and the connect goroutine outside its replay, are
\* not inside subscribeKeys.
IdleMatches ==
  /\ \A c \in Consumers : consumer[c] = "absent" => call[c].pc = "none"
  /\ runner # "replaying" => call[Replayer].pc = "none"

\* A request without a watcher is not at the gateway.
Unanswered == \A id \in DOMAIN requests : requests[id].watcher = "none" => ~requests[id].atGateway

\* Key k was asked for on the present session, or a caller is about to.
Covered(k) ==
  \/ \E id \in DOMAIN requests :
       requests[id].session = dialled /\ k \in requests[id].keys /\ requests[id].watcher # "none"
  \/ \E x \in Callers :
       /\ k \in call[x].keys
       /\ call[x].pc = "load" \/ (call[x].pc \in {"pend", "write"} /\ call[x].session = dialled)

KeysCovered ==
  runner \in {"replaying", "reading"} /\ dialled \notin broken =>
    \A k \in SubscribedKeys : Covered(k)

SubscriptionInv ==
  /\ Types /\ RunnerMatches /\ IdleMatches /\ CallsMatch
  /\ Unanswered /\ PendingMatchesWaiters /\ KeysCovered

-----------------------------------------------------------------------------
LEMMA NoCallIsARecord == NoCall \in CallRecords
BY SubscriptionAssumption DEF NoCall, CallRecords

LEMMA KeyOfIsAKey == Types => \A c \in Consumers : KeyOf(c) \in Keys
BY SubscriptionAssumption DEF Types, KeyOf

LEMMA InitFits == Init => SubscriptionInv
<1> SUFFICES ASSUME Init PROVE SubscriptionInv
  OBVIOUS
<1>1. Types
  BY NoCallIsARecord, SubscriptionAssumption DEF Init, Types
<1>2. RunnerMatches
  BY DEF Init, RunnerMatches
<1>3. \A x \in Callers : call[x].pc = "none" /\ call[x].keys = {}
  BY DEF Init, NoCall
<1>4. CallsMatch /\ IdleMatches
  BY <1>3 DEF CallsMatch, CallMatches, IdleMatches, Callers
<1>5. requests = <<>>
  BY DEF Init
<1>6. Unanswered /\ PendingMatchesWaiters
  BY <1>5 DEF Unanswered, PendingMatchesWaiters
<1>7. KeysCovered
  BY DEF Init, KeysCovered
<1> QED
  BY <1>1, <1>2, <1>4, <1>6, <1>7 DEF SubscriptionInv

\* What covers a key stays, if callers that cover it go on doing so.
LEMMA CoveredStays ==
  ASSUME NEW k, Covered(k), UNCHANGED dialled,
         \A id \in DOMAIN requests :
           /\ id \in DOMAIN requests'
           /\ requests'[id].session = requests[id].session
           /\ requests'[id].keys = requests[id].keys
           /\ requests[id].watcher # "none" => requests'[id].watcher # "none",
         \A x \in Callers : call'[x] = call[x] \/ k \notin call[x].keys
  PROVE  Covered(k)'
BY DEF Covered

\* The same of all subscribed keys.
LEMMA KeysStayCovered ==
  ASSUME KeysCovered, SubscribedKeys' \subseteq SubscribedKeys,
         UNCHANGED <<dialled, broken>>,
         runner \in {"replaying", "reading"} \/ runner' \notin {"replaying", "reading"},
         \A k \in SubscribedKeys : Covered(k) => dialled \in broken \/ Covered(k)'
  PROVE  KeysCovered'
BY DEF KeysCovered

\* A step that leaves the requests and the calls alone.
LEMMA CallsUntouched ==
  ASSUME SubscriptionInv, UNCHANGED <<call, requests>>, closed \subseteq closed'
  PROVE  CallsMatch' /\ Unanswered' /\ PendingMatchesWaiters'
BY DEF SubscriptionInv, CallsMatch, CallMatches, Unanswered, PendingMatchesWaiters

\* A step that starts, advances or ends one call that does not write.
LEMMA CallChanges ==
  ASSUME SubscriptionInv, NEW x \in Callers, NEW r, call' = [call EXCEPT ![x] = r],
         r \in CallRecords, call[x].pc # "write", r.pc # "write",
         r.pc = "none" => r.keys = {}, r.pc = "pend" => r.session # 0,
         UNCHANGED <<requests, closed>>
  PROVE  CallsMatch' /\ Unanswered' /\ PendingMatchesWaiters'
<1>1. /\ call'[x] = r /\ \A y \in Callers : y # x => call'[y] = call[y]
  BY DEF SubscriptionInv, Types
<1>2. CallsMatch'
  BY <1>1 DEF SubscriptionInv, CallsMatch, CallMatches, CallRecords
<1>3. Unanswered' /\ PendingMatchesWaiters'
  BY <1>1 DEF SubscriptionInv, Unanswered, PendingMatchesWaiters
<1> QED
  BY <1>2, <1>3

\* A step that leaves the consumers alone leaves the subscribed keys alone.
LEMMA SameKeys ==
  ASSUME UNCHANGED <<consumer, world>>
  PROVE  SubscribedKeys' = SubscribedKeys
BY DEF SubscribedKeys, Subscribers, KeyOf

-----------------------------------------------------------------------------
\* Consumers.

LEMMA RegisterFits ==
  ASSUME SubscriptionInv, NEW c \in Consumers, Register(c)
  PROVE  SubscriptionInv'
<1> DEFINE heard == \E d \in Subscribers : KeyOf(d) = KeyOf(c)
           mine == [NoCall EXCEPT !.pc = "load", !.keys = {KeyOf(c)}]
<1>0. /\ KeyOf(c) \in Keys /\ c \in Callers /\ c # Replayer
      /\ UNCHANGED sessionVars /\ UNCHANGED requests
      /\ consumer[c] = "absent" /\ consumer' = [consumer EXCEPT ![c] = "subscribed"]
  BY KeyOfIsAKey, SubscriptionAssumption DEF SubscriptionInv, Register, Subscribe, Callers
<1>1. /\ mine \in CallRecords /\ mine.pc = "load" /\ mine.keys = {KeyOf(c)}
  BY <1>0, NoCallIsARecord DEF NoCall, CallRecords
<1>2. call[c].pc = "none" /\ call[c].keys = {}
  BY <1>0 DEF SubscriptionInv, IdleMatches, CallsMatch, CallMatches
<1>3. RunnerMatches'
  BY <1>0 DEF SubscriptionInv, RunnerMatches, sessionVars
<1>4. SubscribedKeys' = SubscribedKeys \union {KeyOf(c)}
  BY <1>0 DEF SubscribedKeys, Subscribers, KeyOf, sessionVars, SubscriptionInv, Types
<1>5. CASE heard
  <2>1. UNCHANGED call
    BY <1>5 DEF Register, Subscribe
  <2>2. Types' /\ IdleMatches'
    BY <1>0, <2>1 DEF SubscriptionInv, Types, IdleMatches, sessionVars
  <2>3. SubscribedKeys' = SubscribedKeys
    BY <1>4, <1>5 DEF SubscribedKeys
  <2>4. \A k \in SubscribedKeys : Covered(k) => Covered(k)'
    BY <1>0, <2>1, CoveredStays DEF sessionVars
  <2>5. KeysCovered'
    BY <1>0, <2>3, <2>4 DEF SubscriptionInv, KeysCovered, sessionVars
  <2> QED
    BY <1>0, <1>3, <2>1, <2>2, <2>5, CallsUntouched DEF SubscriptionInv, sessionVars
<1>6. CASE ~heard
  <2>1. call' = [call EXCEPT ![c] = mine]
    BY <1>6 DEF Register, Subscribe
  <2> HIDE DEF mine
  <2>2. call'[c] = mine /\ \A y \in Callers : y # c => call'[y] = call[y]
    BY <1>0, <2>1 DEF SubscriptionInv, Types
  <2>3. Types' /\ IdleMatches'
    BY <1>0, <1>1, <2>1, <2>2 DEF SubscriptionInv, Types, IdleMatches, sessionVars, Callers
  <2>4. CallsMatch' /\ Unanswered' /\ PendingMatchesWaiters'
    BY <1>0, <1>1, <1>2, <2>1, CallChanges DEF sessionVars
  <2>5. \A k \in SubscribedKeys : Covered(k) => Covered(k)'
    BY <1>0, <1>2, <2>2, CoveredStays DEF sessionVars
  <2>6. Covered(KeyOf(c))'
    <3>1. KeyOf(c)' \in call'[c].keys /\ call'[c].pc = "load"
      BY <1>0, <1>1, <2>2 DEF KeyOf, sessionVars
    <3> QED
      BY <1>0, <3>1 DEF Covered
  <2>7. KeysCovered'
    BY <1>0, <1>4, <2>5, <2>6 DEF SubscriptionInv, KeysCovered, sessionVars, KeyOf
  <2> QED
    BY <1>3, <2>3, <2>4, <2>7 DEF SubscriptionInv
<1> QED
  BY <1>5, <1>6

LEMMA LeaveFits ==
  ASSUME SubscriptionInv, NEW c \in Consumers, Leave(c)
  PROVE  SubscriptionInv'
<1>1. /\ UNCHANGED <<call, requests>> /\ UNCHANGED sessionVars
      /\ consumer' = [consumer EXCEPT ![c] = "gone"]
  BY DEF Leave
<1>2. Types' /\ RunnerMatches' /\ IdleMatches'
  BY <1>1 DEF SubscriptionInv, Types, RunnerMatches, IdleMatches, sessionVars
<1>3. SubscribedKeys' \subseteq SubscribedKeys
  BY <1>1 DEF SubscribedKeys, Subscribers, KeyOf, sessionVars, SubscriptionInv, Types
<1>4. \A k \in SubscribedKeys : Covered(k) => Covered(k)'
  BY <1>1, CoveredStays DEF sessionVars
<1>5. KeysCovered'
  BY <1>1, <1>3, <1>4, KeysStayCovered DEF SubscriptionInv, sessionVars
<1> QED
  BY <1>1, <1>2, <1>5, CallsUntouched DEF SubscriptionInv, sessionVars

-----------------------------------------------------------------------------
\* subscribeKeys.

LEMMA LoadSessionFits ==
  ASSUME SubscriptionInv, NEW x \in Callers, LoadSession(x)
  PROVE  SubscriptionInv'
<1> DEFINE r == IF connState = 0 THEN NoCall
                ELSE [call[x] EXCEPT !.pc = "pend", !.session = connState]
<1>1. /\ call[x].pc = "load" /\ call[x] \in CallRecords
      /\ UNCHANGED <<consumer, requests>> /\ UNCHANGED sessionVars
      /\ call' = [call EXCEPT ![x] = r]
  BY DEF LoadSession, SubscriptionInv, Types
<1>2. /\ r \in CallRecords
      /\ IF connState = 0 THEN r.pc = "none" /\ r.keys = {}
         ELSE r.pc = "pend" /\ r.session = connState /\ r.keys = call[x].keys
  BY <1>1, NoCallIsARecord DEF CallRecords, NoCall, SubscriptionInv, Types
<1> HIDE DEF r
<1>3. call'[x] = r /\ \A y \in Callers : y # x => call'[y] = call[y]
  BY <1>1 DEF SubscriptionInv, Types
<1>4. Types' /\ RunnerMatches'
  BY <1>1, <1>2 DEF SubscriptionInv, Types, RunnerMatches, sessionVars
<1>5. IdleMatches'
  BY <1>1, <1>3 DEF SubscriptionInv, IdleMatches, sessionVars, Callers
<1>6. CallsMatch' /\ Unanswered' /\ PendingMatchesWaiters'
  BY <1>1, <1>2, CallChanges DEF sessionVars
<1>7. ASSUME NEW k, Covered(k), runner \in {"replaying", "reading"}
      PROVE  Covered(k)'
  <2>1. connState = dialled /\ dialled # 0
    BY <1>7 DEF SubscriptionInv, RunnerMatches
  <2> QED
    BY <1>1, <1>2, <1>3, <1>7, <2>1 DEF Covered, sessionVars
<1>8. KeysCovered'
  BY <1>1, <1>7, SameKeys DEF SubscriptionInv, KeysCovered, sessionVars
<1> QED
  BY <1>4, <1>5, <1>6, <1>8 DEF SubscriptionInv

LEMMA RegisterPendingFits ==
  ASSUME SubscriptionInv, NEW x \in Callers, RegisterPending(x)
  PROVE  SubscriptionInv'
<1>1. /\ call[x].pc = "pend" /\ call[x] \in CallRecords /\ call[x].session # 0
      /\ UNCHANGED consumer /\ UNCHANGED sessionVars
  BY DEF RegisterPending, SubscriptionInv, Types, CallsMatch, CallMatches
<1>2. RunnerMatches'
  BY <1>1 DEF SubscriptionInv, RunnerMatches, sessionVars
<1>3. SubscribedKeys' = SubscribedKeys
  BY <1>1, SameKeys DEF sessionVars
<1>4. CASE call[x].session \in closed
  <2>1. call' = [call EXCEPT ![x] = NoCall] /\ UNCHANGED requests
    BY <1>4 DEF RegisterPending
  <2>2. NoCall.pc = "none" /\ NoCall.keys = {}
    BY DEF NoCall
  <2>3. call'[x] = NoCall /\ \A y \in Callers : y # x => call'[y] = call[y]
    BY <2>1 DEF SubscriptionInv, Types
  <2>4. Types'
    BY <1>1, <2>1, NoCallIsARecord DEF SubscriptionInv, Types, sessionVars
  <2>5. IdleMatches'
    BY <1>1, <2>2, <2>3 DEF SubscriptionInv, IdleMatches, sessionVars, Callers
  <2>6. CallsMatch' /\ Unanswered' /\ PendingMatchesWaiters'
    BY <1>1, <2>1, <2>2, NoCallIsARecord, CallChanges DEF sessionVars
  <2>7. ASSUME NEW k, Covered(k), dialled \notin broken
        PROVE  Covered(k)'
    BY <1>1, <1>4, <2>1, <2>3, <2>7 DEF Covered, sessionVars, SubscriptionInv, Types
  <2>8. KeysCovered'
    BY <1>1, <1>3, <2>7, KeysStayCovered DEF SubscriptionInv, sessionVars, KeysCovered
  <2> QED
    BY <1>2, <2>4, <2>5, <2>6, <2>8 DEF SubscriptionInv
<1>5. CASE call[x].session \notin closed /\ Len(requests) < MaxRequests
  <2> DEFINE new == Request(call[x].keys, call[x].session)
             r == [call[x] EXCEPT !.pc = "write", !.id = Len(requests) + 1]
  <2>1. requests' = Append(requests, new) /\ call' = [call EXCEPT ![x] = r]
    BY <1>1, <1>5 DEF RegisterPending, SubscriptionInv, Types
  <2>2. /\ new \in RequestRecords
        /\ new.keys = call[x].keys /\ new.session = call[x].session
        /\ new.pending /\ new.watcher = "none" /\ ~new.atGateway
    BY <1>1 DEF Request, RequestRecords, CallRecords, Sessions
  <2>3. /\ r \in CallRecords /\ r.pc = "write" /\ r.id = Len(requests) + 1
        /\ r.keys = call[x].keys /\ r.session = call[x].session
    <3>1. Len(requests) + 1 \in 0..MaxRequests
      BY <1>5, SubscriptionAssumption DEF SubscriptionInv, Types
    <3> QED
      BY <1>1, <3>1 DEF CallRecords
  <2> HIDE DEF new, r
  <2>4. call'[x] = r /\ \A y \in Callers : y # x => call'[y] = call[y]
    BY <2>1 DEF SubscriptionInv, Types
  <2>5. /\ DOMAIN requests' = DOMAIN requests \union {Len(requests) + 1}
        /\ Len(requests) + 1 \notin DOMAIN requests
        /\ requests'[Len(requests) + 1] = new
        /\ \A id \in DOMAIN requests : requests'[id] = requests[id]
    BY <2>1, <2>2 DEF SubscriptionInv, Types
  <2>6. Types'
    BY <1>1, <1>5, <2>1, <2>2, <2>3, SubscriptionAssumption
    DEF SubscriptionInv, Types, sessionVars
  <2>7. IdleMatches'
    BY <1>1, <2>3, <2>4 DEF SubscriptionInv, IdleMatches, sessionVars, Callers
  <2>8. \A y \in Callers : CallMatches(y)'
    BY <1>1, <2>2, <2>3, <2>4, <2>5 DEF SubscriptionInv, CallsMatch, CallMatches, sessionVars
  <2>9. CallsMatch'
    BY <2>3, <2>4, <2>5, <2>8 DEF SubscriptionInv, CallsMatch, CallMatches
  <2>10. Unanswered'
    BY <2>2, <2>5 DEF SubscriptionInv, Unanswered
  <2>11. PendingMatchesWaiters'
    BY <1>1, <2>2, <2>3, <2>4, <2>5 DEF SubscriptionInv, PendingMatchesWaiters
  <2>12. ASSUME NEW k, Covered(k)
         PROVE  Covered(k)'
    BY <1>1, <2>3, <2>4, <2>5, <2>12 DEF Covered, sessionVars
  <2>13. KeysCovered'
    BY <1>1, <1>3, <2>12, KeysStayCovered DEF SubscriptionInv, sessionVars, KeysCovered
  <2> QED
    BY <1>2, <2>6, <2>7, <2>9, <2>10, <2>11, <2>13 DEF SubscriptionInv
<1> QED
  BY <1>4, <1>5 DEF RegisterPending

\* What a write does to its request.
LEMMA WriteSends ==
  ASSUME SubscriptionInv, NEW x \in Callers, Write(x)
  PROVE  LET id == call[x].id
             s == call[x].session
         IN /\ id \in DOMAIN requests /\ requests[id] \in RequestRecords
            /\ requests[id].keys = call[x].keys /\ requests[id].session = s
            /\ \E r \in RequestRecords :
                 /\ requests' = [requests EXCEPT ![id] = r]
                 /\ r.keys = requests[id].keys /\ r.session = s /\ r.future = requests[id].future
                 /\ \/ s \in closed \union broken /\ r.watcher = "none"
                       /\ ~r.pending /\ ~r.atGateway
                    \/ s \notin closed /\ r.watcher = "waiting" /\ r.pending
<1> DEFINE id == call[x].id
           s == call[x].session
<1>1. /\ id \in DOMAIN requests /\ requests[id] \in RequestRecords
      /\ requests[id].keys = call[x].keys /\ requests[id].session = s
      /\ requests[id].watcher = "none" /\ (s \notin closed => requests[id].pending)
  BY DEF Write, SubscriptionInv, CallsMatch, CallMatches, Types
<1>2. CASE s \in closed \union broken /\ requests' = [requests EXCEPT ![id].pending = FALSE]
  <2> DEFINE r == [requests[id] EXCEPT !.pending = FALSE]
  <2>1. r \in RequestRecords /\ ~r.pending /\ r.watcher = "none" /\ ~r.atGateway
    BY <1>1 DEF RequestRecords, SubscriptionInv, Unanswered
  <2> QED
    BY <1>1, <1>2, <2>1 DEF RequestRecords, SubscriptionInv, Types
<1>3. CASE /\ s \notin closed
           /\ requests' = [requests EXCEPT ![id].watcher = "waiting",
                                           ![id].atGateway = s \notin broken]
  <2> DEFINE r == [requests[id] EXCEPT !.watcher = "waiting", !.atGateway = s \notin broken]
  <2>1. r \in RequestRecords /\ r.watcher = "waiting" /\ r.pending
    BY <1>1, <1>3 DEF RequestRecords
  <2> QED
    BY <1>1, <1>3, <2>1 DEF RequestRecords, SubscriptionInv, Types
<1> QED
  BY <1>1, <1>2, <1>3 DEF Write

LEMMA WriteFits ==
  ASSUME SubscriptionInv, NEW x \in Callers, Write(x)
  PROVE  SubscriptionInv'
<1> DEFINE id == call[x].id
           s == call[x].session
<1>1. /\ call[x].pc = "write" /\ call[x] \in CallRecords
      /\ UNCHANGED consumer /\ UNCHANGED sessionVars
      /\ call' = [call EXCEPT ![x] = NoCall]
  BY DEF Write, SubscriptionInv, Types
<1>2. /\ id \in DOMAIN requests /\ requests[id] \in RequestRecords
      /\ requests[id].keys = call[x].keys /\ requests[id].session = s
      /\ requests[id].watcher = "none" /\ (s \notin closed => requests[id].pending)
  BY <1>1 DEF SubscriptionInv, CallsMatch, CallMatches, Types
<1>3. PICK r \in RequestRecords :
        /\ requests' = [requests EXCEPT ![id] = r]
        /\ r.keys = requests[id].keys /\ r.session = s
        /\ \/ s \in closed \union broken /\ r.watcher = "none" /\ ~r.pending /\ ~r.atGateway
           \/ s \notin closed /\ r.watcher = "waiting" /\ r.pending
  BY WriteSends
<1>4. NoCall.pc = "none" /\ NoCall.keys = {}
  BY DEF NoCall
<1>5. call'[x] = NoCall /\ \A y \in Callers : y # x => call'[y] = call[y]
  BY <1>1 DEF SubscriptionInv, Types
<1>6. /\ DOMAIN requests' = DOMAIN requests /\ requests'[id] = r
      /\ \A i \in DOMAIN requests : i # id => requests'[i] = requests[i]
  BY <1>2, <1>3 DEF SubscriptionInv, Types
<1>7. Types' /\ RunnerMatches'
  BY <1>1, <1>2, <1>3, NoCallIsARecord DEF SubscriptionInv, Types, RunnerMatches, sessionVars
<1>8. IdleMatches'
  BY <1>1, <1>4, <1>5 DEF SubscriptionInv, IdleMatches, sessionVars, Callers
<1>9. \A y \in Callers : y # x /\ call[y].pc = "write" => call[y].id # id
  BY <1>1 DEF SubscriptionInv, CallsMatch
<1>10. CallsMatch'
  BY <1>1, <1>4, <1>5, <1>6, <1>9 DEF SubscriptionInv, CallsMatch, CallMatches, sessionVars
<1>11. Unanswered'
  BY <1>3, <1>6 DEF SubscriptionInv, Unanswered
<1>12. PendingMatchesWaiters'
  BY <1>1, <1>3, <1>5, <1>6, <1>9 DEF SubscriptionInv, PendingMatchesWaiters
<1>13. ASSUME NEW k, Covered(k), dialled \notin broken
       PROVE  Covered(k)'
  <2>1. CASE k \in call[x].keys /\ s = dialled
    <3>1. id \in DOMAIN requests' /\ requests'[id].session = dialled'
          /\ k \in requests'[id].keys /\ requests'[id].watcher # "none"
      BY <1>1, <1>2, <1>3, <1>6, <1>13, <2>1 DEF SubscriptionInv, Types, sessionVars
    <3> QED
      BY <3>1 DEF Covered
  <2>2. CASE ~(k \in call[x].keys /\ s = dialled)
    BY <1>1, <1>2, <1>5, <1>6, <1>13, <2>2 DEF Covered, sessionVars
  <2> QED
    BY <2>1, <2>2
<1>14. KeysCovered'
  BY <1>1, <1>13, SameKeys, KeysStayCovered DEF SubscriptionInv, sessionVars, KeysCovered
<1> QED
  BY <1>7, <1>8, <1>10, <1>11, <1>12, <1>14 DEF SubscriptionInv

-----------------------------------------------------------------------------
\* Watchers and the gateway.

LEMMA EndWatcherFits ==
  ASSUME SubscriptionInv, NEW id \in DOMAIN requests, requests[id].watcher = "waiting",
         EndWatcher(id), UNCHANGED <<call, sessionVars>>,
         UNCHANGED consumer \/ BroadcastSubscribeError(requests[id].keys)
  PROVE  SubscriptionInv'
<1> DEFINE r == [requests[id] EXCEPT !.watcher = "ended", !.pending = FALSE, !.future = "empty"]
<1>1. /\ requests[id] \in RequestRecords
      /\ requests' = [requests EXCEPT ![id] = r]
  <2>1. requests \in Seq(RequestRecords) /\ requests[id] \in RequestRecords
    BY DEF SubscriptionInv, Types
  <2> QED
    BY <2>1 DEF EndWatcher, RequestRecords
<1>2. /\ r \in RequestRecords /\ r.keys = requests[id].keys /\ r.session = requests[id].session
      /\ r.watcher = "ended" /\ ~r.pending
  BY <1>1 DEF RequestRecords
<1> HIDE DEF r
<1>3. /\ DOMAIN requests' = DOMAIN requests /\ requests'[id] = r
      /\ \A i \in DOMAIN requests : i # id => requests'[i] = requests[i]
  BY <1>1 DEF SubscriptionInv, Types
<1>4. /\ consumer' \in [Consumers -> {"absent", "subscribed", "told", "missed", "gone"}]
      /\ \A c \in Consumers : /\ consumer'[c] = "absent" <=> consumer[c] = "absent"
                              /\ consumer'[c] \in {"subscribed", "told", "missed"}
                                   <=> consumer[c] \in {"subscribed", "told", "missed"}
  BY DEF BroadcastSubscribeError, ToldOf, SubscriptionInv, Types
<1>5. Types' /\ RunnerMatches'
  BY <1>1, <1>2, <1>4 DEF SubscriptionInv, Types, RunnerMatches, sessionVars
<1>6. IdleMatches'
  BY <1>4 DEF SubscriptionInv, IdleMatches, sessionVars
<1>7. \A y \in Callers : call[y].pc = "write" => call[y].id # id
  BY DEF SubscriptionInv, CallsMatch, CallMatches
<1>8. CallsMatch'
  BY <1>3, <1>7 DEF SubscriptionInv, CallsMatch, CallMatches, sessionVars
<1>9. Unanswered' /\ PendingMatchesWaiters'
  BY <1>2, <1>3, <1>7 DEF SubscriptionInv, Unanswered, PendingMatchesWaiters
<1>10. SubscribedKeys' = SubscribedKeys
  BY <1>4 DEF SubscribedKeys, Subscribers, KeyOf, sessionVars
<1>11. \A k \in SubscribedKeys : Covered(k) => Covered(k)'
  BY <1>2, <1>3, CoveredStays DEF sessionVars
<1>12. KeysCovered'
  BY <1>10, <1>11, KeysStayCovered DEF SubscriptionInv, sessionVars, KeysCovered
<1> QED
  BY <1>5, <1>6, <1>8, <1>9, <1>12 DEF SubscriptionInv

LEMMA WatchingFits ==
  ASSUME SubscriptionInv, NEW id \in DOMAIN requests, Watching(id)
  PROVE  SubscriptionInv'
BY EndWatcherFits DEF Watching, WatcherReceives, WatcherTimesOut

LEMMA GatewayAnswersFits ==
  ASSUME SubscriptionInv, NEW id \in DOMAIN requests, GatewayAnswers(id)
  PROVE  SubscriptionInv'
<1>1. /\ requests[id] \in RequestRecords /\ requests[id].atGateway
      /\ UNCHANGED <<consumer, call>> /\ UNCHANGED sessionVars
      /\ requests[id].watcher # "none"
  BY DEF GatewayAnswers, SubscriptionInv, Types, Unanswered
<1>2. PICK r \in RequestRecords :
        /\ requests' = [requests EXCEPT ![id] = r]
        /\ r.keys = requests[id].keys /\ r.session = requests[id].session
        /\ r.watcher = requests[id].watcher /\ ~r.pending
        /\ requests[id].pending \/ requests[id].future # "empty" => r.future # "empty"
  <2> DEFINE f == IF ~requests[id].pending THEN requests[id].future
                  ELSE IF requests[id].keys \intersect world.rejected # {} THEN "refused"
                  ELSE "accepted"
             r == [requests[id] EXCEPT !.atGateway = FALSE, !.pending = FALSE, !.future = f]
  <2>1. requests' = [requests EXCEPT ![id] = r]
    BY DEF GatewayAnswers
  <2>2. /\ f \in {"empty", "accepted", "refused", "nil"}
        /\ requests[id].pending \/ requests[id].future # "empty" => f # "empty"
    BY <1>1 DEF RequestRecords
  <2> HIDE DEF f
  <2>3. r \in RequestRecords /\ r.future = f
    BY <1>1, <2>2 DEF RequestRecords
  <2> QED
    BY <1>1, <2>1, <2>2, <2>3 DEF RequestRecords
<1>3. /\ DOMAIN requests' = DOMAIN requests /\ requests'[id] = r
      /\ \A i \in DOMAIN requests : i # id => requests'[i] = requests[i]
  BY <1>2 DEF SubscriptionInv, Types
<1>4. Types' /\ RunnerMatches' /\ IdleMatches'
  BY <1>1, <1>2 DEF SubscriptionInv, Types, RunnerMatches, IdleMatches, sessionVars
<1>5. \A y \in Callers : call[y].pc = "write" => call[y].id # id
  BY <1>1 DEF SubscriptionInv, CallsMatch, CallMatches
<1>6. CallsMatch'
  BY <1>1, <1>3, <1>5 DEF SubscriptionInv, CallsMatch, CallMatches, sessionVars
<1>7. Unanswered'
  BY <1>1, <1>2, <1>3 DEF SubscriptionInv, Unanswered
<1>8. PendingMatchesWaiters'
  BY <1>1, <1>2, <1>3, <1>5 DEF SubscriptionInv, PendingMatchesWaiters
<1>9. \A k \in SubscribedKeys : Covered(k) => Covered(k)'
  BY <1>1, <1>2, <1>3, CoveredStays DEF sessionVars
<1>10. KeysCovered'
  BY <1>1, <1>9, SameKeys, KeysStayCovered DEF SubscriptionInv, sessionVars, KeysCovered
<1> QED
  BY <1>4, <1>6, <1>7, <1>8, <1>10 DEF SubscriptionInv

-----------------------------------------------------------------------------
\* runOnce.

LEMMA BindFits ==
  ASSUME SubscriptionInv, Bind
  PROVE  SubscriptionInv'
<1>1. Types' /\ RunnerMatches'
  BY SubscriptionAssumption DEF Bind, SubscriptionInv, Types, RunnerMatches
<1>2. IdleMatches' /\ KeysCovered'
  BY DEF Bind, SubscriptionInv, IdleMatches, KeysCovered
<1> QED
  BY <1>1, <1>2, CallsUntouched DEF Bind, SubscriptionInv

LEMMA PublishSessionFits ==
  ASSUME SubscriptionInv, PublishSession
  PROVE  SubscriptionInv'
<1>1. Types' /\ RunnerMatches' /\ IdleMatches' /\ KeysCovered'
  BY DEF PublishSession, SubscriptionInv, Types, RunnerMatches, IdleMatches, KeysCovered
<1> QED
  BY <1>1, CallsUntouched DEF PublishSession, SubscriptionInv

LEMMA ReplaySnapshotFits ==
  ASSUME SubscriptionInv, ReplaySnapshot
  PROVE  SubscriptionInv'
<1> DEFINE r == [NoCall EXCEPT !.pc = "load", !.keys = SubscribedKeys]
<1>1. /\ runner = "steady" /\ runner' = "replaying"
      /\ UNCHANGED <<world, consumer, requests, dialled, connState, broken, closed>>
      /\ call' = IF SubscribedKeys = {} THEN call ELSE [call EXCEPT ![Replayer] = r]
      /\ Replayer \in Callers
  BY DEF ReplaySnapshot, Replay, Callers
<1>2. SubscribedKeys \subseteq Keys
  BY KeyOfIsAKey DEF SubscribedKeys, Subscribers, SubscriptionInv
<1>3. r \in CallRecords /\ r.pc = "load" /\ r.keys = SubscribedKeys
  BY <1>2, NoCallIsARecord DEF NoCall, CallRecords
<1>4. call[Replayer].pc = "none" /\ call[Replayer].keys = {}
  BY <1>1 DEF SubscriptionInv, IdleMatches, CallsMatch, CallMatches
<1> HIDE DEF r
<1>5. SubscribedKeys' = SubscribedKeys
  BY <1>1, SameKeys
<1>6. CASE SubscribedKeys = {}
  <2>1. Types' /\ RunnerMatches' /\ IdleMatches'
    BY <1>1, <1>6 DEF SubscriptionInv, Types, RunnerMatches, IdleMatches
  <2>2. KeysCovered'
    BY <1>5, <1>6 DEF KeysCovered
  <2> QED
    BY <1>1, <1>6, <2>1, <2>2, CallsUntouched DEF SubscriptionInv
<1>7. CASE SubscribedKeys # {}
  <2>1. call'[Replayer] = r /\ \A y \in Callers : y # Replayer => call'[y] = call[y]
    BY <1>1, <1>7 DEF SubscriptionInv, Types
  <2>2. Types' /\ RunnerMatches'
    BY <1>1, <1>3, <1>7 DEF SubscriptionInv, Types, RunnerMatches
  <2>3. IdleMatches'
    BY <1>1, <2>1, SubscriptionAssumption DEF SubscriptionInv, IdleMatches, Callers
  <2>4. CallsMatch' /\ Unanswered' /\ PendingMatchesWaiters'
    BY <1>1, <1>3, <1>4, <1>7, CallChanges
  <2>5. \A k \in SubscribedKeys : Covered(k)'
    BY <1>1, <1>3, <2>1 DEF Covered
  <2>6. KeysCovered'
    BY <1>5, <2>5 DEF KeysCovered
  <2> QED
    BY <2>2, <2>3, <2>4, <2>6 DEF SubscriptionInv
<1> QED
  BY <1>6, <1>7

LEMMA ReadLoopStartsFits ==
  ASSUME SubscriptionInv, ReadLoopStarts
  PROVE  SubscriptionInv'
<1>1. Types' /\ RunnerMatches' /\ IdleMatches'
  BY DEF ReadLoopStarts, SubscriptionInv, Types, RunnerMatches, IdleMatches
<1>2. \A k \in SubscribedKeys : Covered(k) => Covered(k)'
  BY CoveredStays DEF ReadLoopStarts
<1>3. KeysCovered'
  BY <1>2, SameKeys, KeysStayCovered DEF SubscriptionInv, ReadLoopStarts
<1> QED
  BY <1>1, <1>3, CallsUntouched DEF ReadLoopStarts, SubscriptionInv

LEMMA ConnectionBreaksFits ==
  ASSUME SubscriptionInv, ConnectionBreaks
  PROVE  SubscriptionInv'
<1>1. Types' /\ RunnerMatches' /\ IdleMatches'
  BY SubscriptionAssumption
  DEF ConnectionBreaks, SubscriptionInv, Types, RunnerMatches, IdleMatches, Sessions
<1>2. KeysCovered'
  BY DEF ConnectionBreaks, KeysCovered
<1> QED
  BY <1>1, <1>2, CallsUntouched DEF ConnectionBreaks, SubscriptionInv

LEMMA MarkClosedFits ==
  ASSUME SubscriptionInv, MarkClosed
  PROVE  SubscriptionInv'
<1>1. /\ runner = "reading" /\ runner' = "closed" /\ dialled \in broken
      /\ closed' = closed \union {dialled}
      /\ UNCHANGED <<world, consumer, call, dialled, connState, broken>>
  BY DEF MarkClosed
<1>2. /\ requests' \in Seq(RequestRecords) /\ DOMAIN requests' = DOMAIN requests
      /\ Len(requests') = Len(requests)
      /\ \A i \in DOMAIN requests :
           /\ requests'[i].keys = requests[i].keys
           /\ requests'[i].session = requests[i].session
           /\ requests'[i].watcher = requests[i].watcher
           /\ requests[i].session # dialled => requests'[i] = requests[i]
           /\ requests'[i].atGateway => requests[i].atGateway
           /\ requests'[i].pending => requests[i].pending
           /\ requests[i].pending \/ requests[i].future # "empty"
                => requests'[i].pending \/ requests'[i].future # "empty"
  <2> DEFINE f(r) == IF r.session # dialled THEN r
                     ELSE [r EXCEPT !.pending = FALSE, !.atGateway = FALSE,
                                    !.future = IF r.pending THEN "nil" ELSE @]
  <2>1. requests' = [i \in DOMAIN requests |-> f(requests[i])]
    BY DEF MarkClosed
  <2>2. ASSUME NEW r \in RequestRecords
        PROVE  /\ f(r) \in RequestRecords
               /\ f(r).keys = r.keys /\ f(r).session = r.session /\ f(r).watcher = r.watcher
               /\ r.session # dialled => f(r) = r
               /\ f(r).atGateway => r.atGateway
               /\ f(r).pending => r.pending
               /\ r.pending \/ r.future # "empty" => f(r).pending \/ f(r).future # "empty"
    BY DEF RequestRecords
  <2> HIDE DEF f
  <2>3. requests \in Seq(RequestRecords) /\ DOMAIN requests = 1..Len(requests)
        /\ Len(requests) \in Nat
    BY DEF SubscriptionInv, Types
  <2> QED
    BY <2>1, <2>2, <2>3
<1>3. Types' /\ RunnerMatches' /\ IdleMatches'
  BY <1>1, <1>2 DEF SubscriptionInv, Types, RunnerMatches, IdleMatches
<1>4. \A y \in Callers : CallMatches(y)'
  BY <1>1, <1>2 DEF SubscriptionInv, CallsMatch, CallMatches
<1>5. CallsMatch'
  BY <1>1, <1>4 DEF SubscriptionInv, CallsMatch
<1>6. Unanswered'
  BY <1>1, <1>2 DEF SubscriptionInv, Unanswered
<1>7. PendingMatchesWaiters'
  BY <1>1, <1>2 DEF SubscriptionInv, PendingMatchesWaiters
<1>8. KeysCovered'
  BY <1>1 DEF KeysCovered
<1> QED
  BY <1>3, <1>5, <1>6, <1>7, <1>8 DEF SubscriptionInv

LEMMA ClearSessionFits ==
  ASSUME SubscriptionInv, ClearSession
  PROVE  SubscriptionInv'
<1>1. Types' /\ RunnerMatches' /\ IdleMatches' /\ KeysCovered'
  BY DEF ClearSession, SubscriptionInv, Types, RunnerMatches, IdleMatches, KeysCovered
<1> QED
  BY <1>1, CallsUntouched DEF ClearSession, SubscriptionInv

-----------------------------------------------------------------------------
LEMMA StepFits == SubscriptionInv /\ [Next]_vars => SubscriptionInv'
<1> SUFFICES ASSUME SubscriptionInv, [Next]_vars
             PROVE  SubscriptionInv'
  OBVIOUS
<1>1. CASE Runner
  BY <1>1, BindFits, PublishSessionFits, ReplaySnapshotFits, ReadLoopStartsFits,
     MarkClosedFits, ClearSessionFits DEF Runner
<1>2. CASE ConnectionBreaks
  BY <1>2, ConnectionBreaksFits
<1>3. CASE \E c \in Consumers : Register(c) \/ Leave(c)
  BY <1>3, RegisterFits, LeaveFits
<1>4. CASE \E x \in Callers : Calling(x)
  BY <1>4, LoadSessionFits, RegisterPendingFits, WriteFits DEF Calling
<1>5. CASE \E id \in DOMAIN requests : GatewayAnswers(id) \/ Watching(id)
  BY <1>5, GatewayAnswersFits, WatchingFits
<1>6. CASE UNCHANGED vars
  <2>1. Types' /\ RunnerMatches' /\ IdleMatches'
    BY <1>6 DEF SubscriptionInv, Types, RunnerMatches, IdleMatches, vars, sessionVars
  <2>2. \A k \in SubscribedKeys : Covered(k) => Covered(k)'
    BY <1>6, CoveredStays DEF vars, sessionVars
  <2>3. KeysCovered'
    BY <1>6, <2>2, SameKeys, KeysStayCovered
    DEF SubscriptionInv, KeysCovered, vars, sessionVars
  <2> QED
    BY <1>6, <2>1, <2>3, CallsUntouched DEF SubscriptionInv, vars, sessionVars
<1> QED
  BY <1>1, <1>2, <1>3, <1>4, <1>5, <1>6 DEF Next

LEMMA SpecFits == Spec => []SubscriptionInv
BY InitFits, StepFits, PTL DEF Spec

LEMMA FitsTypeOK == SubscriptionInv => TypeOK
<1> SUFFICES ASSUME SubscriptionInv PROVE TypeOK
  OBVIOUS
<1>1. \A id \in DOMAIN requests : requests[id] \in RequestRecords
  BY DEF SubscriptionInv, Types
<1> QED
  BY <1>1 DEF SubscriptionInv, Types, TypeOK, CallRecords, RequestRecords

LEMMA FitsNoForgottenKey == SubscriptionInv => NoForgottenKey
<1> SUFFICES ASSUME SubscriptionInv, runner = "reading", dialled \notin broken,
                    NEW c \in Subscribers, Settled(KeyOf(c))
             PROVE  \E id \in DOMAIN requests :
                      /\ requests[id].session = dialled /\ KeyOf(c) \in requests[id].keys
                      /\ requests[id].watcher # "none"
  BY DEF NoForgottenKey
<1>1. Covered(KeyOf(c))
  BY DEF SubscriptionInv, KeysCovered, SubscribedKeys
<1> QED
  BY <1>1 DEF Covered, Settled

\* The variables of Subscription keep their types.
THEOREM SubscriptionTypeOK == Spec => []TypeOK
BY SpecFits, FitsTypeOK, PTL

\* No response is dropped that somebody waits for, and no entry of a pending
\* map leaks (wssource.go, the pending map and its futures).
THEOREM ResponsesFindTheirWaiters == Spec => []PendingMatchesWaiters
<1>1. SubscriptionInv => PendingMatchesWaiters
  BY DEF SubscriptionInv
<1> QED
  BY <1>1, SpecFits, PTL

\* On a session that is being read and works, every key with a subscriber has
\* been asked for (wssource.go, the switch connState and the replay).
THEOREM KeysAreAskedFor == Spec => []NoForgottenKey
BY SpecFits, FitsNoForgottenKey, PTL

-----------------------------------------------------------------------------
(***************************************************************************)
(* The news of a refusal, the safety half of RefusalIsBroadcast: it is     *)
(* under way as soon as somebody asks for a key, and again when a session  *)
(* ends; no step loses it but the broadcast, which a full channel may      *)
(* lose; some goroutine can always take it on, and what is left to do runs *)
(* out.                                                                    *)
(***************************************************************************)

\* Key k is being asked for on the present session: a caller is about to, or a
\* watcher waits for the answer.
Asking(k) ==
  \/ \E x \in Callers :
       /\ k \in call[x].keys
       /\ call[x].pc = "load" \/ (call[x].pc \in {"pend", "write"} /\ call[x].session = dialled)
  \/ \E id \in DOMAIN requests :
       /\ k \in requests[id].keys /\ requests[id].session = dialled
       /\ requests[id].watcher = "waiting"

\* The news of a refusal is under way to the subscriber c, for the first time
\* or once more.
OnItsWay(c) == c \in Subscribers /\ (ReplayComes \/ Asking(KeyOf(c)))

\* Watcher id reports the refusal, or its timeout, to the subscribers of the
\* key of c: the one TrySend to c.
Broadcasts(id, c) ==
  /\ KeyOf(c) \in requests[id].keys
  /\ \/ WatcherTimesOut(id)
     \/ WatcherReceives(id) /\ requests[id].future = "refused"

\* Who has asked for a refused key does not hang: as long as its own call runs
\* and nothing was sent to it, the news is under way.
NewsIsOnItsWay ==
  \A c \in Consumers :
    KeyOf(c) \in world.rejected /\ consumer[c] = "subscribed" /\ call[c].pc # "none" => OnItsWay(c)

\* What a future says is what the gateway says of the keys, and nil means that
\* the session was closed.
FuturesFit ==
  \A id \in DOMAIN requests :
    /\ requests[id].future = "accepted" => requests[id].keys \intersect world.rejected = {}
    /\ requests[id].future = "nil" => requests[id].session \in closed

\* The last session does not break, and without a session another will be
\* dialled.
SessionsGoOn ==
  /\ MaxSessions \notin broken
  /\ runner = "closed" => dialled \in broken
  /\ runner = "down" => dialled = 0 \/ dialled \in broken

NewsInv == SubscriptionInv /\ FuturesFit /\ NewsIsOnItsWay /\ SessionsGoOn

\* What a step may do to the news.
NewsIsKept ==
  \A c \in Consumers :
    KeyOf(c) \in world.rejected /\ OnItsWay(c) =>
      \/ OnItsWay(c)' \/ consumer'[c] = "gone"
      \/ \E id \in DOMAIN requests : Broadcasts(id, c)

\* Somebody who needs neither the gateway nor another consumer can step: the
\* connect goroutine, a caller (short of the bound on requests) or a watcher,
\* whose timer runs.
RunnerMoves ==
  \/ runner = "down" /\ dialled < MaxSessions
  \/ runner \in {"bound", "steady", "closed"}
  \/ runner = "replaying" /\ call[Replayer].pc = "none"
  \/ runner = "reading" /\ dialled \in broken

CallerMoves(x) ==
  \/ call[x].pc \in {"load", "write"}
  \/ call[x].pc = "pend" /\ (call[x].session \in closed \/ Len(requests) < MaxRequests)

NewsWaitsForNobody ==
  \A c \in Consumers :
    OnItsWay(c) /\ Len(requests) < MaxRequests =>
      \/ RunnerMoves
      \/ \E x \in Callers : CallerMoves(x)
      \/ \E id \in DOMAIN requests : requests[id].watcher = "waiting"

\* How far the connect goroutine is from the end of the last session, and a
\* call from its return.
RunnerLeft ==
  6 * (MaxSessions - dialled) +
    (IF runner = "bound" THEN 5 ELSE IF runner = "steady" THEN 4
     ELSE IF runner = "replaying" THEN 3 ELSE IF runner = "reading" THEN 2
     ELSE IF runner = "closed" THEN 1 ELSE 0)

CallLeft(x) ==
  IF call[x].pc = "load" THEN 3 ELSE IF call[x].pc = "pend" THEN 2
  ELSE IF call[x].pc = "write" THEN 1 ELSE 0

\* What a step may do to the work that is left.
SubscribingAdvances ==
  /\ RunnerLeft \in Nat
  /\ IF Runner THEN RunnerLeft' < RunnerLeft ELSE RunnerLeft' = RunnerLeft
  /\ \A x \in Callers :
       /\ Calling(x) => CallLeft(x)' < CallLeft(x)
       /\ CallLeft(x)' > CallLeft(x) =>
            IF x = Replayer THEN runner = "steady" /\ runner' = "replaying"
            ELSE consumer[x] = "absent" /\ consumer'[x] = "subscribed"
  /\ \A id \in DOMAIN requests :
       /\ id \in DOMAIN requests'
       /\ Watching(id) => requests[id].watcher = "waiting" /\ requests'[id].watcher = "ended"
       /\ requests[id].watcher = "ended" => requests'[id].watcher = "ended"

LEMMA NewsFitsInit == Init => NewsInv
<1> SUFFICES ASSUME Init PROVE NewsInv
  OBVIOUS
<1>1. FuturesFit /\ SessionsGoOn
  BY DEF Init, FuturesFit, SessionsGoOn
<1>2. NewsIsOnItsWay
  BY DEF Init, NewsIsOnItsWay
<1> QED
  BY <1>1, <1>2, InitFits DEF NewsInv

\* What asks for a key goes on, if its callers and its watchers do.
LEMMA AskingStays ==
  ASSUME NEW k, Asking(k), UNCHANGED dialled,
         \A x \in Callers : call'[x] = call[x] \/ k \notin call[x].keys,
         \A id \in DOMAIN requests :
           requests[id].watcher = "waiting" /\ k \in requests[id].keys /\ requests[id].session = dialled =>
             /\ id \in DOMAIN requests' /\ requests'[id].watcher = "waiting"
             /\ requests'[id].session = requests[id].session
             /\ requests'[id].keys = requests[id].keys
  PROVE  Asking(k)'
BY DEF Asking

\* A step of the connect goroutine, or the end of the connection.
LEMMA RunnerKeepsNews ==
  ASSUME NewsInv, Runner \/ ConnectionBreaks, NEW c \in Consumers, OnItsWay(c)
  PROVE  OnItsWay(c)'
<1>0. /\ c \in Subscribers /\ UNCHANGED <<consumer, world>> /\ KeyOf(c)' = KeyOf(c)
      /\ c \in Subscribers'
  BY DEF OnItsWay, Subscribers, Runner, Bind, PublishSession, ReplaySnapshot, Replay, ReadLoopStarts, MarkClosed,
         ClearSession, ConnectionBreaks, KeyOf
<1>1. CASE Bind \/ PublishSession \/ MarkClosed \/ ClearSession
  BY <1>0, <1>1 DEF Bind, PublishSession, MarkClosed, ClearSession, OnItsWay, ReplayComes
<1>2. CASE ReplaySnapshot
  <2>1. KeyOf(c) \in SubscribedKeys
    BY <1>0 DEF SubscribedKeys, Subscribers
  <2> DEFINE r == [NoCall EXCEPT !.pc = "load", !.keys = SubscribedKeys]
  <2>2. call' = [call EXCEPT ![Replayer] = r] /\ Replayer \in Callers
    BY <1>2, <2>1 DEF ReplaySnapshot, Replay, Callers
  <2>3. r.pc = "load" /\ r.keys = SubscribedKeys
    BY DEF NoCall
  <2> HIDE DEF r
  <2>4. call'[Replayer] = r
    BY <2>2 DEF NewsInv, SubscriptionInv, Types
  <2>5. Asking(KeyOf(c))'
    BY <1>0, <2>1, <2>2, <2>3, <2>4 DEF Asking
  <2> QED
    BY <1>0, <2>5 DEF OnItsWay
<1>3. CASE ReadLoopStarts
  <2>1. UNCHANGED <<call, requests, dialled, broken>> /\ runner = "replaying"
    BY <1>3 DEF ReadLoopStarts
  <2>2. Asking(KeyOf(c)) => Asking(KeyOf(c))'
    BY <1>0, <2>1 DEF Asking
  <2> QED
    BY <1>0, <2>1, <2>2 DEF OnItsWay, ReplayComes
<1>4. CASE ConnectionBreaks
  BY <1>0, <1>4 DEF ConnectionBreaks, OnItsWay, ReplayComes
<1> QED
  BY <1>1, <1>2, <1>3, <1>4 DEF Runner

\* Another consumer comes or goes.
LEMMA ConsumersKeepNews ==
  ASSUME NewsInv, NEW d \in Consumers, Register(d) \/ Leave(d), NEW c \in Consumers, OnItsWay(c)
  PROVE  OnItsWay(c)' \/ consumer'[c] = "gone"
<1>0. /\ UNCHANGED sessionVars /\ UNCHANGED requests /\ KeyOf(c)' = KeyOf(c) /\ d \in Callers
      /\ consumer \in [Consumers -> {"absent", "subscribed", "told", "missed", "gone"}]
      /\ c \in Subscribers
  BY DEF Register, Subscribe, Leave, sessionVars, KeyOf, Callers, NewsInv, SubscriptionInv, Types,
         OnItsWay
<1>1. c \in Subscribers' \/ consumer'[c] = "gone"
  BY <1>0 DEF Register, Subscribe, Leave, Subscribers
<1>2. \A x \in Callers : call'[x] = call[x] \/ call[x].keys = {}
  <2>1. CASE Leave(d)
    BY <2>1 DEF Leave
  <2>2. CASE Register(d)
    <3>1. call[d].keys = {}
      BY <1>0, <2>2
      DEF Register, Subscribe, NewsInv, SubscriptionInv, IdleMatches, CallsMatch, CallMatches
    <3>2. \A x \in Callers : x # d => call'[x] = call[x]
      BY <2>2 DEF Register, Subscribe, NewsInv, SubscriptionInv, Types
    <3> QED
      BY <3>1, <3>2
  <2> QED
    BY <2>1, <2>2
<1>3. Asking(KeyOf(c)) => Asking(KeyOf(c))'
  BY <1>0, <1>2, AskingStays DEF sessionVars
<1> QED
  BY <1>0, <1>1, <1>3 DEF OnItsWay, ReplayComes, sessionVars

\* A caller inside subscribeKeys goes on, or its session is broken.
LEMMA CallingKeepsNews ==
  ASSUME NewsInv, NEW x \in Callers, Calling(x), NEW c \in Consumers, OnItsWay(c)
  PROVE  OnItsWay(c)'
<1>0. /\ UNCHANGED sessionVars /\ UNCHANGED consumer /\ KeyOf(c)' = KeyOf(c)
      /\ c \in Subscribers' /\ call \in [Callers -> CallRecords]
      /\ requests \in Seq(RequestRecords)
  BY DEF Subscribers, Calling, LoadSession, RegisterPending, Write, sessionVars, KeyOf, NewsInv, SubscriptionInv,
         Types, OnItsWay
<1>1. CASE ReplayComes
  BY <1>0, <1>1 DEF ReplayComes, OnItsWay, sessionVars
<1>2. CASE ~ReplayComes
  <2>1. Asking(KeyOf(c)) /\ dialled \notin broken /\ connState = dialled /\ dialled # 0
        /\ dialled \notin closed
    BY <1>2 DEF OnItsWay, ReplayComes, NewsInv, SubscriptionInv, RunnerMatches, Types
  <2>2. \A y \in Callers \ {x} : call'[y] = call[y]
    BY DEF Calling, LoadSession, RegisterPending, Write, NewsInv, SubscriptionInv, Types
  <2>3. \A id \in DOMAIN requests :
          requests[id].watcher = "waiting" =>
            /\ id \in DOMAIN requests' /\ requests'[id].watcher = "waiting"
            /\ requests'[id].session = requests[id].session
            /\ requests'[id].keys = requests[id].keys
    <3>1. CASE LoadSession(x)
      BY <3>1 DEF LoadSession
    <3>2. CASE RegisterPending(x)
      BY <1>0, <3>2 DEF RegisterPending
    <3>3. CASE Write(x)
      <4>1. PICK r \in RequestRecords :
              /\ requests' = [requests EXCEPT ![call[x].id] = r]
              /\ call[x].id \in DOMAIN requests
        BY <3>3, WriteSends DEF NewsInv
      <4>2. requests[call[x].id].watcher = "none"
        BY <3>3 DEF NewsInv, Write, SubscriptionInv, CallsMatch, CallMatches
      <4> QED
        BY <1>0, <4>1, <4>2
    <3> QED
      BY <3>1, <3>2, <3>3 DEF Calling
  <2> DEFINE mine == /\ KeyOf(c) \in call[x].keys
                     /\ call[x].pc = "load"
                        \/ (call[x].pc \in {"pend", "write"} /\ call[x].session = dialled)
  <2>4. CASE ~mine
    <3>1. CASE \E y \in Callers :
                 /\ KeyOf(c) \in call[y].keys
                 /\ call[y].pc = "load"
                    \/ (call[y].pc \in {"pend", "write"} /\ call[y].session = dialled)
      BY <1>0, <2>2, <2>4, <3>1 DEF Asking, sessionVars, OnItsWay
    <3>2. CASE \E id \in DOMAIN requests :
                 /\ KeyOf(c) \in requests[id].keys /\ requests[id].session = dialled
                 /\ requests[id].watcher = "waiting"
      BY <1>0, <2>3, <3>2 DEF Asking, sessionVars, OnItsWay
    <3> QED
      BY <2>1, <3>1, <3>2 DEF Asking
  <2>5. CASE mine
    <3>1. CASE LoadSession(x)
      <4>1. /\ call'[x].pc = "pend" /\ call'[x].session = dialled /\ call'[x].keys = call[x].keys
        BY <1>0, <2>1, <3>1 DEF LoadSession, CallRecords
      <4> QED
        BY <1>0, <2>5, <4>1 DEF Asking, OnItsWay, sessionVars
    <3>2. CASE RegisterPending(x)
      <4>1. /\ call'[x].pc = "write" /\ call'[x].session = dialled /\ call'[x].keys = call[x].keys
        BY <1>0, <2>1, <2>5, <3>2 DEF RegisterPending, CallRecords
      <4> QED
        BY <1>0, <2>5, <4>1 DEF Asking, OnItsWay, sessionVars
    <3>3. CASE Write(x)
      <4> DEFINE id == call[x].id
      <4>1. /\ call[x].pc = "write" /\ call[x].session = dialled
            /\ id \in DOMAIN requests /\ requests[id].keys = call[x].keys
            /\ requests[id].session = dialled
        BY <2>5, <3>3 DEF Write, NewsInv, SubscriptionInv, CallsMatch, CallMatches
      <4>2. PICK r \in RequestRecords :
              /\ requests' = [requests EXCEPT ![id] = r] /\ r.watcher = "waiting"
              /\ r.keys = call[x].keys /\ r.session = dialled
        BY <2>1, <3>3, <4>1, WriteSends DEF NewsInv
      <4>3. /\ id \in DOMAIN requests' /\ requests'[id].watcher = "waiting"
            /\ requests'[id].keys = call[x].keys /\ requests'[id].session = dialled
        BY <1>0, <4>1, <4>2
      <4> QED
        BY <1>0, <2>5, <4>3 DEF Asking, OnItsWay, sessionVars
    <3> QED
      BY <3>1, <3>2, <3>3 DEF Calling
  <2> QED
    BY <2>4, <2>5
<1> QED
  BY <1>1, <1>2

\* A watcher that ends with the news broadcasts it, and one that ends without
\* it was not the last hope.
LEMMA WatchingKeepsNews ==
  ASSUME NewsInv, NEW id \in DOMAIN requests, Watching(id),
         NEW c \in Consumers, KeyOf(c) \in world.rejected, OnItsWay(c)
  PROVE  OnItsWay(c)' \/ Broadcasts(id, c)
<1>0. /\ UNCHANGED <<call, sessionVars>> /\ EndWatcher(id) /\ KeyOf(c)' = KeyOf(c)
      /\ c \in Subscribers /\ requests \in Seq(RequestRecords)
      /\ UNCHANGED consumer \/ BroadcastSubscribeError(requests[id].keys)
  BY DEF Watching, WatcherReceives, WatcherTimesOut, sessionVars, KeyOf, NewsInv, SubscriptionInv,
         Types, OnItsWay
<1>1. c \in Subscribers'
  BY <1>0 DEF BroadcastSubscribeError, ToldOf, Subscribers
<1>2. CASE ReplayComes
  BY <1>0, <1>1, <1>2 DEF ReplayComes, OnItsWay, sessionVars
<1>3. CASE ~ReplayComes /\ KeyOf(c) \in requests[id].keys /\ requests[id].session = dialled
  <2>1. requests[id].session \notin closed
    BY <1>3 DEF ReplayComes, NewsInv, SubscriptionInv, Types
  <2>2. requests[id] \in RequestRecords
    BY <1>0
  <2>3. requests[id].future \notin {"accepted", "nil"}
    BY <1>3, <2>1 DEF NewsInv, FuturesFit
  <2>4. WatcherTimesOut(id) \/ (WatcherReceives(id) /\ requests[id].future = "refused")
    BY <2>2, <2>3 DEF Watching, WatcherReceives, RequestRecords
  <2> QED
    BY <1>3, <2>4 DEF Broadcasts
<1>4. CASE ~ReplayComes /\ ~(KeyOf(c) \in requests[id].keys /\ requests[id].session = dialled)
  <2>1. Asking(KeyOf(c))
    BY <1>4 DEF OnItsWay
  <2>2. /\ DOMAIN requests' = DOMAIN requests
        /\ \A i \in DOMAIN requests : i # id => requests'[i] = requests[i]
    BY <1>0 DEF EndWatcher
  <2>3. Asking(KeyOf(c))'
    BY <1>0, <1>4, <2>1, <2>2, AskingStays DEF sessionVars
  <2> QED
    BY <1>0, <1>1, <2>3 DEF OnItsWay
<1> QED
  BY <1>2, <1>3, <1>4

\* The watcher still waits when the gateway has answered.
LEMMA AnswersKeepNews ==
  ASSUME NewsInv, NEW id \in DOMAIN requests, GatewayAnswers(id), NEW c \in Consumers, OnItsWay(c)
  PROVE  OnItsWay(c)'
<1>0. /\ UNCHANGED <<consumer, call>> /\ UNCHANGED sessionVars /\ KeyOf(c)' = KeyOf(c)
      /\ c \in Subscribers' /\ requests \in Seq(RequestRecords)
  BY DEF Subscribers, GatewayAnswers, sessionVars, KeyOf, NewsInv, SubscriptionInv, Types, OnItsWay
<1>1. \A i \in DOMAIN requests :
        /\ i \in DOMAIN requests' /\ requests'[i].watcher = requests[i].watcher
        /\ requests'[i].session = requests[i].session /\ requests'[i].keys = requests[i].keys
  BY <1>0 DEF GatewayAnswers, RequestRecords
<1>2. Asking(KeyOf(c)) => Asking(KeyOf(c))'
  BY <1>0, <1>1, AskingStays DEF sessionVars
<1> QED
  BY <1>0, <1>2 DEF OnItsWay, ReplayComes, sessionVars

LEMMA StepKeepsNews ==
  ASSUME NewsInv, [Next]_vars
  PROVE  NewsIsKept
<1> SUFFICES ASSUME NEW c \in Consumers, KeyOf(c) \in world.rejected, OnItsWay(c)
             PROVE  \/ OnItsWay(c)' \/ consumer'[c] = "gone"
                    \/ \E id \in DOMAIN requests : Broadcasts(id, c)
  BY DEF NewsIsKept
<1>1. CASE UNCHANGED vars
  <2>1. KeyOf(c)' = KeyOf(c) /\ UNCHANGED <<consumer, call, requests, runner, dialled, broken>>
    BY <1>1 DEF vars, sessionVars, KeyOf
  <2>2. Asking(KeyOf(c)) => Asking(KeyOf(c))'
    BY <2>1 DEF Asking
  <2> QED
    BY <2>1, <2>2 DEF OnItsWay, ReplayComes, Subscribers
<1>2. CASE Next
  BY <1>2, RunnerKeepsNews, ConsumersKeepNews, CallingKeepsNews, WatchingKeepsNews, AnswersKeepNews
  DEF Next
<1> QED
  BY <1>1, <1>2

\* The futures.
LEMMA FuturesStay ==
  ASSUME NewsInv, [Next]_vars
  PROVE  FuturesFit'
<1> USE DEF NewsInv
<1>0. requests \in Seq(RequestRecords)
  BY DEF SubscriptionInv, Types
<1>1. ASSUME UNCHANGED <<requests, world>>, closed \subseteq closed'
      PROVE  FuturesFit'
  BY <1>1 DEF FuturesFit
<1>2. CASE UNCHANGED vars \/ Bind \/ PublishSession \/ ReplaySnapshot \/ ReadLoopStarts
           \/ ClearSession \/ ConnectionBreaks \/ (\E c \in Consumers : Register(c) \/ Leave(c))
           \/ (\E x \in Callers : LoadSession(x))
  BY <1>1, <1>2 DEF vars, sessionVars, Bind, PublishSession, ReplaySnapshot, Replay, ReadLoopStarts,
     ClearSession, ConnectionBreaks, Register, Subscribe, Leave, LoadSession
<1>3. ASSUME NEW x \in Callers, RegisterPending(x)
      PROVE  FuturesFit'
  <2>1. UNCHANGED sessionVars
    BY <1>3 DEF RegisterPending
  <2>2. CASE UNCHANGED requests
    BY <1>1, <2>1, <2>2 DEF sessionVars
  <2>3. CASE requests' = Append(requests, Request(call[x].keys, call[x].session))
    <3> DEFINE r == Request(call[x].keys, call[x].session)
    <3>0. requests' = Append(requests, r)
      BY <2>3
    <3>1. r.future = "empty" /\ r \in RequestRecords
      <4>1. call[x] \in CallRecords /\ call[x].session # 0
        BY <1>3 DEF RegisterPending, SubscriptionInv, Types, CallsMatch, CallMatches
      <4> QED
        BY <4>1 DEF Request, RequestRecords, CallRecords, Sessions
    <3> HIDE DEF r
    <3>2. /\ DOMAIN requests' = DOMAIN requests \union {Len(requests) + 1}
          /\ requests'[Len(requests) + 1] = r
          /\ \A i \in DOMAIN requests : requests'[i] = requests[i]
      BY <1>0, <3>0, <3>1
    <3> QED
      BY <2>1, <3>1, <3>2 DEF FuturesFit, sessionVars
  <2> QED
    BY <1>3, <2>2, <2>3 DEF RegisterPending
<1>4. ASSUME NEW x \in Callers, Write(x)
      PROVE  FuturesFit'
  <2>1. UNCHANGED sessionVars
    BY <1>4 DEF Write
  <2>2. PICK r \in RequestRecords :
          /\ requests' = [requests EXCEPT ![call[x].id] = r]
          /\ r.keys = requests[call[x].id].keys
          /\ r.session = requests[call[x].id].session /\ r.future = requests[call[x].id].future
    BY <1>4, WriteSends
  <2> QED
    BY <2>1, <2>2 DEF FuturesFit, sessionVars
<1>5. ASSUME NEW id \in DOMAIN requests, Watching(id)
      PROVE  FuturesFit'
  <2>1. UNCHANGED sessionVars /\ EndWatcher(id)
    BY <1>5 DEF Watching, WatcherReceives, WatcherTimesOut
  <2>2. requests[id] \in RequestRecords
    BY <1>0
  <2>3. /\ requests'[id].future = "empty" /\ DOMAIN requests' = DOMAIN requests
        /\ \A i \in DOMAIN requests : i # id => requests'[i] = requests[i]
    BY <1>0, <2>1, <2>2 DEF EndWatcher, RequestRecords
  <2> QED
    BY <2>1, <2>3 DEF FuturesFit, sessionVars
<1>6. ASSUME NEW id \in DOMAIN requests, GatewayAnswers(id)
      PROVE  FuturesFit'
  <2> DEFINE f == IF ~requests[id].pending THEN requests[id].future
                  ELSE IF requests[id].keys \intersect world.rejected # {} THEN "refused"
                  ELSE "accepted"
             r == [requests[id] EXCEPT !.atGateway = FALSE, !.pending = FALSE, !.future = f]
  <2>1. UNCHANGED sessionVars /\ requests' = [requests EXCEPT ![id] = r]
    BY <1>6 DEF GatewayAnswers
  <2>2. requests[id] \in RequestRecords
    BY <1>0
  <2>3. r.keys = requests[id].keys /\ r.session = requests[id].session /\ r.future = f
    BY <2>2 DEF RequestRecords
  <2>4. /\ f = "accepted" => requests[id].keys \intersect world.rejected = {}
        /\ f = "nil" => requests[id].session \in closed
    BY DEF FuturesFit
  <2> HIDE DEF r, f
  <2>5. /\ requests'[id] = r /\ DOMAIN requests' = DOMAIN requests
        /\ \A i \in DOMAIN requests : i # id => requests'[i] = requests[i]
    BY <2>1
  <2> QED
    BY <2>1, <2>3, <2>4, <2>5 DEF FuturesFit, sessionVars
<1>7. CASE MarkClosed
  <2> DEFINE g(r) == IF r.session # dialled THEN r
                     ELSE [r EXCEPT !.pending = FALSE, !.atGateway = FALSE,
                                    !.future = IF r.pending THEN "nil" ELSE @]
  <2>1. /\ requests' = [i \in DOMAIN requests |-> g(requests[i])]
        /\ UNCHANGED world /\ closed' = closed \union {dialled}
    BY <1>7 DEF MarkClosed
  <2>2. ASSUME NEW r \in RequestRecords
        PROVE  /\ g(r).keys = r.keys /\ g(r).session = r.session
               /\ g(r).future = r.future \/ (g(r).future = "nil" /\ r.session = dialled)
    BY DEF RequestRecords
  <2>3. \A i \in DOMAIN requests : requests[i] \in RequestRecords
    BY <1>0
  <2> HIDE DEF g
  <2> QED
    BY <2>1, <2>2, <2>3 DEF FuturesFit
<1> QED
  BY <1>2, <1>3, <1>4, <1>5, <1>6, <1>7 DEF Next, Runner, Calling

\* The sessions.
LEMMA SessionsStay ==
  ASSUME NewsInv, [Next]_vars
  PROVE  SessionsGoOn'
<1>0. SessionsGoOn /\ RunnerMatches /\ Types
  BY DEF NewsInv, SubscriptionInv
<1>1. CASE Runner
  BY <1>0, <1>1 DEF Runner, Bind, PublishSession, ReplaySnapshot, Replay, ReadLoopStarts, MarkClosed,
     ClearSession, SessionsGoOn
<1>2. CASE ConnectionBreaks
  BY <1>0, <1>2, SubscriptionAssumption DEF ConnectionBreaks, SessionsGoOn, Types
<1>3. CASE UNCHANGED sessionVars
  BY <1>0, <1>3 DEF sessionVars, SessionsGoOn
<1>4. [Next]_vars => Runner \/ ConnectionBreaks \/ UNCHANGED sessionVars
  BY DEF Next, vars, Register, Subscribe, Leave, Calling, LoadSession, RegisterPending, Write,
     GatewayAnswers, Watching, WatcherReceives, WatcherTimesOut
<1> QED
  BY <1>1, <1>2, <1>3, <1>4

\* Where a call comes from.
LEMMA CallsBegin ==
  ASSUME NewsInv, [Next]_vars, NEW x \in Callers, call[x].pc = "none", call'[x].pc # "none"
  PROVE  /\ call'[x].pc = "load"
         /\ IF x = Replayer THEN runner = "steady" /\ runner' = "replaying"
            ELSE /\ consumer[x] = "absent" /\ consumer'[x] = "subscribed"
                 /\ KeyOf(x)' \in call'[x].keys
<1>0. /\ call \in [Callers -> CallRecords]
      /\ consumer \in [Consumers -> {"absent", "subscribed", "told", "missed", "gone"}]
  BY DEF NewsInv, SubscriptionInv, Types
<1>1. CASE UNCHANGED call
  BY <1>1
<1>2. ASSUME NEW c \in Consumers, Register(c), ~UNCHANGED call
      PROVE  c = x /\ call'[x].pc = "load" /\ consumer[x] = "absent" /\ consumer'[x] = "subscribed"
             /\ KeyOf(x)' \in call'[x].keys
  <2> DEFINE r == [NoCall EXCEPT !.pc = "load", !.keys = {KeyOf(c)}]
  <2>1. /\ call' = [call EXCEPT ![c] = r] /\ UNCHANGED world
        /\ consumer[c] = "absent" /\ consumer' = [consumer EXCEPT ![c] = "subscribed"]
    BY <1>2 DEF Register, Subscribe, sessionVars
  <2>2. r.pc = "load" /\ r.keys = {KeyOf(c)}
    BY DEF NoCall
  <2> HIDE DEF r
  <2>3. c = x /\ call'[x] = r
    BY <1>0, <2>1
  <2> QED
    BY <1>0, <2>1, <2>2, <2>3 DEF KeyOf
<1>3. ASSUME NEW y \in Callers, Calling(y)
      PROVE  FALSE
  BY <1>0, <1>3 DEF Calling, LoadSession, RegisterPending, Write
<1>4. CASE ReplaySnapshot /\ ~UNCHANGED call
  <2> DEFINE r == [NoCall EXCEPT !.pc = "load", !.keys = SubscribedKeys]
  <2>1. call' = [call EXCEPT ![Replayer] = r] /\ runner = "steady" /\ runner' = "replaying"
    BY <1>4 DEF ReplaySnapshot, Replay
  <2>2. r.pc = "load"
    BY DEF NoCall
  <2> HIDE DEF r
  <2>3. x = Replayer /\ call'[x] = r
    BY <1>0, <2>1
  <2> QED
    BY <2>1, <2>2, <2>3
<1>5. [Next]_vars => \/ UNCHANGED call \/ ReplaySnapshot
                     \/ \E c \in Consumers : Register(c)
                     \/ \E y \in Callers : Calling(y)
  BY DEF Next, vars, Runner, Bind, PublishSession, ReadLoopStarts, MarkClosed, ClearSession,
     ConnectionBreaks, Leave, GatewayAnswers, Watching, WatcherReceives, WatcherTimesOut
<1>6. \A c \in Consumers : c # Replayer
  BY SubscriptionAssumption
<1> QED
  BY <1>1, <1>2, <1>3, <1>4, <1>5, <1>6

LEMMA NewsStays ==
  ASSUME NewsInv, [Next]_vars
  PROVE  NewsIsOnItsWay'
<1> SUFFICES ASSUME NEW c \in Consumers, (KeyOf(c) \in world.rejected)', consumer'[c] = "subscribed",
                    call'[c].pc # "none"
             PROVE  OnItsWay(c)'
  BY DEF NewsIsOnItsWay
<1>0. c \in Callers /\ c # Replayer
  BY SubscriptionAssumption DEF Callers
<1>1. UNCHANGED world /\ KeyOf(c)' = KeyOf(c)
  BY DEF Next, vars, sessionVars, Runner, Bind, PublishSession, ReplaySnapshot, Replay, ReadLoopStarts,
     MarkClosed, ClearSession, ConnectionBreaks, Register, Subscribe, Leave, Calling, LoadSession,
     RegisterPending, Write, GatewayAnswers, Watching, WatcherReceives, WatcherTimesOut, KeyOf
<1>2. CASE call[c].pc = "none"
  <2>1. call'[c].pc = "load" /\ KeyOf(c)' \in call'[c].keys
    BY <1>0, <1>2, CallsBegin
  <2> QED
    BY <1>0, <2>1 DEF OnItsWay, Asking, Subscribers
<1>3. CASE call[c].pc # "none" /\ consumer[c] = "subscribed"
  <2>1. OnItsWay(c)
    BY <1>1, <1>3 DEF NewsInv, NewsIsOnItsWay
  <2>2. ASSUME NEW id \in DOMAIN requests, Broadcasts(id, c)
        PROVE  FALSE
    <3>1. BroadcastSubscribeError(requests[id].keys) /\ KeyOf(c) \in requests[id].keys
      BY <2>2 DEF Broadcasts, WatcherTimesOut, WatcherReceives
    <3>2. consumer'[c] \in {"told", "missed"}
      BY <1>3, <3>1 DEF BroadcastSubscribeError, ToldOf
    <3> QED
      BY <3>2
  <2> QED
    BY <1>1, <2>1, <2>2, StepKeepsNews DEF NewsIsKept
<1>4. CASE call[c].pc # "none" /\ consumer[c] # "subscribed"
  <2>1. consumer[c] # "absent"
    BY <1>4 DEF NewsInv, SubscriptionInv, IdleMatches
  <2>2. consumer'[c] # "subscribed"
    BY <1>4, <2>1 DEF Next, vars, sessionVars, Runner, Bind, PublishSession, ReplaySnapshot, Replay,
     ReadLoopStarts, MarkClosed, ClearSession, ConnectionBreaks, Register, Subscribe, Leave, Calling,
     LoadSession, RegisterPending, Write, GatewayAnswers, Watching, WatcherReceives, WatcherTimesOut,
     BroadcastSubscribeError, ToldOf, NewsInv, SubscriptionInv, Types
  <2> QED
    BY <2>2
<1> QED
  BY <1>2, <1>3, <1>4

LEMMA NewsInvariant == Spec => []NewsInv
<1>1. NewsInv /\ [Next]_vars => NewsInv'
  BY StepFits, FuturesStay, SessionsStay, NewsStays DEF NewsInv
<1> QED
  BY <1>1, NewsFitsInit, PTL DEF Spec

\* Who registers a key that the gateway refuses does not hang (Hub.Register,
\* subscribeKeys, BroadcastSubscribeError): while its own upstream call runs and
\* no subscribe_error was sent to it, the news is under way to it, in the hands
\* of a caller or of a watcher on the present session, or of the replay that a
\* dead session will bring.
THEOREM RefusalIsOnItsWay == Spec => []NewsIsOnItsWay
<1>1. NewsInv => NewsIsOnItsWay
  BY DEF NewsInv
<1> QED
  BY <1>1, NewsInvariant, PTL

\* And it stays under way, whatever sessions break, calls fail, responses are
\* dropped and watchers end, until the consumer leaves or a watcher makes the
\* broadcast to it.  That one TrySend may lose the news to a full channel; but
\* a dead session puts the news on its way again to every subscriber of the
\* key, the one that missed it included, so the retry that the comment of
\* BroadcastSubscribeError promises is not lost before its broadcast either:
\* with RefusalIsOnItsWay the safety half of RefusalIsBroadcast.
THEOREM RefusalIsKeptUntilBroadcast == Spec => [][NewsIsKept]_vars
<1>1. NewsInv /\ [Next]_vars => [NewsIsKept]_vars
  BY StepKeepsNews
<1> QED
  BY <1>1, NewsInvariant, PTL DEF Spec

\* While the news is under way, one of the goroutines of the bus can step
\* without the gateway and without any consumer (short of the bound on the
\* requests, which the code does not have): nobody waits on anybody.
THEOREM RefusalWaitsForNobody == Spec => []NewsWaitsForNobody
<1>1. NewsInv => NewsWaitsForNobody
  <2> SUFFICES ASSUME NewsInv, NEW c \in Consumers, OnItsWay(c), Len(requests) < MaxRequests
               PROVE  \/ RunnerMoves
                      \/ \E x \in Callers : CallerMoves(x)
                      \/ \E id \in DOMAIN requests : requests[id].watcher = "waiting"
    BY DEF NewsWaitsForNobody
  <2>0. SessionsGoOn /\ RunnerMatches /\ Types /\ Replayer \in Callers
    BY DEF NewsInv, SubscriptionInv, Callers
  <2>1. CASE runner = "down"
    <3>1. dialled # MaxSessions
      BY <2>0, <2>1, SubscriptionAssumption DEF SessionsGoOn
    <3>2. dialled \in 0..MaxSessions
      BY <2>0 DEF Types
    <3> QED
      BY <2>1, <3>1, <3>2, SubscriptionAssumption DEF RunnerMoves
  <2>2. CASE runner \in {"bound", "steady", "closed"}
    BY <2>2 DEF RunnerMoves
  <2>3. CASE runner = "replaying" /\ dialled \in broken
    <3>1. call[Replayer] \in CallRecords
      BY <2>0 DEF Types
    <3> QED
      BY <2>0, <2>3, <3>1 DEF RunnerMoves, CallerMoves, CallRecords
  <2>4. CASE runner = "reading" /\ dialled \in broken
    BY <2>4 DEF RunnerMoves
  <2>5. CASE runner \in {"replaying", "reading"} /\ dialled \notin broken
    <3>1. Asking(KeyOf(c))
      BY <2>5 DEF OnItsWay, ReplayComes
    <3> QED
      BY <3>1 DEF Asking, CallerMoves
  <2> QED
    BY <2>0, <2>1, <2>2, <2>3, <2>4, <2>5 DEF Types
<1> QED
  BY <1>1, NewsInvariant, PTL

\* What the connect goroutine has left falls with each of its steps.
LEMMA RunnerAdvances ==
  ASSUME NewsInv, Next
  PROVE  /\ RunnerLeft \in Nat
         /\ IF Runner THEN RunnerLeft' < RunnerLeft ELSE RunnerLeft' = RunnerLeft
<1>0. dialled \in 0..MaxSessions /\ MaxSessions \in Nat /\ Types
  BY SubscriptionAssumption DEF NewsInv, SubscriptionInv, Types
<1>1. RunnerLeft \in Nat
  BY <1>0 DEF RunnerLeft
<1>2. CASE Bind
  BY <1>0, <1>1, <1>2 DEF Bind, Runner, RunnerLeft
<1>3. CASE PublishSession \/ ReplaySnapshot \/ ReadLoopStarts \/ MarkClosed \/ ClearSession
  <2>1. /\ dialled' = dialled
        /\ \/ runner = "bound" /\ runner' = "steady"
           \/ runner = "steady" /\ runner' = "replaying"
           \/ runner = "replaying" /\ runner' = "reading"
           \/ runner = "reading" /\ runner' = "closed"
           \/ runner = "closed" /\ runner' = "down"
    BY <1>3 DEF PublishSession, ReplaySnapshot, Replay, ReadLoopStarts, MarkClosed, ClearSession
  <2> QED
    BY <1>0, <1>1, <1>3, <2>1 DEF Runner, RunnerLeft
<1>4. CASE ~Runner
  <2>1. UNCHANGED <<runner, dialled>>
    BY <1>4 DEF Next, sessionVars, ConnectionBreaks, Register, Subscribe, Leave, Calling, LoadSession,
       RegisterPending, Write, GatewayAnswers, Watching, WatcherReceives, WatcherTimesOut
  <2> QED
    BY <1>1, <1>4, <2>1 DEF RunnerLeft
<1> QED
  BY <1>1, <1>2, <1>3, <1>4 DEF Runner

LEMMA CallerAdvances ==
  ASSUME NewsInv, Next, NEW x \in Callers
  PROVE  /\ Calling(x) => CallLeft(x)' < CallLeft(x)
         /\ CallLeft(x)' > CallLeft(x) =>
              IF x = Replayer THEN runner = "steady" /\ runner' = "replaying"
              ELSE consumer[x] = "absent" /\ consumer'[x] = "subscribed"
<1>0. call \in [Callers -> CallRecords] /\ NoCall.pc = "none"
  BY DEF NewsInv, SubscriptionInv, Types, NoCall
<1>1. ASSUME NEW y \in Callers, Calling(y)
      PROVE  /\ \A z \in Callers : z # y => call'[z] = call[z]
             /\ \/ call[y].pc = "load" /\ call'[y].pc \in {"none", "pend"}
                \/ call[y].pc = "pend" /\ call'[y].pc \in {"none", "write"}
                \/ call[y].pc = "write" /\ call'[y].pc = "none"
  <2>1. call[y] \in CallRecords
    BY <1>0
  <2>2. CASE LoadSession(y)
    BY <1>0, <2>1, <2>2 DEF LoadSession, CallRecords
  <2>3. CASE RegisterPending(y)
    BY <1>0, <2>1, <2>3 DEF RegisterPending, CallRecords
  <2>4. CASE Write(y)
    BY <1>0, <2>1, <2>4 DEF Write
  <2> QED
    BY <1>1, <2>2, <2>3, <2>4 DEF Calling
<1>2. Calling(x) => CallLeft(x)' < CallLeft(x)
  BY <1>1 DEF CallLeft
<1>3. ASSUME call[x].pc # "none"
      PROVE  ~(CallLeft(x)' > CallLeft(x))
  <2>1. CASE \E y \in Callers : Calling(y)
    BY <1>1, <2>1 DEF CallLeft
  <2>2. CASE call'[x] = call[x]
    BY <2>2 DEF CallLeft
  <2>3. ASSUME NEW c \in Consumers, Register(c)
        PROVE  call'[x] = call[x]
    <3>1. call[c].pc = "none"
      BY <2>3 DEF Register, Subscribe, NewsInv, SubscriptionInv, IdleMatches
    <3> QED
      BY <1>0, <1>3, <2>3, <3>1 DEF Register, Subscribe
  <2>4. CASE ReplaySnapshot
    <3>1. call[Replayer].pc = "none"
      BY <2>4 DEF ReplaySnapshot, Replay, NewsInv, SubscriptionInv, IdleMatches
    <3>2. call'[x] = call[x]
      BY <1>0, <1>3, <2>4, <3>1 DEF ReplaySnapshot, Replay
    <3> QED
      BY <2>2, <3>2
  <2>5. \/ UNCHANGED call \/ ReplaySnapshot
        \/ \E c \in Consumers : Register(c)
        \/ \E y \in Callers : Calling(y)
    BY DEF Next, Runner, Bind, PublishSession, ReadLoopStarts, MarkClosed, ClearSession,
     ConnectionBreaks, Leave, GatewayAnswers, Watching, WatcherReceives, WatcherTimesOut
  <2> QED
    BY <2>1, <2>2, <2>3, <2>4, <2>5
<1>4. CASE call[x].pc = "none" /\ call'[x].pc = "none"
  BY <1>2, <1>4 DEF CallLeft
<1>5. CASE call[x].pc = "none" /\ call'[x].pc # "none"
  BY <1>1, <1>5, CallsBegin
<1> QED
  BY <1>2, <1>3, <1>4, <1>5

LEMMA WatcherAdvances ==
  ASSUME NewsInv, Next, NEW id \in DOMAIN requests
  PROVE  /\ id \in DOMAIN requests'
         /\ Watching(id) => requests[id].watcher = "waiting" /\ requests'[id].watcher = "ended"
         /\ requests[id].watcher = "ended" => requests'[id].watcher = "ended"
<1>0. requests \in Seq(RequestRecords) /\ \A i \in DOMAIN requests : requests[i] \in RequestRecords
  BY DEF NewsInv, SubscriptionInv, Types
<1>1. ASSUME NEW i \in DOMAIN requests, Watching(i)
      PROVE  /\ DOMAIN requests' = DOMAIN requests
             /\ requests[i].watcher = "waiting" /\ requests'[i].watcher = "ended"
             /\ \A j \in DOMAIN requests : j # i => requests'[j] = requests[j]
  BY <1>0, <1>1 DEF Watching, WatcherReceives, WatcherTimesOut, EndWatcher, RequestRecords
<1>2. ASSUME NEW i \in DOMAIN requests, GatewayAnswers(i)
      PROVE  DOMAIN requests' = DOMAIN requests /\ requests'[id].watcher = requests[id].watcher
  BY <1>0, <1>2 DEF GatewayAnswers, RequestRecords
<1>3. ASSUME NEW x \in Callers, LoadSession(x) \/ RegisterPending(x)
      PROVE  id \in DOMAIN requests' /\ requests'[id] = requests[id]
  BY <1>0, <1>3 DEF LoadSession, RegisterPending
<1>4. ASSUME NEW x \in Callers, Write(x)
      PROVE  /\ id \in DOMAIN requests'
             /\ requests[id].watcher # "none" => requests'[id] = requests[id]
  <2>1. PICK r \in RequestRecords : requests' = [requests EXCEPT ![call[x].id] = r]
    BY <1>4, WriteSends DEF NewsInv
  <2>2. requests[call[x].id].watcher = "none"
    BY <1>4 DEF NewsInv, Write, SubscriptionInv, CallsMatch, CallMatches
  <2> QED
    BY <2>1, <2>2
<1>5. CASE MarkClosed
  <2> DEFINE g(r) == IF r.session # dialled THEN r
                     ELSE [r EXCEPT !.pending = FALSE, !.atGateway = FALSE,
                                    !.future = IF r.pending THEN "nil" ELSE @]
  <2>1. requests' = [i \in DOMAIN requests |-> g(requests[i])]
    BY <1>5 DEF MarkClosed
  <2>2. \A r \in RequestRecords : g(r).watcher = r.watcher
    BY DEF RequestRecords
  <2> HIDE DEF g
  <2>3. id \in DOMAIN requests' /\ requests'[id].watcher = requests[id].watcher
    BY <1>0, <2>1, <2>2
  <2>4. ~Watching(id)
    BY <1>5, <2>3 DEF MarkClosed, Watching, WatcherReceives, WatcherTimesOut, sessionVars
  <2> QED
    BY <2>3, <2>4
<1>6. ASSUME ~\E i \in DOMAIN requests : Watching(i),
             ~\E i \in DOMAIN requests : GatewayAnswers(i), ~MarkClosed,
             ~\E x \in Callers : Calling(x)
      PROVE  UNCHANGED requests
  BY <1>6 DEF Next, Runner, Bind, PublishSession, ReplaySnapshot, Replay, ReadLoopStarts, ClearSession,
     ConnectionBreaks, Register, Subscribe, Leave
<1>7. CASE Watching(id)
  BY <1>1, <1>7
<1>8. CASE ~Watching(id)
  BY <1>1, <1>2, <1>3, <1>4, <1>5, <1>6, <1>8 DEF Calling
<1> QED
  BY <1>7, <1>8

\* And each of these steps is one less to the end: the connect goroutine has at
\* most six for each session, a call at most three, a watcher ends once, and
\* only a registration or a replay begins another call.  What is left of
\* RefusalIsBroadcast is that the goroutines are scheduled.
THEOREM SubscribingMovesOn == Spec => [][SubscribingAdvances]_vars
<1>1. NewsInv /\ [Next]_vars => [SubscribingAdvances]_vars
  BY RunnerAdvances, CallerAdvances, WatcherAdvances DEF SubscribingAdvances
<1> QED
  BY <1>1, NewsInvariant, PTL DEF Spec
=============================================================================
