------------------------------ MODULE Delivery ------------------------------
(***************************************************************************)
(* The path of an event inside the bus: the emit callback of the source    *)
(* goroutine (bus.go), Dedup, Hub.Publish with its drop accounting         *)
(* (hub.go), and the bounded send channel and sender goroutine of each     *)
(* Conn (conn.go).                                                         *)
(*                                                                         *)
(* The source goroutine runs emit to its end before the next event, so it  *)
(* is one process, pub.  The channel operations of PushDropOldest are      *)
(* separate steps: the sender goroutine takes from the channel without     *)
(* holding sendMu.  Frames keep what the properties tell apart: the        *)
(* position of an event in the order of publication, the count of a        *)
(* dropped notice; source_status and subscribe_error are plain controls.   *)
(***************************************************************************)
EXTENDS Dedup, Sequences, Functions

CONSTANTS
  Consumers,   \* the connections that subscribe, each at most once
  KeyOf,       \* KeyOf[c]: the EventKey of c's Hello
  Routes,      \* Routes[c]: the events whose key and payload match c
  Nobody,      \* no consumer: the publisher is between pushes
  SendChCap,   \* capacity of sendCh (100 in the code)
  MaxEmits,    \* bound: calls of emit
  MaxControls  \* bound: source_status and subscribe_error broadcasts

ASSUME DeliveryAssumption ==
  /\ SendChCap \in Nat \ {0}
  /\ Nobody \notin Consumers
  /\ MaxEmits \in Nat
  /\ MaxControls \in Nat
  /\ Routes \in [Consumers -> SUBSET (TraceIds \union {NoId})]

VARIABLES
  subscribers,  \* Hub.subscribers
  conn,         \* conn[c]: "new", "open" or "closed"
  sendCh,       \* sendCh[c]: the queued frames, oldest first
  inFlight,     \* inFlight[c]: the frame the sender goroutine took, if any
  received,     \* received[c]: the Conn counter
  dropped,      \* dropped[c]: the Conn counter
  drops,        \* drops[c]: subState, pendingDrops and whether the last
                \*   notice is less than dropAggregateInterval old
  wire,         \* wire[c]: what c was sent: the last event, how many events,
                \*   and the sum of the dropped notices
  pub,          \* the source goroutine inside emit
  emits,        \* calls of emit so far
  published,    \* calls that passed Dedup: the position of the latest event
  controls      \* broadcasts so far

connVars == <<subscribers, conn>>
countVars == <<received, dropped, drops>>
boundVars == <<emits, published, controls>>
vars == <<ring, next, present, reply, subscribers, conn, sendCh, inFlight,
          received, dropped, drops, wire, pub, emits, published, controls>>

Event(n) == [kind |-> "event", n |-> n]
DroppedNotice(n) == [kind |-> "dropped", n |-> n]
Control == [kind |-> "control", n |-> 0]

Idle == [phase |-> "idle", todo |-> {}, cur |-> Nobody,
         enqueued |-> FALSE, evicted |-> FALSE, count |-> 0]

Init ==
  /\ DedupInit
  /\ subscribers = {}
  /\ conn = [c \in Consumers |-> "new"]
  /\ sendCh = [c \in Consumers |-> <<>>]
  /\ inFlight = [c \in Consumers |-> <<>>]
  /\ received = [c \in Consumers |-> 0]
  /\ dropped = [c \in Consumers |-> 0]
  /\ drops = [c \in Consumers |-> [pending |-> 0, throttled |-> FALSE]]
  /\ wire = [c \in Consumers |-> [last |-> 0, events |-> 0, announced |-> 0]]
  /\ pub = Idle
  /\ emits = 0 /\ published = 0 /\ controls = 0

-----------------------------------------------------------------------------
\* Conn: the send channel.

\* sendMu is held across steps only inside PushDropOldest.  A version whose
\* TrySend does not take sendMu:
SendMuIgnored(c) == TRUE

SendMuFree(c) == ~(pub.cur = c /\ pub.phase \in {"evict", "retry"})

\* A channel that takes one frame too many.
RoomOffByOne(c) == Len(sendCh[c]) <= SendChCap

HasRoom(c) == Len(sendCh[c]) < SendChCap

\* The queue after a TrySend: a full channel leaves it as it is.
TrySent(c, frame) ==
  IF HasRoom(c) THEN Append(sendCh[c], frame) ELSE sendCh[c]

-----------------------------------------------------------------------------
\* Connections: handleHello registers, acks and starts; shutdown closes.

\* Hub.Register, the ack and Start.  That the goroutines start only after the
\* ack is BusServer's concern: until then the sender is merely slow.
Register(c) ==
  /\ conn[c] = "new"
  /\ conn' = [conn EXCEPT ![c] = "open"]
  /\ subscribers' = subscribers \union {c}
  /\ UNCHANGED <<dedupVars, sendCh, inFlight, countVars, wire, pub, boundVars>>

\* shutdown with its onClose: Bye, EOF, a failed write or the end of the bus.
\* sendCh stays, for a Publish that still refers to it.
Close(c) ==
  /\ conn[c] = "open"
  /\ conn' = [conn EXCEPT ![c] = "closed"]
  /\ subscribers' = subscribers \ {c}
  /\ UNCHANGED <<dedupVars, sendCh, inFlight, countVars, wire, pub, boundVars>>

-----------------------------------------------------------------------------
\* senderLoop: take a frame from the channel, then write it.  A version that
\* leaves the frame in the channel:
SenderPeek(c) ==
  /\ conn[c] = "open" /\ inFlight[c] = <<>> /\ sendCh[c] # <<>>
  /\ inFlight' = [inFlight EXCEPT ![c] = <<Head(sendCh[c])>>]
  /\ UNCHANGED <<dedupVars, connVars, sendCh, countVars, wire, pub, boundVars>>

SenderTake(c) ==
  /\ conn[c] = "open" /\ inFlight[c] = <<>> /\ sendCh[c] # <<>>
  /\ inFlight' = [inFlight EXCEPT ![c] = <<Head(sendCh[c])>>]
  /\ sendCh' = [sendCh EXCEPT ![c] = Tail(@)]
  /\ UNCHANGED <<dedupVars, connVars, countVars, wire, pub, boundVars>>

SenderWrite(c) ==
  /\ conn[c] = "open" /\ inFlight[c] # <<>>
  /\ LET frame == Head(inFlight[c]) IN
       wire' = CASE frame.kind = "event" ->
                      [wire EXCEPT ![c].last = frame.n, ![c].events = @ + 1]
                 [] frame.kind = "dropped" ->
                      [wire EXCEPT ![c].announced = @ + frame.n]
                 [] OTHER -> wire
  /\ inFlight' = [inFlight EXCEPT ![c] = <<>>]
  /\ UNCHANGED <<dedupVars, connVars, sendCh, countVars, pub, boundVars>>

-----------------------------------------------------------------------------
\* The emit callback and Hub.Publish.

\* A duplicate returns at once; anything else goes on to Publish.
Emit(t) ==
  /\ pub.phase = "idle" /\ emits < MaxEmits
  /\ emits' = emits + 1
  /\ \/ /\ t \in TraceIds /\ SeenDuplicate(t)
        /\ UNCHANGED <<pub, published>>
     \/ /\ IF t = NoId THEN SeenUnnamed ELSE SeenNew(t)
        /\ pub' = [pub EXCEPT !.phase = "snapshot"]
        /\ published' = published + 1
  /\ UNCHANGED <<connVars, sendCh, inFlight, countVars, wire, controls>>

\* Under h.mu.RLock: the matching subscribers.
Snapshot ==
  /\ pub.phase = "snapshot"
  /\ LET matches == {c \in subscribers : reply.id \in Routes[c]} IN
       pub' = IF matches = {} THEN Idle
              ELSE [pub EXCEPT !.phase = "next", !.todo = matches]
  /\ UNCHANGED <<dedupVars, connVars, sendCh, inFlight, countVars, wire,
                 boundVars>>

\* PushDropOldest, first select: into a channel with room, otherwise go on to
\* evict, holding sendMu.  A version that waits for room instead:
BlockingPush(c) ==
  /\ pub.phase = "next" /\ c \in pub.todo /\ HasRoom(c)
  /\ sendCh' = [sendCh EXCEPT ![c] = Append(@, Event(published))]
  /\ pub' = [pub EXCEPT !.phase = "count", !.cur = c, !.enqueued = TRUE,
                        !.evicted = FALSE]
  /\ UNCHANGED <<dedupVars, connVars, inFlight, countVars, wire, boundVars>>

Push(c) ==
  /\ pub.phase = "next" /\ c \in pub.todo
  /\ \/ /\ HasRoom(c)
        /\ sendCh' = [sendCh EXCEPT ![c] = Append(@, Event(published))]
        /\ pub' = [pub EXCEPT !.phase = "count", !.cur = c, !.enqueued = TRUE,
                              !.evicted = FALSE]
     \/ /\ ~HasRoom(c)
        /\ pub' = [pub EXCEPT !.phase = "evict", !.cur = c, !.enqueued = FALSE,
                              !.evicted = FALSE]
        /\ UNCHANGED sendCh
  /\ UNCHANGED <<dedupVars, connVars, inFlight, countVars, wire, boundVars>>

\* An eviction that is not reported to the caller.
EvictUnreported ==
  /\ pub.phase = "evict"
  /\ sendCh' = [sendCh EXCEPT ![pub.cur] = IF @ = <<>> THEN @ ELSE Tail(@)]
  /\ pub' = [pub EXCEPT !.phase = "retry"]
  /\ UNCHANGED <<dedupVars, connVars, inFlight, countVars, wire, boundVars>>

\* Second select: the oldest frame of whatever kind, unless the sender has
\* emptied the channel meanwhile.
Evict ==
  /\ pub.phase = "evict"
  /\ LET c == pub.cur IN
       \/ /\ sendCh[c] # <<>>
          /\ sendCh' = [sendCh EXCEPT ![c] = Tail(@)]
          /\ pub' = [pub EXCEPT !.phase = "retry", !.evicted = TRUE]
       \/ /\ sendCh[c] = <<>>
          /\ pub' = [pub EXCEPT !.phase = "retry"]
          /\ UNCHANGED sendCh
  /\ UNCHANGED <<dedupVars, connVars, inFlight, countVars, wire, boundVars>>

\* The loop over the matches goes on with the next subscriber.
NextMatch(p) ==
  LET rest == p.todo \ {p.cur} IN
    IF rest = {} THEN Idle ELSE [Idle EXCEPT !.phase = "next", !.todo = rest]

\* What follows PushDropOldest and recordDrop: received counts an enqueued
\* event.
AfterDrop(p) == IF p.enqueued THEN [p EXCEPT !.phase = "count"] ELSE NextMatch(p)

\* Third select; sendMu is released.
Retry ==
  /\ pub.phase = "retry"
  /\ LET c == pub.cur
         p == [pub EXCEPT !.enqueued = HasRoom(c)]
     IN /\ sendCh' = [sendCh EXCEPT ![c] = TrySent(c, Event(published))]
        /\ pub' = IF p.evicted THEN [p EXCEPT !.phase = "drop"] ELSE AfterDrop(p)
  /\ UNCHANGED <<dedupVars, connVars, inFlight, countVars, wire, boundVars>>

\* A version of recordDrop that announces without resetting pendingDrops.
RecordDropNoReset ==
  /\ pub.phase = "drop"
  /\ LET c == pub.cur
         pending == drops[c].pending + 1
     IN /\ dropped' = [dropped EXCEPT ![c] = @ + 1]
        /\ drops' = [drops EXCEPT ![c] = [pending |-> pending, throttled |-> TRUE]]
        /\ pub' = IF drops[c].throttled THEN AfterDrop(pub)
                  ELSE [pub EXCEPT !.phase = "notify", !.count = pending]
  /\ UNCHANGED <<dedupVars, connVars, sendCh, inFlight, received, wire, boundVars>>

\* IncrementDropped and the part of recordDrop under muDrop: within the
\* interval the drop stays pending, otherwise the pending count is taken for
\* a notice and reset.
RecordDrop ==
  /\ pub.phase = "drop"
  /\ LET c == pub.cur
         pending == drops[c].pending + 1
     IN /\ dropped' = [dropped EXCEPT ![c] = @ + 1]
        /\ \/ /\ drops[c].throttled
              /\ drops' = [drops EXCEPT ![c].pending = pending]
              /\ pub' = AfterDrop(pub)
           \/ /\ ~drops[c].throttled
              /\ drops' = [drops EXCEPT ![c] = [pending |-> 0, throttled |-> TRUE]]
              /\ pub' = [pub EXCEPT !.phase = "notify", !.count = pending]
  /\ UNCHANGED <<dedupVars, connVars, sendCh, inFlight, received, wire, boundVars>>

\* The TrySend of the notice; a failed one is only logged.
Notify ==
  /\ pub.phase = "notify" /\ SendMuFree(pub.cur)
  /\ LET c == pub.cur IN
       sendCh' = [sendCh EXCEPT ![c] = TrySent(c, DroppedNotice(pub.count))]
  /\ pub' = AfterDrop([pub EXCEPT !.count = 0])
  /\ UNCHANGED <<dedupVars, connVars, inFlight, countVars, wire, boundVars>>

\* IncrementReceived.
Count ==
  /\ pub.phase = "count"
  /\ received' = [received EXCEPT ![pub.cur] = @ + 1]
  /\ pub' = NextMatch(pub)
  /\ UNCHANGED <<dedupVars, connVars, sendCh, inFlight, dropped, drops, wire,
                 boundVars>>

-----------------------------------------------------------------------------
\* BroadcastSourceStatus (to all) and BroadcastSubscribeError (to the
\* subscribers of a key).  The source notifies from heartbeatLoop too, which is
\* a goroutine of its own, so either may come in the middle of a Publish.  The
\* sends to different connections commute, so the loop under h.mu.RLock is one
\* step.
Broadcast(targets) ==
  /\ controls < MaxControls
  /\ \A c \in targets : SendMuFree(c)
  /\ controls' = controls + 1
  /\ sendCh' = [c \in Consumers |->
                  IF c \in targets THEN TrySent(c, Control) ELSE sendCh[c]]
  /\ UNCHANGED <<dedupVars, connVars, inFlight, countVars, wire, pub, emits,
                 published>>

BroadcastSourceStatus == subscribers # {} /\ Broadcast(subscribers)

BroadcastSubscribeError ==
  \E k \in {KeyOf[c] : c \in subscribers} :
    Broadcast({c \in subscribers : KeyOf[c] = k})

\* One second passes since the last notice to c.
IntervalElapses(c) ==
  /\ drops[c].throttled
  /\ drops' = [drops EXCEPT ![c].throttled = FALSE]
  /\ UNCHANGED <<dedupVars, connVars, sendCh, inFlight, received, dropped,
                 wire, pub, boundVars>>

-----------------------------------------------------------------------------
Publisher ==
  \/ Snapshot \/ Evict \/ Retry \/ RecordDrop \/ Notify \/ Count
  \/ \E c \in Consumers : Push(c)

Next ==
  \/ Publisher
  \/ \E t \in TraceIds \union {NoId} : Emit(t)
  \/ BroadcastSourceStatus \/ BroadcastSubscribeError
  \/ \E c \in Consumers :
       \/ Register(c) \/ Close(c)
       \/ SenderTake(c) \/ SenderWrite(c) \/ IntervalElapses(c)

\* Only the source goroutine is scheduled fairly: a consumer may stop reading
\* for ever, and no property of the publisher may depend on it.
Spec == Init /\ [][Next]_vars /\ WF_vars(Publisher)

-----------------------------------------------------------------------------
Frames == {Control} \union [kind : {"event", "dropped"}, n : 1..MaxEmits]

\* Frames waiting for the wire of c, oldest first.
Outgoing(c) == inFlight[c] \o sendCh[c]

EventsIn(q) == {f \in Range(q) : f.kind = "event"}

\* The sum of the notices among the frames q, as a number of pairs: a notice
\* at i that announces n drops has the pairs <<i, 1>> to <<i, n>>.
AnnouncedIn(q) ==
  Cardinality(UNION {{i} \X (1..q[i].n) : i \in {d \in DOMAIN q : q[d].kind = "dropped"}})

One(b) == IF b THEN 1 ELSE 0

\* Types, and the channel never holds more than its capacity.
TypeOK ==
  /\ DedupTypeOK
  /\ subscribers \subseteq Consumers
  /\ conn \in [Consumers -> {"new", "open", "closed"}]
  /\ \A c \in Consumers :
       /\ Len(sendCh[c]) <= SendChCap /\ Len(inFlight[c]) <= 1
       /\ \A i \in DOMAIN Outgoing(c) : Outgoing(c)[i] \in Frames
       /\ received[c] \in 0..MaxEmits /\ dropped[c] \in 0..MaxEmits
       /\ drops[c] \in [pending : 0..MaxEmits, throttled : BOOLEAN]
       /\ wire[c] \in [last : 0..MaxEmits, events : 0..MaxEmits,
                       announced : 0..MaxEmits]
  /\ pub.phase \in {"idle", "snapshot", "next", "evict", "retry", "drop",
                    "notify", "count"}
  /\ pub.todo \subseteq Consumers

\* PushDropOldest always enqueues (conn.go's "enqueued"): between its eviction
\* and its second push only the sender, which makes room, can touch the
\* channel, because TrySend takes sendMu.
PushAlwaysLands == pub.phase \in {"drop", "notify", "count"} => pub.enqueued

\* Events reach the wire in the order the source published them and at most
\* once each, whatever was evicted between them (hub.go, Publish: there is no
\* per-subscriber sequence number a consumer could reorder by).
EventsInOrder ==
  \A c \in Consumers :
    LET q == Outgoing(c)
        events == {i \in DOMAIN q : q[i].kind = "event"}
    IN \A i \in events : /\ wire[c].last < q[i].n
                         /\ \A j \in events : i < j => q[i].n < q[j].n

\* The events enqueued for c and the frames evicted, with the push under way
\* that IncrementReceived and IncrementDropped have yet to count.
Pushed(c) ==
  received[c] + One(/\ pub.cur = c /\ pub.enqueued
                    /\ pub.phase \in {"drop", "notify", "count"})

Evicted(c) ==
  dropped[c] + One(pub.cur = c /\ pub.evicted /\ pub.phase \in {"retry", "drop"})

\* An event that was pushed to a live connection and is neither written nor
\* waiting was counted by IncrementDropped: what `event status` shows as
\* received never hides a loss.
NoUncountedLoss ==
  \A c \in subscribers :
    Pushed(c) <= wire[c].events + Cardinality(EventsIn(Outgoing(c))) + Evicted(c)

\* The drops of c that a notice announced, will announce, or that are still
\* pending for the next one.
Accounted(c) ==
  wire[c].announced + AnnouncedIn(Outgoing(c)) + drops[c].pending
  + IF pub.cur = c THEN pub.count ELSE 0

\* The notices never tell a consumer of more drops than happened.
NoticesNeverOverstate == \A c \in Consumers : Accounted(c) <= dropped[c]

\* What recordDrop's comment says, "the next dropped event will retry the
\* aggregation": no drop of a live connection leaves the account.
DropsStayAccounted == \A c \in subscribers : Accounted(c) = dropped[c]

\* Publish never waits for a consumer: it ends although no sender is fair.
PublishTerminates == pub.phase # "idle" ~> pub.phase = "idle"
=============================================================================
