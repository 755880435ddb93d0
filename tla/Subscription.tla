---------------------------- MODULE Subscription ----------------------------
(***************************************************************************)
(* How the keys of the consumers reach the gateway: Hub.Register fires one *)
(* upstream Subscribe per key (hub.go, subreg.go, bus.go), WSSource sends  *)
(* it on the published session and leaves a watcher behind (wssource.go,   *)
(* subscribeKeys and awaitSubscribeRsp), every new session replays the     *)
(* keys of the hub (runOnce, SetOnReconnected), and a failure is routed to *)
(* the subscribers of its keys (BroadcastSubscribeError), best effort.     *)
(*                                                                         *)
(* A consumer's handler, the replay of the connect goroutine, the watchers *)
(* and the read loop run concurrently; the steps of subscribeKeys are      *)
(* those between which another of them may change the session.  Sessions   *)
(* are numbered in order of dialling; 0 is the nil connState.              *)
(***************************************************************************)
EXTENDS Naturals, FiniteSets, Sequences

CONSTANTS
  Consumers,    \* the consumers, each registers at most once
  Keys,         \* the EventKeys
  Worlds,       \* the cases to consider: keyOf[c] is the key of consumer c,
                \*   rejected the keys the gateway refuses
  Replayer,     \* the connect goroutine, as a caller of SubscribeBatch
  MaxSessions,  \* bound: dials; the last session does not break
  MaxRequests   \* bound: SubscribeReq frames encoded

ASSUME SubscriptionAssumption ==
  /\ Worlds \subseteq [keyOf : [Consumers -> Keys], rejected : SUBSET Keys]
  /\ Replayer \notin Consumers
  /\ MaxSessions \in Nat \ {0}
  /\ MaxRequests \in Nat

Callers == Consumers \union {Replayer}
Sessions == 1..MaxSessions

VARIABLES
  world,        \* the case at hand, which never changes
  consumer,     \* consumer[c]: "absent"; "subscribed"; "told", a
                \*   subscribe_error was put into its send channel (where
                \*   an event may evict it yet: Delivery); "missed", its
                \*   channel was full at every broadcast so far; "gone"
  call,         \* call[x]: the progress of x inside subscribeKeys
  requests,     \* the SubscribeReqs in the order of their msg ids
  runner,       \* the goroutine of runOnce
  dialled,      \* the number of the latest session
  connState,    \* the published session
  broken,       \* sessions whose connection no longer works
  closed        \* sessions that markClosed has closed

sessionVars == <<world, runner, dialled, connState, broken, closed>>
vars == <<consumer, call, requests, sessionVars>>

KeyOf(c) == world.keyOf[c]

NoCall == [pc |-> "none", keys |-> {}, session |-> 0, id |-> 0]

\* A request: pending is its entry in the session's map, future what its
\* channel of capacity 1 holds, and watcher the goroutine that waits on it.
Request(keys, s) ==
  [keys |-> keys, session |-> s, pending |-> TRUE, future |-> "empty",
   watcher |-> "none", atGateway |-> FALSE]

Init ==
  /\ world \in Worlds
  /\ consumer = [c \in Consumers |-> "absent"]
  /\ call = [x \in Callers |-> NoCall]
  /\ requests = <<>>
  /\ runner = "down" /\ dialled = 0 /\ connState = 0
  /\ broken = {} /\ closed = {}

\* Hub.subscribers.
Subscribers ==
  {c \in Consumers : consumer[c] \in {"subscribed", "told", "missed"}}

-----------------------------------------------------------------------------
\* Consumers.

\* c subscribes, and makes the upstream call if nobody has its key yet.
Subscribe(c, others) ==
  /\ consumer[c] = "absent"
  /\ consumer' = [consumer EXCEPT ![c] = "subscribed"]
  /\ call' = IF \E d \in others : KeyOf(d) = KeyOf(c) THEN call
             ELSE [call EXCEPT ![c] = [NoCall EXCEPT !.pc = "load",
                                                     !.keys = {KeyOf(c)}]]
  /\ UNCHANGED <<requests, sessionVars>>

\* A hub whose reference counts never fall.
RegisterOncePerKey(c) ==
  Subscribe(c, {d \in Consumers : consumer[d] # "absent"})

\* Hub.Register: only the first subscriber of a key makes the upstream call.
\* (The reference count agrees with the subscribers: BusServer.)
Register(c) == Subscribe(c, Subscribers)

\* The connection closes and the hub forgets it; no unsubscribe is sent.  The
\* handler is inside Register until its call returns.
Leave(c) ==
  /\ c \in Subscribers /\ call[c].pc = "none"
  /\ consumer' = [consumer EXCEPT ![c] = "gone"]
  /\ UNCHANGED <<call, requests, sessionVars>>

-----------------------------------------------------------------------------
\* subscribeKeys.

\* connState.Load(): without a session the call ends, left to the Replay.
LoadSession(x) ==
  /\ call[x].pc = "load"
  /\ call' = [call EXCEPT ![x] = IF connState = 0 THEN NoCall
                                  ELSE [@ EXCEPT !.pc = "pend",
                                                 !.session = connState]]
  /\ UNCHANGED <<consumer, requests, sessionVars>>

\* EncodeSubscribeReq and registerPending: a closed session ends the call.
RegisterPending(x) ==
  /\ call[x].pc = "pend"
  /\ \/ /\ call[x].session \in closed
        /\ call' = [call EXCEPT ![x] = NoCall]
        /\ UNCHANGED requests
     \/ /\ call[x].session \notin closed /\ Len(requests) < MaxRequests
        /\ requests' = Append(requests, Request(call[x].keys, call[x].session))
        /\ call' = [call EXCEPT ![x].pc = "write", ![x].id = Len(requests) + 1]
  /\ UNCHANGED <<consumer, sessionVars>>

\* A failure that leaves the entry of the request in the session's map.
WriteKeepsPending(x) ==
  /\ call[x].pc = "write"
  /\ LET id == call[x].id
         s == call[x].session
     IN \/ /\ s \in closed \union broken
           /\ UNCHANGED requests
        \/ /\ s \notin closed
           /\ requests' = [requests EXCEPT ![id].watcher = "waiting",
                                           ![id].atGateway = s \notin broken]
  /\ call' = [call EXCEPT ![x] = NoCall]
  /\ UNCHANGED <<consumer, sessionVars>>

\* Under writeMu: a closed session or a failed write cancels the entry;
\* otherwise a watcher is spawned.  A write on a broken connection may fail,
\* or vanish into its buffers.
Write(x) ==
  /\ call[x].pc = "write"
  /\ LET id == call[x].id
         s == call[x].session
     IN \/ /\ s \in closed \union broken
           /\ requests' = [requests EXCEPT ![id].pending = FALSE]
        \/ /\ s \notin closed
           /\ requests' = [requests EXCEPT ![id].watcher = "waiting",
                                           ![id].atGateway = s \notin broken]
  /\ call' = [call EXCEPT ![x] = NoCall]
  /\ UNCHANGED <<consumer, sessionVars>>

-----------------------------------------------------------------------------
\* awaitSubscribeRsp and BroadcastSubscribeError.

\* The subscribers of the keys after a broadcast that finds the channels of
\* the consumers in full to be full.
ToldOf(keys, full) ==
  [c \in Consumers |->
     IF consumer[c] \in {"subscribed", "missed"} /\ KeyOf(c) \in keys
     THEN IF c \in full THEN "missed" ELSE "told"
     ELSE consumer[c]]

\* One TrySend to each subscriber of the keys: a full channel loses the frame.
BroadcastSubscribeError(keys) ==
  \E full \in SUBSET Consumers : consumer' = ToldOf(keys, full)

\* The deferred cancelPending; the future is no longer read.
EndWatcher(id) ==
  requests' = [requests EXCEPT ![id].watcher = "ended", ![id].pending = FALSE,
                               ![id].future = "empty"]

\* The future holds the response, or nil from markClosed, which is silent.
WatcherReceives(id) ==
  /\ requests[id].watcher = "waiting" /\ requests[id].future # "empty"
  /\ EndWatcher(id)
  /\ IF requests[id].future = "refused"
     THEN BroadcastSubscribeError(requests[id].keys) ELSE UNCHANGED consumer
  /\ UNCHANGED <<call, sessionVars>>

\* defaultRspTimeout: reported like a refusal.
WatcherTimesOut(id) ==
  /\ requests[id].watcher = "waiting"
  /\ EndWatcher(id)
  /\ BroadcastSubscribeError(requests[id].keys)
  /\ UNCHANGED <<call, sessionVars>>

\* The gateway answers a request and the read loop hands the response to the
\* pending entry, or drops it when there is none.  One code answers all the
\* keys of a request.
GatewayAnswers(id) ==
  /\ runner = "reading" /\ requests[id].session = connState
  /\ connState \notin broken
  /\ requests[id].atGateway
  /\ requests' = [requests EXCEPT ![id] =
       [@ EXCEPT !.atGateway = FALSE,
                 !.pending = FALSE,
                 !.future =
                   IF ~requests[id].pending
                   THEN requests[id].future   \* nobody waits: dropped
                   ELSE IF requests[id].keys \intersect world.rejected # {} THEN "refused"
                   ELSE "accepted"]]
  /\ UNCHANGED <<consumer, call, sessionVars>>

-----------------------------------------------------------------------------
\* runOnce.

\* Token refresh, dial and AuthBind succeed; the session is still private.
Bind ==
  /\ runner = "down" /\ dialled < MaxSessions
  /\ dialled' = dialled + 1
  /\ runner' = "bound"
  /\ UNCHANGED <<world, consumer, call, requests, connState, broken, closed>>

PublishSession ==
  /\ runner = "bound"
  /\ connState' = dialled
  /\ runner' = "steady"
  /\ UNCHANGED <<world, consumer, call, requests, dialled, broken, closed>>

SubscribedKeys == {KeyOf(c) : c \in Subscribers}

\* SubscribeBatch in the connect goroutine; without keys there is no call.
Replay(keys) ==
  /\ runner = "steady"
  /\ call' = IF keys = {} THEN call
             ELSE [call EXCEPT ![Replayer] = [NoCall EXCEPT !.pc = "load",
                                                            !.keys = keys]]
  /\ runner' = "replaying"
  /\ UNCHANGED <<world, consumer, requests, dialled, connState, broken, closed>>

\* A version that spares the keys some session was already asked for.
ReplayUnlessAsked ==
  Replay(SubscribedKeys \ UNION {requests[id].keys : id \in DOMAIN requests})

\* onReconnected: the keys of the hub at this moment, in one batch.
ReplaySnapshot == Replay(SubscribedKeys)

ReadLoopStarts ==
  /\ runner = "replaying" /\ call[Replayer].pc = "none"
  /\ runner' = "reading"
  /\ UNCHANGED <<world, consumer, call, requests, dialled, connState, broken, closed>>

\* The network, the gateway or the heartbeat ends the connection.
ConnectionBreaks ==
  /\ runner \in {"bound", "steady", "replaying", "reading"}
  /\ dialled \notin broken /\ dialled < MaxSessions
  /\ broken' = broken \union {dialled}
  /\ UNCHANGED <<world, consumer, call, requests, runner, dialled, connState, closed>>

\* The read loop fails; markClosed sends nil to every pending future.
MarkClosed ==
  /\ runner = "reading" /\ dialled \in broken
  /\ runner' = "closed"
  /\ closed' = closed \union {dialled}
  /\ requests' = [id \in DOMAIN requests |->
       LET r == requests[id] IN
         IF r.session # dialled THEN r
         ELSE [r EXCEPT !.pending = FALSE, !.atGateway = FALSE,
                        !.future = IF r.pending THEN "nil" ELSE @]]
  /\ UNCHANGED <<world, consumer, call, dialled, connState, broken>>

\* A version that leaves the dead session published.
ClearSessionForgotten ==
  /\ runner = "closed"
  /\ runner' = "down"
  /\ UNCHANGED <<world, consumer, call, requests, dialled, connState, broken, closed>>

ClearSession ==
  /\ runner = "closed"
  /\ connState' = 0
  /\ runner' = "down"
  /\ UNCHANGED <<world, consumer, call, requests, dialled, broken, closed>>

-----------------------------------------------------------------------------
Runner ==
  \/ Bind \/ PublishSession \/ ReplaySnapshot \/ ReadLoopStarts
  \/ MarkClosed \/ ClearSession

Calling(x) == LoadSession(x) \/ RegisterPending(x) \/ Write(x)

Watching(id) == WatcherReceives(id) \/ WatcherTimesOut(id)

Next ==
  \/ Runner \/ ConnectionBreaks
  \/ \E c \in Consumers : Register(c) \/ Leave(c)
  \/ \E x \in Callers : Calling(x)
  \/ \E id \in DOMAIN requests : GatewayAnswers(id) \/ Watching(id)

\* The goroutines of the bus run and the watchers' timers pass.  Nothing
\* makes consumers come or leave, the connection break or the gateway answer.
Fairness ==
  /\ WF_vars(Runner)
  /\ \A x \in Callers : WF_vars(Calling(x))
  /\ \A id \in 1..MaxRequests :
       WF_vars(id \in DOMAIN requests /\ Watching(id))

Spec == Init /\ [][Next]_vars /\ Fairness

-----------------------------------------------------------------------------
TypeOK ==
  /\ world \in Worlds
  /\ consumer \in [Consumers -> {"absent", "subscribed", "told", "missed", "gone"}]
  /\ call \in [Callers -> [pc : {"none", "load", "pend", "write"},
                           keys : SUBSET Keys, session : 0..MaxSessions,
                           id : 0..MaxRequests]]
  /\ Len(requests) <= MaxRequests
  /\ \A id \in DOMAIN requests :
       requests[id] \in [keys : SUBSET Keys, session : Sessions,
                         pending : BOOLEAN,
                         future : {"empty", "accepted", "refused", "nil"},
                         watcher : {"none", "waiting", "ended"},
                         atGateway : BOOLEAN]
  /\ runner \in {"down", "bound", "steady", "replaying", "reading", "closed"}
  /\ dialled \in 0..MaxSessions /\ connState \in {0, dialled}
  /\ broken \subseteq Sessions /\ closed \subseteq broken

\* Nothing is under way for key k: no caller is inside subscribeKeys with it.
Settled(k) == \A x \in Callers : k \notin call[x].keys

\* A subscribed key is never forgotten: on a session that is being read and
\* works, every key with a subscriber has been asked for, whatever the order
\* of the first registration, the session's publication and the replay's
\* snapshot (wssource.go: the single switch connState).
NoForgottenKey ==
  runner = "reading" /\ dialled \notin broken =>
    \A c \in Subscribers :
      Settled(KeyOf(c)) =>
        \E id \in DOMAIN requests :
          /\ requests[id].session = dialled /\ KeyOf(c) \in requests[id].keys
          /\ requests[id].watcher # "none"

\* An entry of a pending map has someone who will take its response or cancel
\* it, and a watcher that waits still has its entry or its answer: no response
\* is dropped that somebody waits for, and no entry leaks (the pending map and
\* its futures).
PendingMatchesWaiters ==
  \A id \in DOMAIN requests :
    LET r == requests[id] IN
      /\ r.pending => \/ r.watcher = "waiting"
                      \/ \E x \in Callers : call[x].pc = "write" /\ call[x].id = id
      /\ r.watcher = "waiting" => r.pending \/ r.future # "empty"

\* A replay will ask for the keys of the hub again: the session at hand is
\* gone, or was not replayed to yet.
ReplayComes == runner \notin {"replaying", "reading"} \/ dialled \in broken

\* A subscribe_error for c was tried, and the session at hand was asked for its
\* key and has answered or kept its watcher waiting too long.
BroadcastTo(c) ==
  /\ consumer[c] \in {"told", "missed"}
  /\ dialled \notin broken
  /\ \E id \in DOMAIN requests :
       /\ requests[id].session = dialled /\ KeyOf(c) \in requests[id].keys
       /\ requests[id].watcher = "ended"

\* A subscriber of a key that the gateway refuses whose own call is running, or
\* which the next session's replay will ask for, does not wait in vain although
\* sessions break at any point: the refusal is broadcast to it, or it leaves.
\* The broadcast is best effort; after each reconnect it is tried again, as the
\* comment of BroadcastSubscribeError says, whether it was told before or not.
RefusalIsBroadcast ==
  \A c \in Consumers :
    KeyOf(c) \in world.rejected /\ c \in Subscribers
        /\ (call[c].pc # "none" \/ ReplayComes)
      ~> BroadcastTo(c) \/ consumer[c] = "gone"

Quiet ==
  /\ runner = "reading" /\ dialled \notin broken
  /\ \A x \in Callers : call[x].pc = "none"
  /\ \A id \in DOMAIN requests : requests[id].watcher # "waiting"

\* What bus.go says of a refused key, that its consumers are told and do not
\* hang: when nothing is under way any more, there is none to whom nothing was
\* even sent (a frame that a full channel lost is not counted against it).
RefusedConsumersAreTold ==
  Quiet =>
    \A c \in Consumers : KeyOf(c) \in world.rejected => consumer[c] # "subscribed"
=============================================================================
