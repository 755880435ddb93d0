----------------------------- MODULE BusServer -----------------------------
(***************************************************************************)
(* The connection side of the bus daemon: Bus.Run from the moment it       *)
(* listens (bus.go), the handlers of accepted connections (handlers.go),   *)
(* the subscriber map and per-key reference counts of the hub (hub.go,     *)
(* subreg.go), and the end of a Conn (conn.go, shutdown).                  *)
(*                                                                         *)
(* Each critical section of b.mu or h.mu is one step; what a goroutine     *)
(* does between two of them is separate steps, so the accept loop, every   *)
(* handler, every closing goroutine, the timer and the main loop           *)
(* interleave.  Payloads and IO are left out: a frame arrives or it does   *)
(* not, a write succeeds or fails.                                         *)
(***************************************************************************)
EXTENDS Naturals, FiniteSets

CONSTANTS
  Conns,    \* the connections dialled to the bus over its life
  Keys,     \* the EventKeys of the registry
  KeyOf,    \* KeyOf[c]: the key of the Hello c sends, if it sends one
  NoConn    \* the main goroutine is not inside a Close

ASSUME BusServerAssumption ==
  /\ KeyOf \in [Conns -> Keys]
  /\ NoConn \notin Conns
  /\ IsFiniteSet(Conns)

VARIABLES
  handler,      \* handler[c]: how far the goroutines that serve c have come
  subscribers,  \* Hub.subscribers
  refs,         \* subRegistry.count
  conns,        \* Bus.conns
  timer,        \* Bus.idleTimer: "stopped", "armed", or "fired" with its tick
                \*   still in the channel
  main,         \* the goroutine of Run
  dropping,     \* shutdownConns: the connections of its snapshot not yet closed
  dropCur,      \* the one whose Close it is in
  accepting,    \* acceptLoop has not returned
  shutdownCh,   \* a shutdown request waits in the channel of capacity 1
  ctxDone,      \* the context of Run is cancelled (SIGTERM)
  sourceUp      \* the source goroutine has not returned

hubVars == <<subscribers, refs>>
mainVars == <<main, dropping, dropCur>>
requestVars == <<shutdownCh, ctxDone, sourceUp>>
vars == <<handler, subscribers, refs, conns, timer, main, dropping, dropCur,
          accepting, shutdownCh, ctxDone, sourceUp>>

HandlerPhases ==
  {"absent",        \* not dialled yet
   "dialled",       \* waits in the backlog of the listener
   "reading",       \* handleConn waits for the first frame
   "valid",         \* handleHello accepted the owner and the key
   "registered",    \* in the hub, not yet in b.conns
   "tracked",       \* in b.conns, the ack not yet written
   "open",          \* acknowledged, its goroutines running
   "closing",       \* shutdown has closed the connection
   "unregistered",  \* onClose has called hub.Unregister
   "resetting",     \* onClose removed the last member of b.conns
   "gone"}

MainPhases == {"select", "tick", "closing", "snapshot", "dropping",
               "waitAccept", "returned", "exited"}

Init ==
  /\ handler = [c \in Conns |-> "absent"]
  /\ subscribers = {}
  /\ refs = [k \in Keys |-> 0]
  /\ conns = {}
  /\ timer = "armed"
  /\ main = "select" /\ dropping = {} /\ dropCur = NoConn
  /\ accepting = TRUE
  /\ shutdownCh = FALSE /\ ctxDone = FALSE /\ sourceUp = TRUE

Running == main # "exited"

\* The listener is open until the main loop has decided to stop.
Listening == main \in {"select", "tick", "closing"}

-----------------------------------------------------------------------------
\* The handler of a connection.

\* A step of c's goroutines that only moves them on.
Advance(c, from, to) ==
  /\ Running
  /\ handler[c] = from
  /\ handler' = [handler EXCEPT ![c] = to]

Dial(c) ==
  /\ Listening
  /\ Advance(c, "absent", "dialled")
  /\ UNCHANGED <<hubVars, conns, timer, mainVars, accepting, requestVars>>

\* acceptLoop: a connection gets its handler.
Accept(c) ==
  /\ accepting /\ Listening
  /\ Advance(c, "dialled", "reading")
  /\ UNCHANGED <<hubVars, conns, timer, mainVars, accepting, requestVars>>

\* acceptLoop returns once the listener is closed, and what was not accepted
\* is reset.  A loop that retries every accept error instead:
AcceptRetries ==
  /\ accepting /\ ~Listening /\ main # "exited"
  /\ UNCHANGED vars

AcceptEnds ==
  /\ accepting /\ ~Listening /\ main # "exited"
  /\ accepting' = FALSE
  /\ handler' = [c \in Conns |->
                   IF handler[c] = "dialled" THEN "gone" ELSE handler[c]]
  /\ UNCHANGED <<hubVars, conns, timer, mainVars, requestVars>>

\* The first frame is a Hello that passes the owner and key checks.
HelloValid(c) ==
  /\ Advance(c, "reading", "valid")
  /\ UNCHANGED <<hubVars, conns, timer, mainVars, accepting, requestVars>>

\* A refused Hello, a status query, garbage, or nothing within
\* helloReadTimeout: answered or not, the connection is closed.
FirstFrameEnds(c) ==
  /\ Advance(c, "reading", "gone")
  /\ UNCHANGED <<hubVars, conns, timer, mainVars, accepting, requestVars>>

\* A Shutdown frame: the channel keeps at most one request.
HandleShutdown(c) ==
  /\ Advance(c, "reading", "gone")
  /\ shutdownCh' = TRUE
  /\ UNCHANGED <<hubVars, conns, timer, mainVars, accepting, ctxDone, sourceUp>>

\* Hub.Register, with subreg.Add, under h.mu.  The upstream Subscribe of a
\* first subscriber runs inside it, so the next step may come much later.
HubRegister(c) ==
  /\ Advance(c, "valid", "registered")
  /\ subscribers' = subscribers \union {c}
  /\ refs' = [refs EXCEPT ![KeyOf[c]] = @ + 1]
  /\ UNCHANGED <<conns, timer, mainVars, accepting, requestVars>>

\* Under b.mu: the connection joins b.conns and the timer is stopped and
\* drained.
Track(c) ==
  /\ Advance(c, "registered", "tracked")
  /\ conns' = conns \union {c}
  /\ timer' = "stopped"
  /\ UNCHANGED <<hubVars, mainVars, accepting, requestVars>>

\* The ack is written and the goroutines start; or it fails and bc.Close
\* begins.
Ack(c) ==
  /\ Advance(c, "tracked", "open")
  /\ UNCHANGED <<hubVars, conns, timer, mainVars, accepting, requestVars>>

AckFails(c) ==
  /\ Advance(c, "tracked", "closing")
  /\ UNCHANGED <<hubVars, conns, timer, mainVars, accepting, requestVars>>

\* Bye, EOF, a read error or a failed write of an event.
PeerCloses(c) ==
  /\ Advance(c, "open", "closing")
  /\ UNCHANGED <<hubVars, conns, timer, mainVars, accepting, requestVars>>

-----------------------------------------------------------------------------
\* onClose, run once by whichever goroutine came first to shutdown.

\* A version that forgets subreg.Remove.
UnregisterUncounted(c) ==
  /\ Advance(c, "closing", "unregistered")
  /\ subscribers' = subscribers \ {c}
  /\ UNCHANGED <<refs, conns, timer, mainVars, accepting, requestVars>>

\* hub.Unregister: the map and the count change together under h.mu.  Remove
\* forgives a count that is already zero.
HubUnregister(c) ==
  /\ Advance(c, "closing", "unregistered")
  /\ subscribers' = subscribers \ {c}
  /\ refs' = [refs EXCEPT ![KeyOf[c]] = IF @ = 0 THEN 0 ELSE @ - 1]
  /\ UNCHANGED <<conns, timer, mainVars, accepting, requestVars>>

\* A version that gives up the key again here, unguarded.
UntrackReleases(c) ==
  /\ Running
  /\ handler[c] = "unregistered"
  /\ conns' = conns \ {c}
  /\ refs' = [refs EXCEPT ![KeyOf[c]] = @ - 1]
  /\ handler' = [handler EXCEPT ![c] = IF conns' = {} THEN "resetting" ELSE "gone"]
  /\ UNCHANGED <<subscribers, timer, mainVars, accepting, requestVars>>

\* A version that counts the remaining connections before it leaves.
UntrackCountsBefore(c) ==
  /\ Running
  /\ handler[c] = "unregistered"
  /\ conns' = conns \ {c}
  /\ handler' = [handler EXCEPT ![c] = IF conns = {} THEN "resetting" ELSE "gone"]
  /\ UNCHANGED <<hubVars, timer, mainVars, accepting, requestVars>>

\* Under b.mu: leave b.conns, and note whether it was the last one.
Untrack(c) ==
  /\ Running
  /\ handler[c] = "unregistered"
  /\ conns' = conns \ {c}
  /\ handler' = [handler EXCEPT ![c] = IF conns' = {} THEN "resetting" ELSE "gone"]
  /\ UNCHANGED <<hubVars, timer, mainVars, accepting, requestVars>>

\* A version that skips the reset when the hub has a subscriber again, one
\* that b.conns may not show yet.
ResetUnlessSubscribed(c) ==
  /\ Advance(c, "resetting", "gone")
  /\ timer' = IF subscribers = {} THEN "armed" ELSE timer
  /\ UNCHANGED <<hubVars, conns, mainVars, accepting, requestVars>>

\* resetIdleTimer: b.mu is taken afresh, so connections may have come since.
ResetIdleTimer(c) ==
  /\ Advance(c, "resetting", "gone")
  /\ timer' = "armed"
  /\ UNCHANGED <<hubVars, conns, mainVars, accepting, requestVars>>

-----------------------------------------------------------------------------
\* The timer, the signals and the source.

TimerFires ==
  /\ Running /\ timer = "armed"
  /\ timer' = "fired"
  /\ UNCHANGED <<handler, hubVars, conns, mainVars, accepting, requestVars>>

Cancel ==
  /\ Running /\ ~ctxDone
  /\ ctxDone' = TRUE
  /\ UNCHANGED <<handler, hubVars, conns, timer, mainVars, accepting,
                 shutdownCh, sourceUp>>

\* Source.Run returns: unless the context is done, the bus is to stop.
SourceReturns ==
  /\ Running /\ sourceUp
  /\ sourceUp' = FALSE
  /\ shutdownCh' = (shutdownCh \/ ~ctxDone)
  /\ UNCHANGED <<handler, hubVars, conns, timer, mainVars, accepting, ctxDone>>

-----------------------------------------------------------------------------
\* The main loop of Run.

ReceiveTick ==
  /\ main = "select" /\ timer = "fired"
  /\ main' = "tick" /\ timer' = "stopped"
  /\ UNCHANGED <<handler, hubVars, conns, dropping, dropCur, accepting,
                 requestVars>>

\* A main loop that takes every tick at its word.
TickUnchecked ==
  /\ main = "tick"
  /\ main' = "closing"
  /\ UNCHANGED <<handler, hubVars, conns, timer, dropping, dropCur, accepting,
                 requestVars>>

\* The tick is checked under b.mu: with connections it is stale and the timer
\* starts again.
Tick ==
  /\ main = "tick"
  /\ \/ /\ conns # {}
        /\ main' = "select" /\ timer' = "armed"
     \/ /\ conns = {}
        /\ main' = "closing"
        /\ UNCHANGED timer
  /\ UNCHANGED <<handler, hubVars, conns, dropping, dropCur, accepting,
                 requestVars>>

StopRequested ==
  /\ main = "select"
  /\ \/ ctxDone /\ UNCHANGED shutdownCh
     \/ shutdownCh /\ shutdownCh' = FALSE
  /\ main' = "closing"
  /\ UNCHANGED <<handler, hubVars, conns, timer, dropping, dropCur, accepting,
                 ctxDone, sourceUp>>

CloseListener ==
  /\ main = "closing"
  /\ main' = "snapshot"
  /\ UNCHANGED <<handler, hubVars, conns, timer, dropping, dropCur, accepting,
                 requestVars>>

\* shutdownConns: the snapshot under b.mu, then one Close after the other.
SnapshotConns ==
  /\ main = "snapshot"
  /\ main' = "dropping" /\ dropping' = conns
  /\ UNCHANGED <<handler, hubVars, conns, timer, dropCur, accepting, requestVars>>

\* c.Close(): the first to come closes, any other waits for it.
DropBegins(c) ==
  /\ main = "dropping" /\ dropCur = NoConn /\ c \in dropping
  /\ dropCur' = c
  /\ handler' = [handler EXCEPT ![c] = IF @ \in {"tracked", "open"}
                                        THEN "closing" ELSE @]
  /\ UNCHANGED <<hubVars, conns, timer, main, dropping, accepting, requestVars>>

DropEnds ==
  /\ main = "dropping" /\ dropCur # NoConn /\ handler[dropCur] = "gone"
  /\ dropping' = dropping \ {dropCur}
  /\ dropCur' = NoConn
  /\ UNCHANGED <<handler, hubVars, conns, timer, main, accepting, requestVars>>

AllDropped ==
  /\ main = "dropping" /\ dropping = {}
  /\ main' = "waitAccept"
  /\ UNCHANGED <<handler, hubVars, conns, timer, dropping, dropCur, accepting,
                 requestVars>>

Return ==
  /\ main = "waitAccept" /\ ~accepting
  /\ main' = "returned"
  /\ UNCHANGED <<handler, hubVars, conns, timer, dropping, dropCur, accepting,
                 requestVars>>

\* The process ends, and with it every connection left.
Exit ==
  /\ main = "returned"
  /\ main' = "exited"
  /\ UNCHANGED <<handler, hubVars, conns, timer, dropping, dropCur, accepting,
                 requestVars>>

-----------------------------------------------------------------------------
\* The steps every scheduler takes sooner or later; the others need a peer.
Closing(c) == HubUnregister(c) \/ Untrack(c) \/ ResetIdleTimer(c)

Handling(c) ==
  \/ Accept(c) \/ HelloValid(c) \/ FirstFrameEnds(c) \/ HandleShutdown(c)
  \/ HubRegister(c) \/ Track(c) \/ Ack(c) \/ AckFails(c)

MainLoop ==
  \/ ReceiveTick \/ Tick \/ StopRequested \/ CloseListener \/ SnapshotConns
  \/ \E c \in Conns : DropBegins(c)
  \/ DropEnds \/ AllDropped \/ Return \/ Exit

Next ==
  \/ MainLoop \/ AcceptEnds \/ TimerFires \/ Cancel \/ SourceReturns
  \/ \E c \in Conns : Dial(c) \/ Handling(c) \/ PeerCloses(c) \/ Closing(c)

\* Goroutines that can run do run, the timer's duration passes, and a handler
\* waits for its first frame at most helloReadTimeout.  The select of the main
\* loop picks among the ready cases at random, so a waiting request is not
\* passed over for ever in favour of ticks.  Nothing makes a peer dial or
\* leave, cancels the context or ends the source.
Fairness ==
  /\ WF_vars(MainLoop) /\ SF_vars(StopRequested)
  /\ WF_vars(AcceptEnds) /\ WF_vars(TimerFires)
  /\ \A c \in Conns : WF_vars(Handling(c)) /\ WF_vars(Closing(c))

Spec == Init /\ [][Next]_vars /\ Fairness

-----------------------------------------------------------------------------
TypeOK ==
  /\ handler \in [Conns -> HandlerPhases]
  /\ subscribers \subseteq Conns
  /\ refs \in [Keys -> Nat]
  /\ conns \subseteq Conns
  /\ timer \in {"stopped", "armed", "fired"}
  /\ main \in MainPhases
  /\ dropping \subseteq Conns /\ dropCur \in Conns \union {NoConn}
  /\ accepting \in BOOLEAN /\ shutdownCh \in BOOLEAN
  /\ ctxDone \in BOOLEAN /\ sourceUp \in BOOLEAN

\* The reference counts that decide whether the upstream is asked to
\* subscribe agree with the subscribers (subreg.go keeps them apart from the
\* subscriber map): otherwise a first subscriber would go unnoticed.
SubregMatchesHub ==
  \A k \in Keys : refs[k] = Cardinality({c \in subscribers : KeyOf[c] = k})

\* While the main loop waits and no connection is tracked, the idle timer
\* runs, its tick waits, or the goroutine that removed the last connection is
\* about to start it: a bus without consumers cannot be forgotten, whatever
\* the order of the stops, drains and resets (handlers.go).
IdleTimerGuards ==
  main = "select" /\ conns = {} =>
    timer # "stopped" \/ \E c \in Conns : handler[c] = "resetting"

\* An idle shutdown never takes a consumer that was acknowledged: a stale
\* tick is recognised (bus.go, the check against len(b.conns)).
IdleExitSparesOpen ==
  [][main = "tick" /\ main' = "closing" =>
       \A c \in Conns : handler[c] # "open"]_vars

\* handlers.go says that registering "can't race" an idle-timer fire: then an
\* idle shutdown would find no subscriber in the hub.
IdleExitFindsNoSubscriber ==
  [][main = "tick" /\ main' = "closing" => subscribers = {}]_vars

Unserved == \A c \in Conns : handler[c] \in {"absent", "gone"}

\* A bus whose consumers have left for good exits.
IdleBusExits == <>[]Unserved => <>(main = "exited")

\* A shutdown request, the end of the source and a cancelled context end the
\* process, whatever the peers do: shutdownConns cannot wait for ever for a
\* connection that closes itself or is still in its handshake.
ShutdownTerminates == shutdownCh \/ ctxDone ~> main = "exited"
=============================================================================
