----------------------------- MODULE ServerProofs -----------------------------
(***************************************************************************)
(* Theorems about BusServer, for any finite set of connections.  The       *)
(* inductive invariant adds to the properties that the two sets of         *)
(* connections the code keeps are functions of how far each handler is.    *)
(***************************************************************************)
EXTENDS BusServer, FiniteSetTheorems, TLAPS

\* Membership in the hub and in b.conns follows the handler's progress.
PhasesMatchSets ==
  \A c \in Conns :
    /\ c \in subscribers
         <=> handler[c] \in {"registered", "tracked", "open", "closing"}
    /\ c \in conns
         <=> handler[c] \in {"tracked", "open", "closing", "unregistered"}

\* What the steps that leave the hub alone have to preserve.
ControlInv == TypeOK /\ PhasesMatchSets /\ IdleTimerGuards

ServerInv == ControlInv /\ SubregMatchesHub

SubscribersOf(k) == {c \in subscribers : KeyOf[c] = k}

-----------------------------------------------------------------------------
\* The subscribers of a key are finitely many, so their number is a natural.
LEMMA SubscribersFinite ==
  ASSUME TypeOK, NEW k
  PROVE  /\ IsFiniteSet(SubscribersOf(k))
         /\ Cardinality(SubscribersOf(k)) \in Nat
<1>1. SubscribersOf(k) \subseteq Conns
  BY DEF TypeOK, SubscribersOf
<1>2. IsFiniteSet(SubscribersOf(k))
  BY <1>1, BusServerAssumption, FS_Subset
<1> QED
  BY <1>2, FS_CardinalityType

\* A step that leaves subscribers and counts alone keeps them in agreement.
LEMMA HubUnchanged ==
  ASSUME SubregMatchesHub, UNCHANGED hubVars
  PROVE  SubregMatchesHub'
BY DEF SubregMatchesHub, hubVars

\* What a goroutine of a connection does outside the hub's lock.
LEMMA HandlingKeepsControl ==
  ASSUME ControlInv, NEW c \in Conns,
         \/ Dial(c) \/ Accept(c) \/ HelloValid(c) \/ FirstFrameEnds(c)
         \/ HandleShutdown(c) \/ Track(c) \/ Ack(c) \/ AckFails(c)
         \/ PeerCloses(c) \/ Untrack(c) \/ ResetIdleTimer(c)
  PROVE  ControlInv' /\ UNCHANGED hubVars
<1> USE DEF ControlInv, TypeOK, PhasesMatchSets, IdleTimerGuards, HandlerPhases,
            MainPhases, hubVars, mainVars, requestVars
<1>1. CASE Dial(c) \/ Accept(c)
  BY <1>1 DEF Dial, Accept, Advance
<1>2. CASE HelloValid(c) \/ FirstFrameEnds(c)
  BY <1>2 DEF HelloValid, FirstFrameEnds, Advance
<1>3. CASE HandleShutdown(c)
  BY <1>3 DEF HandleShutdown, Advance
<1>4. CASE Track(c)
  BY <1>4 DEF Track, Advance
<1>5. CASE Ack(c) \/ AckFails(c) \/ PeerCloses(c)
  BY <1>5 DEF Ack, AckFails, PeerCloses, Advance
<1>6. CASE Untrack(c)
  BY <1>6 DEF Untrack
<1>7. CASE ResetIdleTimer(c)
  BY <1>7 DEF ResetIdleTimer, Advance
<1> QED
  BY <1>1, <1>2, <1>3, <1>4, <1>5, <1>6, <1>7

\* The main loop, the accept loop, the timer and the requests to stop.
LEMMA MainKeepsControl ==
  ASSUME ControlInv,
         MainLoop \/ AcceptEnds \/ TimerFires \/ Cancel \/ SourceReturns
  PROVE  ControlInv' /\ UNCHANGED hubVars
<1> USE DEF ControlInv, TypeOK, PhasesMatchSets, IdleTimerGuards, HandlerPhases,
            MainPhases, hubVars, mainVars, requestVars
<1>1. CASE ReceiveTick \/ Tick
  BY <1>1 DEF ReceiveTick, Tick
<1>2. CASE StopRequested \/ CloseListener \/ SnapshotConns
  BY <1>2 DEF StopRequested, CloseListener, SnapshotConns
<1>3. ASSUME NEW c \in Conns, DropBegins(c)
      PROVE  ControlInv' /\ UNCHANGED hubVars
  BY <1>3 DEF DropBegins
<1>4. CASE DropEnds \/ AllDropped \/ Return \/ Exit
  BY <1>4 DEF DropEnds, AllDropped, Return, Exit
<1>5. CASE AcceptEnds
  BY <1>5 DEF AcceptEnds
<1>6. CASE TimerFires \/ Cancel \/ SourceReturns
  BY <1>6 DEF TimerFires, Cancel, SourceReturns
<1> QED
  BY <1>1, <1>2, <1>3, <1>4, <1>5, <1>6 DEF MainLoop

-----------------------------------------------------------------------------
\* Registering: the consumer was not in the hub, so its key gains one.
LEMMA RegisterKeepsInv ==
  ASSUME ServerInv, NEW c \in Conns, HubRegister(c)
  PROVE  ServerInv'
<1> USE BusServerAssumption
<1>1. c \notin subscribers /\ KeyOf[c] \in Keys
  BY DEF ServerInv, ControlInv, PhasesMatchSets, HubRegister, Advance
<1>2. refs' = [refs EXCEPT ![KeyOf[c]] = @ + 1] /\ subscribers' = subscribers \union {c}
  BY DEF HubRegister
<1>3. ASSUME NEW k \in Keys
      PROVE  refs'[k] = Cardinality({d \in subscribers' : KeyOf[d] = k})
  <2>1. refs[k] = Cardinality(SubscribersOf(k)) /\ refs[k] \in Nat
    BY DEF ServerInv, ControlInv, SubregMatchesHub, SubscribersOf, TypeOK
  <2>2. IsFiniteSet(SubscribersOf(k))
    BY SubscribersFinite DEF ServerInv, ControlInv
  <2>3. CASE k = KeyOf[c]
    <3>1. {d \in subscribers' : KeyOf[d] = k} = SubscribersOf(k) \union {c}
      BY <1>2, <2>3 DEF SubscribersOf
    <3>2. c \notin SubscribersOf(k)
      BY <1>1 DEF SubscribersOf
    <3>3. Cardinality(SubscribersOf(k) \union {c}) = Cardinality(SubscribersOf(k)) + 1
      BY <2>2, <3>2, FS_AddElement
    <3>4. refs'[k] = refs[k] + 1
      BY <1>2, <2>3 DEF ServerInv, ControlInv, TypeOK
    <3> QED
      BY <2>1, <3>1, <3>3, <3>4
  <2>4. CASE k # KeyOf[c]
    <3>1. {d \in subscribers' : KeyOf[d] = k} = SubscribersOf(k)
      BY <1>2, <2>4 DEF SubscribersOf
    <3>2. refs'[k] = refs[k]
      BY <1>2, <2>4 DEF ServerInv, ControlInv, TypeOK
    <3> QED
      BY <2>1, <3>1, <3>2
  <2> QED
    BY <2>3, <2>4
<1>4. SubregMatchesHub'
  BY <1>3 DEF SubregMatchesHub
<1>5. refs' \in [Keys -> Nat]
  BY <1>1, <1>2 DEF ServerInv, ControlInv, TypeOK
<1>6. ControlInv'
  BY <1>5 DEF ServerInv, ControlInv, TypeOK, PhasesMatchSets, IdleTimerGuards,
              HandlerPhases, MainPhases, HubRegister, Advance, mainVars, requestVars
<1> QED
  BY <1>4, <1>6 DEF ServerInv

\* Unregistering: the consumer was in the hub, so its key had one to lose.
LEMMA UnregisterKeepsInv ==
  ASSUME ServerInv, NEW c \in Conns, HubUnregister(c)
  PROVE  ServerInv'
<1> USE BusServerAssumption
<1>1. c \in subscribers /\ KeyOf[c] \in Keys
  BY DEF ServerInv, ControlInv, PhasesMatchSets, HubUnregister, Advance
<1>2. /\ refs' = [refs EXCEPT ![KeyOf[c]] = IF @ = 0 THEN 0 ELSE @ - 1]
      /\ subscribers' = subscribers \ {c}
  BY DEF HubUnregister
<1>3. ASSUME NEW k \in Keys
      PROVE  /\ refs'[k] = Cardinality({d \in subscribers' : KeyOf[d] = k})
             /\ refs'[k] \in Nat
  <2>1. refs[k] = Cardinality(SubscribersOf(k)) /\ refs[k] \in Nat
    BY DEF ServerInv, ControlInv, SubregMatchesHub, SubscribersOf, TypeOK
  <2>2. IsFiniteSet(SubscribersOf(k))
    BY SubscribersFinite DEF ServerInv, ControlInv
  <2>3. CASE k = KeyOf[c]
    <3>1. {d \in subscribers' : KeyOf[d] = k} = SubscribersOf(k) \ {c}
      BY <1>2, <2>3 DEF SubscribersOf
    <3>2. c \in SubscribersOf(k)
      BY <1>1, <2>3 DEF SubscribersOf
    <3>3. /\ IsFiniteSet(SubscribersOf(k) \ {c})
          /\ Cardinality(SubscribersOf(k) \ {c}) = Cardinality(SubscribersOf(k)) - 1
      BY <2>2, <3>2, FS_RemoveElement
    <3>4. Cardinality(SubscribersOf(k) \ {c}) \in Nat
      BY <3>3, FS_CardinalityType
    <3>5. refs[k] # 0
      BY <2>1, <3>3, <3>4
    <3>6. refs'[k] = refs[k] - 1
      BY <1>2, <2>3, <3>5 DEF ServerInv, ControlInv, TypeOK
    <3> QED
      BY <2>1, <3>1, <3>3, <3>4, <3>6
  <2>4. CASE k # KeyOf[c]
    <3>1. {d \in subscribers' : KeyOf[d] = k} = SubscribersOf(k)
      BY <1>2, <2>4 DEF SubscribersOf
    <3>2. refs'[k] = refs[k]
      BY <1>2, <2>4 DEF ServerInv, ControlInv, TypeOK
    <3> QED
      BY <2>1, <3>1, <3>2
  <2> QED
    BY <2>3, <2>4
<1>4. SubregMatchesHub'
  BY <1>3 DEF SubregMatchesHub
<1>5. refs' \in [Keys -> Nat]
  BY <1>1, <1>2, <1>3 DEF ServerInv, ControlInv, TypeOK
<1>6. ControlInv'
  BY <1>5 DEF ServerInv, ControlInv, TypeOK, PhasesMatchSets, IdleTimerGuards,
              HandlerPhases, MainPhases, HubUnregister, Advance, mainVars, requestVars
<1> QED
  BY <1>4, <1>6 DEF ServerInv

-----------------------------------------------------------------------------
LEMMA InitEstablishesInv == Init => ServerInv
<1> SUFFICES ASSUME Init PROVE ServerInv
  OBVIOUS
<1>1. ControlInv
  BY BusServerAssumption DEF Init, ControlInv, TypeOK, PhasesMatchSets,
     IdleTimerGuards, HandlerPhases, MainPhases
<1>2. SubregMatchesHub
  <2>1. \A k \in Keys : {c \in subscribers : KeyOf[c] = k} = {}
    BY DEF Init
  <2> QED
    BY <2>1, FS_EmptySet DEF Init, SubregMatchesHub
<1> QED
  BY <1>1, <1>2 DEF ServerInv

LEMMA StepKeepsInv == ServerInv /\ [Next]_vars => ServerInv'
<1> SUFFICES ASSUME ServerInv, [Next]_vars PROVE ServerInv'
  OBVIOUS
<1>1. CASE MainLoop \/ AcceptEnds \/ TimerFires \/ Cancel \/ SourceReturns
  BY <1>1, MainKeepsControl, HubUnchanged DEF ServerInv
<1>2. ASSUME NEW c \in Conns,
             Dial(c) \/ Handling(c) \/ PeerCloses(c) \/ Closing(c)
      PROVE  ServerInv'
  <2>1. CASE HubRegister(c)
    BY <2>1, RegisterKeepsInv
  <2>2. CASE HubUnregister(c)
    BY <2>2, UnregisterKeepsInv
  <2>3. CASE \/ Dial(c) \/ Accept(c) \/ HelloValid(c) \/ FirstFrameEnds(c)
             \/ HandleShutdown(c) \/ Track(c) \/ Ack(c) \/ AckFails(c)
             \/ PeerCloses(c) \/ Untrack(c) \/ ResetIdleTimer(c)
    BY <2>3, HandlingKeepsControl, HubUnchanged DEF ServerInv
  <2> QED
    BY <1>2, <2>1, <2>2, <2>3 DEF Handling, Closing
<1>3. CASE UNCHANGED vars
  BY <1>3 DEF vars, hubVars, mainVars, requestVars, ServerInv, ControlInv, TypeOK,
              PhasesMatchSets, IdleTimerGuards, SubregMatchesHub
<1> QED
  BY <1>1, <1>2, <1>3 DEF Next

\* The variables keep their types, in particular no reference count goes
\* negative (subreg.go, Remove).
THEOREM TypeInvariant == Spec => []TypeOK
<1>1. ServerInv => TypeOK
  BY DEF ServerInv, ControlInv
<1> QED
  BY <1>1, InitEstablishesInv, StepKeepsInv, PTL DEF Spec

\* The reference counts of the keys agree with the subscribers of the hub.
THEOREM CountsAgree == Spec => []SubregMatchesHub
<1>1. ServerInv => SubregMatchesHub
  BY DEF ServerInv
<1> QED
  BY <1>1, InitEstablishesInv, StepKeepsInv, PTL DEF Spec

\* A bus without tracked connections is never left without its idle timer.
THEOREM TimerNeverForgotten == Spec => []IdleTimerGuards
<1>1. ServerInv => IdleTimerGuards
  BY DEF ServerInv, ControlInv
<1> QED
  BY <1>1, InitEstablishesInv, StepKeepsInv, PTL DEF Spec

\* An idle shutdown never takes an acknowledged consumer.
THEOREM IdleExitIsSafe == Spec => IdleExitSparesOpen
<1>1. ASSUME ServerInv, [Next]_vars, main = "tick", main' = "closing"
      PROVE  \A c \in Conns : handler[c] # "open"
  <2>1. conns = {}
    BY <1>1 DEF Next, vars, MainLoop, AcceptEnds, TimerFires, Cancel, SourceReturns,
       ReceiveTick, Tick, StopRequested, CloseListener, SnapshotConns, DropBegins,
       DropEnds, AllDropped, Return, Exit, mainVars, Dial, Handling, Accept,
       HelloValid, FirstFrameEnds, HandleShutdown, HubRegister, Track, Ack, AckFails,
       PeerCloses, Closing, HubUnregister, Untrack, ResetIdleTimer
  <2> QED
    BY <1>1, <2>1 DEF ServerInv, ControlInv, PhasesMatchSets
<1>2. ServerInv /\ [Next]_vars =>
        [main = "tick" /\ main' = "closing" =>
           \A c \in Conns : handler[c] # "open"]_vars
  BY <1>1
<1> QED
  BY <1>2, InitEstablishesInv, StepKeepsInv, PTL DEF Spec, IdleExitSparesOpen

-----------------------------------------------------------------------------
\* The stages of Run from its decision to stop to the exit of the process.
Stages == {"closing", "snapshot", "dropping", "waitAccept", "returned", "exited"}

\* How far a connection that is being dropped has come.
Dropped == {"closing", "unregistered", "resetting", "gone"}

\* What shutdownConns works on while it runs, and only then.
DropInv ==
  /\ main # "dropping" => dropping = {} /\ dropCur = NoConn
  /\ \A c \in dropping : handler[c] \in Dropped \union {"tracked", "open"}
  /\ dropCur # NoConn => dropCur \in dropping /\ handler[dropCur] \in Dropped
  /\ Listening => accepting

\* What the theorems about the end of the bus rest on.
StopInv == ServerInv /\ DropInv

\* How many stages are left.
StageLeft ==
  IF main = "closing" THEN 5 ELSE IF main = "snapshot" THEN 4
  ELSE IF main = "dropping" THEN 3 ELSE IF main = "waitAccept" THEN 2
  ELSE IF main = "returned" THEN 1 ELSE 0

\* What is done of the connection in hand, of at most five steps.
DropTaken ==
  IF dropCur = NoConn THEN 0 ELSE IF handler[dropCur] = "closing" THEN 1
  ELSE IF handler[dropCur] = "unregistered" THEN 2
  ELSE IF handler[dropCur] = "resetting" THEN 3 ELSE 4

\* What is left of the steps that close the connections.
DropsLeft == 5 * Cardinality(dropping) - DropTaken

\* The guards of the steps that end the bus and need no peer.
StopCanStep ==
  \/ main \in {"closing", "snapshot", "returned"}
  \/ main = "dropping" /\ dropCur = NoConn
  \/ main = "dropping" /\ dropCur # NoConn /\ handler[dropCur] \in Dropped
  \/ main = "waitAccept" /\ (~accepting \/ ~Listening)

\* A bus that has begun to stop has a step that no peer has to allow.
StopNeverWaits ==
  main \in Stages \ {"exited"} => StopCanStep /\ DropsLeft \in Nat

\* Each step on the way out is one less; nothing else adds one; and what made the
\* main goroutine stop is not forgotten before it has seen it.
StopAdvances ==
  /\ main \in {"select", "tick"} /\ (shutdownCh \/ ctxDone) =>
       shutdownCh' \/ ctxDone' \/ main' = "closing"
  /\ main \in Stages =>
       /\ MainLoop => \/ StageLeft' < StageLeft
                      \/ StageLeft' = StageLeft /\ DropsLeft' < DropsLeft
       /\ (\E c \in Conns : c = dropCur /\ Closing(c)) => main' = main /\ DropsLeft' < DropsLeft
       /\ ~MainLoop => main' = main /\ DropsLeft' <= DropsLeft
  /\ accepting' => accepting

\* The steps of a bus that serves nobody: the timer, its tick, the decision.
IdleLeft ==
  IF main = "tick" THEN 1 ELSE IF timer = "fired" THEN 2 ELSE 3

\* A bus that serves nobody has its idle timer running or fired.
IdleNeverWaits ==
  Unserved /\ main \in {"select", "tick"} =>
    main = "tick" \/ timer \in {"armed", "fired"}

\* Each of those steps leads to the end, until somebody dials.
IdleAdvances ==
  main \in {"select", "tick"} /\ Unserved =>
    /\ ReceiveTick \/ Tick \/ (main = "select" /\ TimerFires) => main' = "closing" \/ IdleLeft' < IdleLeft
    /\ Unserved' => main' = "closing" \/ IdleLeft' <= IdleLeft

\* shutdownConns drops finitely many connections.
LEMMA DroppingIsFinite ==
  ASSUME TypeOK
  PROVE  IsFiniteSet(dropping) /\ Cardinality(dropping) \in Nat
<1>1. IsFiniteSet(dropping)
  BY BusServerAssumption, FS_Subset DEF TypeOK
<1> QED
  BY <1>1, FS_CardinalityType

\* At the start nothing is being dropped.
LEMMA InitDrop == Init => DropInv
BY BusServerAssumption DEF Init, DropInv, Listening

\* A goroutine of a connection never brings one that is being dropped back.
LEMMA HandlingKeepsDrop ==
  ASSUME ServerInv, DropInv, NEW c \in Conns,
         Dial(c) \/ Handling(c) \/ PeerCloses(c) \/ Closing(c)
  PROVE  DropInv' /\ UNCHANGED <<main, dropping, dropCur, accepting>>
<1> USE DEF DropInv, Dropped, mainVars, requestVars, Listening
<1>0. handler \in [Conns -> HandlerPhases] /\ dropping \subseteq Conns
  BY DEF ServerInv, ControlInv, TypeOK
<1>1. CASE Dial(c) \/ Accept(c) \/ HelloValid(c)
  BY <1>0, <1>1 DEF Dial, Accept, HelloValid, Advance
<1>2. CASE FirstFrameEnds(c) \/ HandleShutdown(c)
  BY <1>0, <1>2 DEF FirstFrameEnds, HandleShutdown, Advance
<1>3. CASE HubRegister(c) \/ Track(c)
  BY <1>0, <1>3 DEF HubRegister, Track, Advance
<1>4. CASE Ack(c) \/ AckFails(c) \/ PeerCloses(c)
  BY <1>0, <1>4 DEF Ack, AckFails, PeerCloses, Advance
<1>5. CASE HubUnregister(c)
  BY <1>0, <1>5 DEF HubUnregister, Advance
<1>6. CASE Untrack(c)
  BY <1>0, <1>6 DEF Untrack
<1>7. CASE ResetIdleTimer(c)
  BY <1>0, <1>7 DEF ResetIdleTimer, Advance
<1> QED
  BY <1>1, <1>2, <1>3, <1>4, <1>5, <1>6, <1>7 DEF Handling, Closing

\* The main goroutine, the accept loop, the timer and the requests to stop.
LEMMA MainKeepsDrop ==
  ASSUME ServerInv, DropInv,
         MainLoop \/ AcceptEnds \/ TimerFires \/ Cancel \/ SourceReturns
  PROVE  DropInv'
<1> USE DEF DropInv, Dropped, mainVars, requestVars, Listening
<1>0. /\ handler \in [Conns -> HandlerPhases] /\ dropping \subseteq Conns
      /\ NoConn \notin Conns
  BY BusServerAssumption DEF ServerInv, ControlInv, TypeOK
<1>1. CASE ReceiveTick \/ Tick
  BY <1>1 DEF ReceiveTick, Tick
<1>2. CASE StopRequested \/ CloseListener
  BY <1>2 DEF StopRequested, CloseListener
<1>3. CASE SnapshotConns
  <2>1. \A c \in conns : handler[c] \in Dropped \union {"tracked", "open"}
    BY DEF ServerInv, ControlInv, PhasesMatchSets, TypeOK
  <2> QED
    BY <1>3, <2>1 DEF SnapshotConns
<1>4. ASSUME NEW c \in Conns, DropBegins(c)
      PROVE  DropInv'
  BY <1>0, <1>4 DEF DropBegins
<1>5. CASE DropEnds
  BY <1>5 DEF DropEnds
<1>6. CASE AllDropped \/ Return \/ Exit
  BY <1>6 DEF AllDropped, Return, Exit
<1>7. CASE AcceptEnds
  <2>1. \A c \in dropping : c \in Conns /\ handler[c] # "dialled"
    BY <1>0
  <2>2. dropCur # NoConn => handler[dropCur] # "dialled" /\ dropCur \in Conns
    BY <1>0
  <2> QED
    BY <1>7, <2>1, <2>2 DEF AcceptEnds
<1>8. CASE TimerFires \/ Cancel \/ SourceReturns
  BY <1>8 DEF TimerFires, Cancel, SourceReturns
<1> QED
  BY <1>1, <1>2, <1>3, <1>4, <1>5, <1>6, <1>7, <1>8 DEF MainLoop

\* What shutdownConns still has to drop is registered or already on its way out, the
\* connection it is in is being closed, and the accept loop is there as long as the
\* listener is open.
THEOREM StopInvariant == Spec => []StopInv
<1>1. Init => StopInv
  BY InitEstablishesInv, InitDrop DEF StopInv
<1>2. StopInv /\ [Next]_vars => StopInv'
  <2> SUFFICES ASSUME StopInv, [Next]_vars
               PROVE  DropInv'
    BY StepKeepsInv DEF StopInv
  <2>1. CASE UNCHANGED vars
    BY <2>1 DEF StopInv, vars, DropInv, Listening
  <2> QED
    BY <2>1, HandlingKeepsDrop, MainKeepsDrop DEF StopInv, Next
<1> QED
  BY <1>1, <1>2, PTL DEF Spec

\* A bus that has begun to stop (the end of Bus.Run and shutdownConns)
\* waits for none of its peers: whatever the connections do or fail to do, one of the
\* steps left to the main goroutine, the accept loop or the Close of the connection in
\* hand can be taken, and those steps are finitely many.
THEOREM StopWaitsForNoPeer == Spec => []StopNeverWaits
<1>1. StopInv => StopNeverWaits
  <2> SUFFICES ASSUME StopInv, main \in Stages \ {"exited"}
               PROVE  StopCanStep /\ DropsLeft \in Nat
    BY DEF StopNeverWaits
  <2>1. TypeOK /\ DropInv
    BY DEF StopInv, ServerInv, ControlInv
  <2>2. IsFiniteSet(dropping) /\ Cardinality(dropping) \in Nat
    BY <2>1, DroppingIsFinite
  <2>3. dropCur # NoConn => Cardinality(dropping) >= 1
    <3>1. dropCur # NoConn => dropping # {}
      BY <2>1 DEF DropInv
    <3> QED
      BY <2>2, <3>1, FS_EmptySet
  <2>4. DropsLeft \in Nat
    BY <2>2, <2>3 DEF DropsLeft, DropTaken
  <2> QED
    BY <2>1, <2>4 DEF DropInv, StopCanStep, Stages, Listening
<1> QED
  BY <1>1, StopInvariant, PTL

\* One step of the main goroutine once it has decided to stop.
LEMMA MainStepAdvances ==
  ASSUME StopInv, main \in Stages, MainLoop
  PROVE  StageLeft' < StageLeft \/ (StageLeft' = StageLeft /\ DropsLeft' < DropsLeft)
<1>0. /\ TypeOK /\ DropInv /\ NoConn \notin Conns
  BY BusServerAssumption DEF StopInv, ServerInv, ControlInv
<1>1. CASE ReceiveTick \/ Tick \/ StopRequested
  BY <1>1 DEF ReceiveTick, Tick, StopRequested, Stages
<1>2. CASE CloseListener \/ SnapshotConns \/ AllDropped \/ Return \/ Exit
  BY <1>2 DEF CloseListener, SnapshotConns, AllDropped, Return, Exit, StageLeft
<1>3. IsFiniteSet(dropping) /\ Cardinality(dropping) \in Nat
  BY <1>0, DroppingIsFinite
<1>4. ASSUME NEW c \in Conns, DropBegins(c)
      PROVE  StageLeft' = StageLeft /\ DropsLeft' < DropsLeft
  <2>1. /\ main' = main /\ dropping' = dropping /\ dropCur = NoConn /\ dropCur' # NoConn
    BY <1>0, <1>4 DEF DropBegins
  <2>2. DropTaken = 0 /\ DropTaken' \in 1..4
    BY <2>1 DEF DropTaken
  <2> QED
    BY <1>3, <2>1, <2>2 DEF StageLeft, DropsLeft
<1>5. CASE DropEnds
  <2>1. /\ main' = main /\ dropping' = dropping \ {dropCur} /\ dropCur' = NoConn
        /\ dropCur \in dropping
    BY <1>0, <1>5 DEF DropEnds, DropInv
  <2>2. Cardinality(dropping') = Cardinality(dropping) - 1
    BY <1>3, <2>1, FS_RemoveElement
  <2>3. DropTaken' = 0 /\ DropTaken \in 0..4
    BY <2>1 DEF DropTaken
  <2> QED
    BY <1>3, <2>1, <2>2, <2>3 DEF StageLeft, DropsLeft
<1> QED
  BY <1>1, <1>2, <1>4, <1>5 DEF MainLoop

\* A goroutine of another connection leaves the one in hand alone; its own
\* only bring it closer to its end.
LEMMA HandlingAdvances ==
  ASSUME StopInv, NEW c \in Conns,
         Dial(c) \/ Handling(c) \/ PeerCloses(c) \/ Closing(c)
  PROVE  /\ UNCHANGED <<main, dropping, dropCur, accepting>>
         /\ DropsLeft' <= DropsLeft
         /\ c = dropCur /\ Closing(c) => DropsLeft' < DropsLeft
<1>0. /\ TypeOK /\ DropInv /\ NoConn \notin Conns
  BY BusServerAssumption DEF StopInv, ServerInv, ControlInv
<1>1. UNCHANGED <<main, dropping, dropCur, accepting>>
  BY HandlingKeepsDrop DEF StopInv
<1>2. IsFiniteSet(dropping) /\ Cardinality(dropping) \in Nat
  BY <1>0, DroppingIsFinite
<1>3. c # dropCur => DropTaken' = DropTaken
  <2>1. c # dropCur /\ dropCur # NoConn => handler'[dropCur] = handler[dropCur]
    BY <1>0 DEF TypeOK, Dial, Handling, Accept, HelloValid, FirstFrameEnds, HandleShutdown,
       HubRegister, Track, Ack, AckFails, PeerCloses, Closing, HubUnregister, Untrack,
       ResetIdleTimer, Advance
  <2> QED
    BY <1>1, <2>1 DEF DropTaken
<1>4. c = dropCur => Closing(c) /\ DropTaken' > DropTaken
  <2> SUFFICES ASSUME c = dropCur
               PROVE  Closing(c) /\ DropTaken' > DropTaken
    OBVIOUS
  <2>1. dropCur # NoConn /\ dropCur' = dropCur /\ handler[c] \in Dropped
    BY <1>0, <1>1 DEF DropInv
  <2>2. handler \in [Conns -> HandlerPhases]
    BY <1>0 DEF TypeOK
  <2>3. Closing(c)
    BY <2>1 DEF Dropped, Dial, Handling, Accept, HelloValid, FirstFrameEnds, HandleShutdown,
       HubRegister, Track, Ack, AckFails, PeerCloses, Advance
  <2>4. \/ handler[c] = "closing" /\ handler'[c] = "unregistered"
        \/ handler[c] = "unregistered" /\ handler'[c] \in {"resetting", "gone"}
        \/ handler[c] = "resetting" /\ handler'[c] = "gone"
    BY <2>2, <2>3 DEF Closing, HubUnregister, Untrack, ResetIdleTimer, Advance
  <2> QED
    BY <2>1, <2>3, <2>4 DEF DropTaken
<1>5. DropTaken \in 0..4 /\ DropTaken' \in 0..4
  BY DEF DropTaken
<1> QED
  BY <1>1, <1>2, <1>3, <1>4, <1>5 DEF DropsLeft

\* What neither the main goroutine nor a connection does.
LEMMA OthersKeepDrop ==
  ASSUME StopInv, AcceptEnds \/ TimerFires \/ Cancel \/ SourceReturns
  PROVE  /\ UNCHANGED <<main, dropping, dropCur>> /\ DropsLeft' = DropsLeft
         /\ accepting' => accepting
<1>0. /\ TypeOK /\ DropInv
  BY DEF StopInv, ServerInv, ControlInv
<1>1. UNCHANGED <<main, dropping, dropCur>> /\ (accepting' => accepting)
  BY DEF AcceptEnds, TimerFires, Cancel, SourceReturns, mainVars
<1>2. dropCur # NoConn => handler'[dropCur] = handler[dropCur]
  BY <1>0 DEF DropInv, Dropped, TypeOK, AcceptEnds, TimerFires, Cancel, SourceReturns
<1> QED
  BY <1>1, <1>2 DEF DropsLeft, DropTaken

\* A stop that was requested stays requested until the main goroutine has seen it; from
\* there each of its steps, and each step of the Close in hand, leaves fewer of the
\* steps that StopWaitsForNoPeer counts, and no peer that dials, says hello or hangs up
\* adds one: with weak fairness of these goroutines the bus exits (ShutdownTerminates).
THEOREM StopMovesOn == Spec => [][StopAdvances]_vars
<1>1. StopInv /\ [Next]_vars => [StopAdvances]_vars
  <2> SUFFICES ASSUME StopInv, Next
               PROVE  StopAdvances
    OBVIOUS
  <2>1. /\ main \in {"select", "tick"} /\ (shutdownCh \/ ctxDone)
        => shutdownCh' \/ ctxDone' \/ main' = "closing"
    BY DEF Next, MainLoop, AcceptEnds, TimerFires, Cancel, SourceReturns,
       ReceiveTick, Tick, StopRequested, CloseListener, SnapshotConns, DropBegins,
       DropEnds, AllDropped, Return, Exit, Dial, Handling, Accept,
       HelloValid, FirstFrameEnds, HandleShutdown, HubRegister, Track, Ack, AckFails,
       PeerCloses, Closing, HubUnregister, Untrack, ResetIdleTimer, requestVars
  <2>2. accepting' => accepting
    <3>1. CASE MainLoop
      BY <3>1 DEF MainLoop, ReceiveTick, Tick, StopRequested, CloseListener,
         SnapshotConns, DropBegins, DropEnds, AllDropped, Return, Exit
    <3> QED
      BY <3>1, OthersKeepDrop, HandlingAdvances DEF Next
  <2>3. DropsLeft \in Int
    <3>1. Cardinality(dropping) \in Nat
      BY DroppingIsFinite DEF StopInv, ServerInv, ControlInv
    <3> QED
      BY <3>1 DEF DropsLeft, DropTaken
  <2>4. ASSUME ~MainLoop
        PROVE  main' = main /\ DropsLeft' <= DropsLeft
    BY <2>3, <2>4, OthersKeepDrop, HandlingAdvances DEF Next
  <2>5. ASSUME NEW c \in Conns, c = dropCur, Closing(c)
        PROVE  main' = main /\ DropsLeft' < DropsLeft
    BY <2>5, HandlingAdvances
  <2> QED
    BY <2>1, <2>2, <2>4, <2>5, MainStepAdvances DEF StopAdvances
<1> QED
  BY <1>1, StopInvariant, PTL DEF Spec

-----------------------------------------------------------------------------
\* resetIdleTimer and the tick that finds connections leave the timer armed or its tick
\* in the channel whenever nobody is connected, so that the main loop never blocks in
\* its select for good.
THEOREM IdleBusWaitsForTimer == Spec => []IdleNeverWaits
<1>1. ServerInv => IdleNeverWaits
  <2> SUFFICES ASSUME ServerInv, Unserved, main = "select"
               PROVE  timer \in {"armed", "fired"}
    BY DEF IdleNeverWaits
  <2>1. conns = {}
    BY DEF ServerInv, ControlInv, PhasesMatchSets, TypeOK, Unserved
  <2> QED
    BY <2>1 DEF ServerInv, ControlInv, IdleTimerGuards, TypeOK, Unserved
<1> QED
  BY <1>1, InitEstablishesInv, StepKeepsInv, PTL DEF Spec

\* While nobody is connected, the firing of the timer, the receipt of its tick and the
\* look at the connections follow one another and end in the decision to stop; nothing
\* but a new connection takes the bus back (IdleBusExits).
THEOREM IdleBusMovesOn == Spec => [][IdleAdvances]_vars
<1>1. ServerInv /\ [Next]_vars => [IdleAdvances]_vars
  <2> SUFFICES ASSUME ServerInv, Next, main \in {"select", "tick"}, Unserved
               PROVE  /\ ReceiveTick \/ Tick \/ (main = "select" /\ TimerFires)
                           => main' = "closing" \/ IdleLeft' < IdleLeft
                      /\ Unserved' => main' = "closing" \/ IdleLeft' <= IdleLeft
    BY DEF IdleAdvances
  <2>1. conns = {}
    BY DEF ServerInv, ControlInv, PhasesMatchSets, TypeOK, Unserved
  <2>2. CASE MainLoop
    <3>1. CASE ReceiveTick \/ Tick \/ StopRequested
      BY <2>1, <3>1 DEF ReceiveTick, Tick, StopRequested, IdleLeft, TimerFires
    <3> QED
      BY <2>2, <3>1 DEF MainLoop, CloseListener, SnapshotConns, DropBegins, DropEnds,
         AllDropped, Return, Exit
  <2>3. CASE TimerFires
    BY <2>3 DEF TimerFires, IdleLeft, mainVars, ReceiveTick, Tick
  <2>4. CASE AcceptEnds \/ Cancel \/ SourceReturns
    BY <2>4 DEF AcceptEnds, Cancel, SourceReturns, IdleLeft, mainVars, ReceiveTick, Tick,
       TimerFires
  <2>5. ASSUME NEW c \in Conns, Dial(c) \/ Handling(c) \/ PeerCloses(c) \/ Closing(c)
        PROVE  Dial(c) /\ main' = main /\ timer' = timer /\ handler'[c] = "dialled"
    <3>1. handler \in [Conns -> HandlerPhases] /\ handler[c] \in {"absent", "gone"}
      BY DEF ServerInv, ControlInv, TypeOK, Unserved
    <3>2. Dial(c)
      BY <2>5, <3>1 DEF Handling, Accept, HelloValid, FirstFrameEnds, HandleShutdown,
         HubRegister, Track, Ack, AckFails, PeerCloses, Closing, HubUnregister, Untrack,
         ResetIdleTimer, Advance
    <3> QED
      BY <3>1, <3>2 DEF Dial, Advance, mainVars
  <2>6. ASSUME NEW c \in Conns, Dial(c) \/ Handling(c) \/ PeerCloses(c) \/ Closing(c)
        PROVE  ~ReceiveTick /\ ~Tick /\ ~TimerFires
    BY <2>5, <2>6 DEF ReceiveTick, Tick, TimerFires, Dial, Advance, Unserved
  <2>7. ASSUME NEW c \in Conns, Dial(c) \/ Handling(c) \/ PeerCloses(c) \/ Closing(c)
        PROVE  ~Unserved'
    BY <2>5, <2>7 DEF Unserved
  <2> QED
    BY <2>2, <2>3, <2>4, <2>6, <2>7 DEF Next
<1> QED
  BY <1>1, InitEstablishesInv, StepKeepsInv, PTL DEF Spec
=============================================================================
