--------------------------- MODULE WSSourceProofs ---------------------------
(***************************************************************************)
(* Theorems about WSSource, for any caps of backoff and breaker and any    *)
(* number of tokens.  The inductive invariant adds to the properties that  *)
(* the breaker has not been reached by a source that goes on, and that     *)
(* the gateway knows the token whenever no AuthRefresh is under way.       *)
(***************************************************************************)
EXTENDS WSSource, TLAPS

\* The breaker ends the source as soon as it is reached.
BreakerOpens == phase # "ended" => consecutiveFailures < MaxConsecutiveFailures

\* From the AuthBind on, only an AuthRefresh may leave the gateway behind.
BoundUnlessRefreshing == heartbeat \in {"due", "ping", "sleep"} => bound = token

SourceInv == TypeOK /\ OneHeartbeat /\ BreakerOpens /\ BoundUnlessRefreshing

-----------------------------------------------------------------------------
LEMMA InitEstablishesInv == Init => SourceInv
<1>1. Init => TypeOK
  <2> SUFFICES ASSUME Init PROVE TypeOK
    OBVIOUS
  <2>1. /\ backoff \in 1..MaxBackoff
        /\ consecutiveFailures \in 0..MaxConsecutiveFailures
        /\ token \in 1..MaxTokens
        /\ credential \in 0..MaxTokens /\ bound \in 0..MaxTokens
    BY SourceAssumption DEF Init
  <2> QED
    BY <2>1 DEF Init, TypeOK, LoopTypeOK, SessionTypeOK, FlagTypeOK,
               AuthErrors, Errors, Final
<1>2. Init => OneHeartbeat /\ BreakerOpens /\ BoundUnlessRefreshing
  BY SourceAssumption
     DEF Init, OneHeartbeat, BreakerOpens, BoundUnlessRefreshing
<1> QED
  BY <1>1, <1>2 DEF SourceInv

\* The steps of Run: the backoff is capped, the breaker ends the source, and
\* whatever ends it notifies a final state.
LEMMA RunKeepsInv ==
  ASSUME SourceInv,
         FirstAttempt \/ WakeUp \/ AuthFails \/ Disconnects \/ Lost
  PROVE  SourceInv'
<1> USE SourceAssumption
    DEF SourceInv, TypeOK, LoopTypeOK, SessionTypeOK, FlagTypeOK,
        OneHeartbeat, BreakerOpens, BoundUnlessRefreshing,
        AuthErrors, Errors, Final, Ends, loopVars, heartbeatVars, tokenVars
<1>1. CASE FirstAttempt
  BY <1>1 DEF FirstAttempt
<1>2. CASE WakeUp
  <2>1. NextBackoff(backoff) \in 1..MaxBackoff
    BY DEF NextBackoff
  <2> QED
    BY <1>2, <2>1 DEF WakeUp
<1>3. CASE AuthFails
  BY <1>3 DEF AuthFails
<1>4. CASE Disconnects
  BY <1>4 DEF Disconnects
<1>5. CASE Lost
  <2>1. CASE stable
    BY <1>5, <2>1 DEF Lost, CountFailure
  <2>2. CASE ~stable
    BY <1>5, <2>2 DEF Lost, CountFailure
  <2> QED
    BY <2>1, <2>2
<1> QED
  BY <1>1, <1>2, <1>3, <1>4, <1>5

\* The steps of runOnce: the heartbeat starts with a bound token, and is done
\* when runOnce returns.
LEMMA RunOnceKeepsInv ==
  ASSUME SourceInv,
         \/ RefreshAndStoreToken \/ Dial \/ BindSucceeds
         \/ \E e \in AuthErrors \union {"lost", "server_closed"} : BindFails(e)
         \/ ReadLoopEnds \/ LoadFatalErr \/ RunOnceReturns
  PROVE  SourceInv'
<1> DEFINE Rest == OneHeartbeat /\ BreakerOpens /\ BoundUnlessRefreshing
<1> USE DEF AuthErrors, Errors, Final, Returns, loopVars, heartbeatVars, tokenVars
<1>t. LoopTypeOK /\ SessionTypeOK /\ FlagTypeOK /\ Rest
  BY DEF SourceInv, TypeOK
<1>1. CASE RefreshAndStoreToken
  <2>1. LoopTypeOK'
    BY <1>1, <1>t DEF RefreshAndStoreToken, LoopTypeOK
  <2>2. SessionTypeOK'
    BY <1>1, <1>t DEF RefreshAndStoreToken, SessionTypeOK
  <2>3. FlagTypeOK'
    BY <1>1, <1>t DEF RefreshAndStoreToken, FlagTypeOK
  <2>4. Rest'
    BY <1>1, <1>t DEF RefreshAndStoreToken, OneHeartbeat, BreakerOpens,
                     BoundUnlessRefreshing
  <2> QED
    BY <2>1, <2>2, <2>3, <2>4 DEF SourceInv, TypeOK
<1>2. CASE Dial
  <2>1. LoopTypeOK'
    BY <1>2, <1>t DEF Dial, LoopTypeOK
  <2>2. SessionTypeOK'
    BY <1>2, <1>t DEF Dial, SessionTypeOK
  <2>3. FlagTypeOK'
    BY <1>2, <1>t DEF Dial, FlagTypeOK
  <2>4. Rest'
    BY <1>2, <1>t DEF Dial, OneHeartbeat, BreakerOpens,
                     BoundUnlessRefreshing
  <2> QED
    BY <2>1, <2>2, <2>3, <2>4 DEF SourceInv, TypeOK
<1>3. CASE BindSucceeds
  <2>1. LoopTypeOK'
    BY <1>3, <1>t DEF BindSucceeds, LoopTypeOK
  <2>2. SessionTypeOK'
    BY <1>3, <1>t DEF BindSucceeds, SessionTypeOK
  <2>3. FlagTypeOK'
    BY <1>3, <1>t DEF BindSucceeds, FlagTypeOK
  <2>4. Rest'
    BY <1>3, <1>t DEF BindSucceeds, OneHeartbeat, BreakerOpens,
                     BoundUnlessRefreshing
  <2> QED
    BY <2>1, <2>2, <2>3, <2>4 DEF SourceInv, TypeOK
<1>4. ASSUME NEW e \in AuthErrors \union {"lost", "server_closed"}, BindFails(e)
      PROVE  SourceInv'
  <2>1. LoopTypeOK'
    BY <1>4, <1>t DEF BindFails, LoopTypeOK
  <2>2. SessionTypeOK'
    BY <1>4, <1>t DEF BindFails, SessionTypeOK
  <2>3. FlagTypeOK'
    BY <1>4, <1>t DEF BindFails, FlagTypeOK
  <2>4. Rest'
    BY <1>4, <1>t DEF BindFails, OneHeartbeat, BreakerOpens,
                     BoundUnlessRefreshing
  <2> QED
    BY <2>1, <2>2, <2>3, <2>4 DEF SourceInv, TypeOK
<1>5. CASE ReadLoopEnds \/ LoadFatalErr
  <2>1. LoopTypeOK'
    <3>1. CASE ReadLoopEnds
      BY <3>1, <1>t DEF ReadLoopEnds, LoopTypeOK
    <3>2. CASE LoadFatalErr
      BY <3>2, <1>t DEF LoadFatalErr, LoopTypeOK, SessionTypeOK
    <3> QED
      BY <1>5, <3>1, <3>2
  <2>2. SessionTypeOK'
    BY <1>5, <1>t DEF ReadLoopEnds, LoadFatalErr, SessionTypeOK
  <2>3. FlagTypeOK'
    BY <1>5, <1>t DEF ReadLoopEnds, LoadFatalErr, FlagTypeOK
  <2>4. Rest'
    BY <1>5, <1>t DEF ReadLoopEnds, LoadFatalErr, OneHeartbeat, BreakerOpens,
                     BoundUnlessRefreshing
  <2> QED
    BY <2>1, <2>2, <2>3, <2>4 DEF SourceInv, TypeOK
<1>6. CASE RunOnceReturns
  <2>1. LoopTypeOK'
    BY <1>6, <1>t DEF RunOnceReturns, CloseSession, LoopTypeOK
  <2>2. SessionTypeOK'
    BY <1>6, <1>t DEF RunOnceReturns, CloseSession, SessionTypeOK
  <2>3. FlagTypeOK'
    BY <1>6, <1>t DEF RunOnceReturns, CloseSession, FlagTypeOK
  <2>4. Rest'
    BY <1>6, <1>t DEF RunOnceReturns, CloseSession, OneHeartbeat, BreakerOpens,
                     BoundUnlessRefreshing
  <2> QED
    BY <2>1, <2>2, <2>3, <2>4 DEF SourceInv, TypeOK
<1> QED
  BY <1>1, <1>2, <1>3, <1>4, <1>5, <1>6

\* A failed heartbeat is over, and notifies "steady" in a session only.
LEMMA FailureKeepsInv ==
  ASSUME SourceInv, NEW e \in Errors, HeartbeatFails(e),
         heartbeat \in {"due", "refresh", "ping"},
         token' \in 1..MaxTokens, bound' \in 0..MaxTokens, refused' \in BOOLEAN,
         UNCHANGED <<phase, err, loopVars, cancelled, hbStop, credential>>
  PROVE  SourceInv'
BY DEF SourceInv, TypeOK, LoopTypeOK, SessionTypeOK, FlagTypeOK,
       OneHeartbeat, BreakerOpens, BoundUnlessRefreshing,
       AuthErrors, Errors, Final, HeartbeatFails, loopVars

\* Writing a frame keeps the session, or fails.
LEMMA WriteKeepsInv ==
  ASSUME SourceInv, NEW next \in {"ping", "refresh"}, heartbeat' = next,
         heartbeat \in {"due", "refresh"},
         next = "ping" => bound' = token',
         bound' \in 0..MaxTokens,
         token' \in 1..MaxTokens,
         UNCHANGED <<phase, err, loopVars, state, fatalErr, conn, cancelled, hbStop,
                     credential, refused>>
  PROVE  SourceInv'
BY DEF SourceInv, TypeOK, LoopTypeOK, SessionTypeOK, FlagTypeOK,
       OneHeartbeat, BreakerOpens, BoundUnlessRefreshing,
       AuthErrors, Errors, Final, loopVars

\* The steps of heartbeatLoop: a ping follows only when the gateway has the
\* token of this side.
LEMMA HeartbeatKeepsInv == SourceInv /\ Heartbeat => SourceInv'
<1> SUFFICES ASSUME SourceInv, Heartbeat
             PROVE  SourceInv'
  OBVIOUS
<1> USE DEF loopVars, heartbeatVars, tokenVars
<1>t. /\ credential \in 0..MaxTokens /\ token \in 1..MaxTokens
      /\ bound \in 0..MaxTokens /\ refused \in BOOLEAN
  BY DEF SourceInv, TypeOK, SessionTypeOK, FlagTypeOK
<1>1. CASE HeartbeatDue
  <2>1. CASE credential # 0 /\ credential = token /\ Ping
             /\ UNCHANGED <<token, refused>>
    <3>1. bound = token
      BY <1>1 DEF HeartbeatDue, SourceInv, BoundUnlessRefreshing
    <3> QED
      BY <1>t, <1>1, <2>1, <3>1, WriteKeepsInv, FailureKeepsInv
         DEF HeartbeatDue, Ping, Errors, AuthErrors
  <2>2. CASE /\ credential # 0 /\ token' = credential /\ UNCHANGED refused
             /\ \/ CanWrite /\ heartbeat' = "refresh" /\ UNCHANGED <<state, fatalErr, conn>>
                \/ WriteMayFail /\ HeartbeatFails("auth")
    BY <1>t, <1>1, <2>2, WriteKeepsInv, FailureKeepsInv
       DEF HeartbeatDue, Errors, AuthErrors
  <2>3. CASE HeartbeatFails("auth") /\ refused' = TRUE /\ UNCHANGED token
    BY <1>t, <1>1, <2>3, FailureKeepsInv DEF HeartbeatDue, Errors, AuthErrors
  <2> QED
    BY <1>1, <2>1, <2>2, <2>3 DEF HeartbeatDue
<1>2. CASE RefreshAccepted
  BY <1>t, <1>2, WriteKeepsInv, FailureKeepsInv
     DEF RefreshAccepted, Ping, Errors, AuthErrors
<1>3. CASE RefreshRefused
  BY <1>t, <1>3, FailureKeepsInv DEF RefreshRefused, Errors, AuthErrors
<1>4. CASE RefreshUnanswered
  BY <1>t, <1>4, FailureKeepsInv DEF RefreshUnanswered, Errors, AuthErrors
<1>5. CASE PingUnanswered
  BY <1>t, <1>5, FailureKeepsInv DEF PingUnanswered, Errors
<1>6. CASE PingAnswered
  BY <1>6 DEF PingAnswered, SourceInv, TypeOK, LoopTypeOK, SessionTypeOK, FlagTypeOK,
              OneHeartbeat, BreakerOpens, BoundUnlessRefreshing
<1>7. CASE HeartbeatWakes
  BY <1>7 DEF HeartbeatWakes, SourceInv, TypeOK, LoopTypeOK, SessionTypeOK, FlagTypeOK,
              OneHeartbeat, BreakerOpens, BoundUnlessRefreshing
<1> QED
  BY <1>1, <1>2, <1>3, <1>4, <1>5, <1>6, <1>7 DEF Heartbeat

\* The context's watcher, the network, the gateway and the user.
LEMMA EnvironmentKeepsInv ==
  SourceInv /\ (CancelClosesConn \/ Environment) => SourceInv'
<1> USE DEF SourceInv, TypeOK, LoopTypeOK, SessionTypeOK, FlagTypeOK,
        OneHeartbeat, BreakerOpens, BoundUnlessRefreshing,
            loopVars, heartbeatVars, tokenVars
<1>1. SourceInv /\ CancelClosesConn => SourceInv'
  BY DEF CancelClosesConn
<1>2. SourceInv /\ Cancel => SourceInv'
  BY DEF Cancel
<1>3. SourceInv /\ ConnectionEnds => SourceInv'
  BY DEF ConnectionEnds
<1>4. SourceInv /\ CredentialChanges => SourceInv'
  BY SourceAssumption DEF CredentialChanges
<1>5. SourceInv /\ Ages => SourceInv'
  BY DEF Ages
<1> QED
  BY <1>1, <1>2, <1>3, <1>4, <1>5 DEF Environment

LEMMA StepKeepsInv == SourceInv /\ [Next]_vars => SourceInv'
<1> SUFFICES ASSUME SourceInv, [Next]_vars
             PROVE  SourceInv'
  OBVIOUS
<1>1. CASE Supervisor
  BY <1>1, RunKeepsInv, RunOnceKeepsInv DEF Supervisor
<1>2. CASE Heartbeat
  BY <1>2, HeartbeatKeepsInv
<1>3. CASE CancelClosesConn \/ Environment
  BY <1>3, EnvironmentKeepsInv
<1>4. CASE UNCHANGED vars
  BY <1>4 DEF vars, loopVars, heartbeatVars, tokenVars, SourceInv, TypeOK,
              LoopTypeOK, SessionTypeOK, FlagTypeOK,
              OneHeartbeat, BreakerOpens, BoundUnlessRefreshing
<1> QED
  BY <1>1, <1>2, <1>3, <1>4 DEF Next

LEMMA Invariance == Spec => []SourceInv
<1> QED
  BY InitEstablishesInv, StepKeepsInv, PTL DEF Spec

-----------------------------------------------------------------------------
\* The variables of the source keep their types: the backoff never exceeds its
\* cap nor the failures the breaker (wssource.go, nextBackoff and Run).
THEOREM SourceTypes == Spec => []TypeOK
<1>1. SourceInv => TypeOK
  BY DEF SourceInv
<1> QED
  BY Invariance, <1>1, PTL

\* No heartbeat goroutine outlives its runOnce, and the last state that a source
\* notifies is a final one (the deferred calls of runOnce).
THEOREM HeartbeatStaysInSession == Spec => []OneHeartbeat
<1>1. SourceInv => OneHeartbeat
  BY DEF SourceInv
<1> QED
  BY Invariance, <1>1, PTL

\* After a round of the heartbeat the gateway has the token this side holds
\* (refreshTokenIfNeeded).
THEOREM GatewayHasTheToken == Spec => []BoundTokenInSync
<1>1. SourceInv => BoundTokenInSync
  BY DEF SourceInv, BoundUnlessRefreshing, BoundTokenInSync
<1> QED
  BY Invariance, <1>1, PTL

-----------------------------------------------------------------------------
\* A connection on which the read loop has something to end on.
DeadConns == {"broken", "goodbye", "shut"}

\* What the deferred calls and the watcher of ctx rely on: a session has a
\* connection and a heartbeat, which is stopped only after the read loop, and
\* which closes the connection when it ends unless ctx ended it.
SessionInv ==
  /\ phase = "steady" => conn # "none" /\ ~hbStop
  /\ phase \in {"steady", "unwinding", "stopping"} => heartbeat # "off"
  /\ phase \in {"unwinding", "stopping"} => conn \in DeadConns
  /\ phase = "stopping" => hbStop
  /\ phase \in {"unwinding", "stopping", "verdict"} => err # "none"
  /\ phase = "steady" /\ heartbeat = "done" => cancelled \/ conn \in DeadConns

\* What the theorems about the end of the source rest on.
LiveInv == SourceInv /\ SessionInv

\* The guards of the three goroutines that no answer of the gateway decides.
SupervisorCanStep ==
  \/ phase \in {"idle", "sleep", "refresh", "dial", "bind", "unwinding", "verdict"}
  \/ phase = "steady" /\ conn \in DeadConns
  \/ phase = "stopping" /\ heartbeat = "done"

HeartbeatCanStep == heartbeat \in {"due", "refresh", "ping", "sleep"}

WatcherCanStep == cancelled /\ conn \in {"open", "silent"}

\* A source that has not ended has a step that no answer of the gateway decides; and
\* once it is cancelled the supervisor, the watcher or, for the end of a session, the
\* heartbeat has one.
SourceNeverWaits ==
  phase # "ended" =>
    /\ SupervisorCanStep \/ HeartbeatCanStep \/ WatcherCanStep
    /\ cancelled => SupervisorCanStep \/ WatcherCanStep \/ phase = "stopping"
    /\ phase = "verdict" => err # "none"

\* How far a cancelled source is from its end.
PhaseLeft ==
  IF phase = "idle" THEN 9 ELSE IF phase = "sleep" THEN 8 ELSE IF phase = "refresh" THEN 7
  ELSE IF phase = "dial" THEN 6 ELSE IF phase = "bind" THEN 5 ELSE IF phase = "steady" THEN 4
  ELSE IF phase = "unwinding" THEN 3 ELSE IF phase = "stopping" THEN 2
  ELSE IF phase = "verdict" THEN 1 ELSE 0

\* How far a heartbeat without a connection is from its end.
BeatLeft ==
  IF heartbeat = "sleep" THEN 4 ELSE IF heartbeat = "due" THEN 3
  ELSE IF heartbeat = "refresh" THEN 2 ELSE IF heartbeat = "ping" THEN 1 ELSE 0

\* What a step may do to a source that was cancelled.
CancelAdvances ==
  /\ cancelled => cancelled'
  /\ cancelled /\ Supervisor => PhaseLeft' < PhaseLeft
  /\ ~Supervisor => phase' = phase
  /\ phase = "steady" /\ conn \in DeadConns => conn' \in DeadConns
  /\ CancelClosesConn => conn' \in DeadConns
  /\ phase \in {"unwinding", "stopping"} =>
       /\ Heartbeat => BeatLeft' < BeatLeft
       /\ ~Heartbeat => heartbeat' = heartbeat

\* How far a source without a credential is from its end.
RevokedLeft ==
  IF phase = "dial" THEN 9 ELSE IF phase = "bind" THEN 8 ELSE IF phase = "steady" THEN 7
  ELSE IF phase = "unwinding" THEN 6 ELSE IF phase = "stopping" THEN 5
  ELSE IF phase \in {"idle", "sleep"} THEN 3 ELSE IF phase = "refresh" THEN 2
  ELSE IF phase = "verdict" THEN IF err = "lost" THEN 4 ELSE 1 ELSE 0

\* How far a heartbeat without a credential is from its end.
RevokedBeatLeft ==
  IF heartbeat = "refresh" THEN 4 ELSE IF heartbeat = "ping" THEN 3
  ELSE IF heartbeat = "sleep" THEN 2 ELSE IF heartbeat = "due" THEN 1 ELSE 0

\* What a step may do to a source whose credential is gone.
RevokedAdvances ==
  credential = 0 =>
    /\ credential' = 0
    /\ Supervisor => RevokedLeft' < RevokedLeft
    /\ phase = "steady" /\ Heartbeat => RevokedBeatLeft' < RevokedBeatLeft
    /\ phase = "steady" /\ ~Heartbeat => heartbeat' = heartbeat

\* What a step may do to the count of failures in a row.
FailuresCount ==
  /\ phase # "sleep" /\ phase' = "sleep" =>
       stable \/ consecutiveFailures' = consecutiveFailures + 1
  /\ consecutiveFailures' # consecutiveFailures =>
       stable \/ consecutiveFailures' = consecutiveFailures + 1
  /\ consecutiveFailures' <= MaxConsecutiveFailures
  /\ consecutiveFailures' = MaxConsecutiveFailures => phase' = "ended"

\* Run and runOnce.
LEMMA SupervisorKeepsSession ==
  ASSUME SourceInv, SessionInv, Supervisor
  PROVE  SessionInv'
<1> USE DEF SessionInv, DeadConns, loopVars, heartbeatVars, tokenVars
<1>0. /\ conn \in {"none", "open", "silent", "broken", "goodbye", "shut"}
      /\ phase \notin {"steady", "unwinding", "stopping"} => heartbeat \in {"off", "done"}
      /\ fatalErr \in AuthErrors \union {"none"}
  BY DEF SourceInv, TypeOK, SessionTypeOK, OneHeartbeat
<1>1. CASE FirstAttempt \/ WakeUp \/ AuthFails \/ Disconnects
  BY <1>1 DEF FirstAttempt, WakeUp, AuthFails, Disconnects, Ends
<1>2. CASE Lost
  <2>1. phase' \in {"ended", "sleep"}
    BY <1>2 DEF Lost, CountFailure, Ends
  <2> QED
    BY <2>1
<1>3. CASE RefreshAndStoreToken \/ Dial
  BY <1>3 DEF RefreshAndStoreToken, Dial, Returns
<1>4. ASSUME NEW e \in AuthErrors \union {"lost", "server_closed"}, BindFails(e)
      PROVE  SessionInv'
  BY <1>4 DEF BindFails, Returns, AuthErrors
<1>5. CASE BindSucceeds
  BY <1>5 DEF BindSucceeds
<1>6. CASE ReadLoopEnds
  BY <1>6 DEF ReadLoopEnds
<1>7. CASE LoadFatalErr
  BY <1>7 DEF LoadFatalErr
<1>8. CASE RunOnceReturns
  BY <1>8 DEF RunOnceReturns, CloseSession
<1> QED
  BY <1>1, <1>2, <1>3, <1>4, <1>5, <1>6, <1>7, <1>8 DEF Supervisor

\* The heartbeat: alive, it leaves the connection alone, except that it closes
\* the one it fails on.
LEMMA HeartbeatStep ==
  ASSUME SourceInv, Heartbeat
  PROVE  /\ UNCHANGED <<phase, err, hbStop, cancelled, consecutiveFailures, credential>>
         /\ heartbeat # "off" /\ heartbeat # "done" /\ heartbeat' # "off"
         /\ conn' = conn \/ conn' = "shut"
         /\ heartbeat' = "done" => hbStop \/ cancelled \/ conn' = "shut"
         /\ conn \in DeadConns => BeatLeft' < BeatLeft
         /\ credential = 0 => RevokedBeatLeft' < RevokedBeatLeft
<1> USE DEF loopVars, heartbeatVars, tokenVars
<1>1. ASSUME NEW e, HeartbeatFails(e)
      PROVE  /\ heartbeat' = "done" /\ (conn' = conn \/ conn' = "shut")
             /\ hbStop \/ conn' = "shut"
  BY <1>1 DEF HeartbeatFails
<1>2. ASSUME Ping
      PROVE  /\ heartbeat' \in {"ping", "done"} /\ (conn' = conn \/ conn' = "shut")
             /\ heartbeat' = "done" => hbStop \/ conn' = "shut"
  BY <1>1, <1>2 DEF Ping
<1>3. CASE HeartbeatDue
  <2>1. /\ UNCHANGED <<phase, err, hbStop, cancelled, consecutiveFailures, credential>>
        /\ heartbeat = "due"
    BY <1>3 DEF HeartbeatDue
  <2>2. /\ heartbeat' \in {"ping", "refresh", "done"} /\ (conn' = conn \/ conn' = "shut")
        /\ heartbeat' = "done" => hbStop \/ conn' = "shut"
        /\ credential = 0 => heartbeat' = "done"
    BY <1>1, <1>2, <1>3 DEF HeartbeatDue
  <2> QED
    BY <2>1, <2>2 DEF BeatLeft, RevokedBeatLeft
<1>4. CASE RefreshAccepted
  <2>1. /\ UNCHANGED <<phase, err, hbStop, cancelled, consecutiveFailures, credential>>
        /\ heartbeat = "refresh" /\ conn = "open" /\ Ping
    BY <1>4 DEF RefreshAccepted
  <2> QED
    BY <1>2, <2>1 DEF BeatLeft, RevokedBeatLeft, DeadConns
<1>5. CASE RefreshRefused \/ RefreshUnanswered \/ PingUnanswered
  <2>1. /\ UNCHANGED <<phase, err, hbStop, cancelled, consecutiveFailures, credential>>
        /\ heartbeat \in {"refresh", "ping"} /\ \E e : HeartbeatFails(e)
    BY <1>5 DEF RefreshRefused, RefreshUnanswered, PingUnanswered
  <2> QED
    BY <1>1, <2>1 DEF BeatLeft, RevokedBeatLeft
<1>6. CASE PingAnswered
  <2>1. /\ UNCHANGED <<phase, err, hbStop, cancelled, consecutiveFailures, credential, conn>>
        /\ heartbeat = "ping" /\ conn = "open" /\ heartbeat' = "sleep"
    BY <1>6 DEF PingAnswered
  <2> QED
    BY <2>1 DEF BeatLeft, RevokedBeatLeft, DeadConns
<1>7. CASE HeartbeatWakes
  <2>1. /\ UNCHANGED <<phase, err, hbStop, cancelled, consecutiveFailures, credential, conn>>
        /\ heartbeat = "sleep"
        /\ heartbeat' = "due" \/ (heartbeat' = "done" /\ (cancelled \/ hbStop))
    BY <1>7 DEF HeartbeatWakes
  <2> QED
    BY <2>1 DEF BeatLeft, RevokedBeatLeft
<1> QED
  BY <1>3, <1>4, <1>5, <1>6, <1>7 DEF Heartbeat

\* The context's watcher, the network, the user and the clock leave the
\* supervisor and the heartbeat where they are.
LEMMA OutsideStep ==
  ASSUME SourceInv, CancelClosesConn \/ Environment
  PROVE  /\ UNCHANGED <<phase, err, hbStop, heartbeat, consecutiveFailures>>
         /\ (cancelled => cancelled') /\ (credential = 0 => credential' = 0)
         /\ conn' = conn \/ (conn \in {"open", "silent"} /\ conn' # "none")
         /\ CancelClosesConn => conn' = "shut"
<1> USE DEF loopVars, heartbeatVars, tokenVars
<1>1. CASE CancelClosesConn
  BY <1>1 DEF CancelClosesConn
<1>2. CASE Cancel
  BY <1>2 DEF Cancel, CancelClosesConn
<1>3. CASE ConnectionEnds
  BY <1>3 DEF ConnectionEnds, CancelClosesConn
<1>4. CASE CredentialChanges
  BY <1>4 DEF CredentialChanges, CancelClosesConn
<1>5. CASE Ages
  BY <1>5 DEF Ages, CancelClosesConn
<1> QED
  BY <1>1, <1>2, <1>3, <1>4, <1>5 DEF Environment

\* runOnce's deferred Close and its wait for hbDone: a session has a connection and a
\* heartbeat, the read loop ends only on a dead connection, the heartbeat is told to stop
\* before it is waited for, and one that ended by itself has closed the connection.
THEOREM LiveInvariant == Spec => []LiveInv
<1>1. Init => LiveInv
  BY InitEstablishesInv DEF Init, LiveInv, SessionInv
<1>2. LiveInv /\ [Next]_vars => LiveInv'
  <2> SUFFICES ASSUME LiveInv, [Next]_vars
               PROVE  SessionInv'
    BY StepKeepsInv DEF LiveInv
  <2>1. CASE Supervisor
    BY <2>1, SupervisorKeepsSession DEF LiveInv
  <2>2. CASE Heartbeat
    BY <2>2, HeartbeatStep DEF LiveInv, SessionInv, DeadConns
  <2>3. CASE CancelClosesConn \/ Environment
    BY <2>3, OutsideStep DEF LiveInv, SessionInv, DeadConns
  <2>4. CASE UNCHANGED vars
    BY <2>4 DEF vars, heartbeatVars, LiveInv, SessionInv
  <2> QED
    BY <2>1, <2>2, <2>3, <2>4 DEF Next
<1> QED
  BY <1>1, <1>2, PTL DEF Spec

\* Run never waits for the gateway for ever: in every state before its end the
\* supervisor, the heartbeat or the watcher of ctx has a step that no answer of the
\* gateway decides (the dial, the bind, the refresh and the ping have timeouts, a dead
\* connection ends the read loop, the heartbeat of a silent one runs into its timeout).
THEOREM SourceWaitsForNobody == Spec => []SourceNeverWaits
<1>1. LiveInv => SourceNeverWaits
  BY DEF LiveInv, SessionInv, SourceInv, TypeOK, LoopTypeOK, SessionTypeOK, SourceNeverWaits,
         SupervisorCanStep, HeartbeatCanStep, WatcherCanStep, DeadConns
<1> QED
  BY <1>1, LiveInvariant, PTL

\* One step of Run or runOnce towards the two ends, and what it counts.
LEMMA SupervisorStep ==
  ASSUME SourceInv, SessionInv, Supervisor
  PROVE  /\ UNCHANGED cancelled
         /\ cancelled => PhaseLeft' < PhaseLeft
         /\ credential = 0 => credential' = 0 /\ RevokedLeft' < RevokedLeft
         /\ phase \in {"steady", "unwinding", "stopping"} => heartbeat' = heartbeat
         /\ phase = "steady" => conn' = conn
         /\ FailuresCount
<1> USE DEF loopVars, heartbeatVars, tokenVars, Returns, Ends
<1>0. /\ consecutiveFailures \in Nat /\ stable \in BOOLEAN
      /\ consecutiveFailures <= MaxConsecutiveFailures
      /\ consecutiveFailures = MaxConsecutiveFailures => phase = "ended"
      /\ MaxConsecutiveFailures \in Nat \ {0}
      /\ credential # 0 \/ credential = 0
  BY SourceAssumption DEF SourceInv, TypeOK, LoopTypeOK, FlagTypeOK, BreakerOpens
<1>1. CASE FirstAttempt
  BY <1>0, <1>1 DEF FirstAttempt, PhaseLeft, RevokedLeft, FailuresCount
<1>2. CASE WakeUp
  BY <1>0, <1>2 DEF WakeUp, PhaseLeft, RevokedLeft, FailuresCount
<1>3. CASE AuthFails
  BY <1>0, <1>3 DEF AuthFails, PhaseLeft, RevokedLeft, FailuresCount
<1>4. CASE Disconnects
  BY <1>0, <1>4 DEF Disconnects, PhaseLeft, RevokedLeft, FailuresCount
<1>5. CASE Lost
  <2>1. /\ phase = "verdict" /\ ~cancelled /\ err = "lost"
        /\ UNCHANGED <<err, stable, cancelled, credential>>
    BY <1>5 DEF Lost, CountFailure
  <2>2. CASE stable
    <3>1. phase' = "sleep" /\ consecutiveFailures' = 0
      BY <1>5, <2>2 DEF Lost, CountFailure
    <3> QED
      BY <1>0, <2>1, <2>2, <3>1 DEF RevokedLeft, FailuresCount
  <2>3. CASE ~stable
    <3>1. /\ consecutiveFailures' = consecutiveFailures + 1
          /\ IF consecutiveFailures + 1 >= MaxConsecutiveFailures
             THEN phase' = "ended" ELSE phase' = "sleep"
      BY <1>5, <2>3 DEF Lost, CountFailure
    <3> QED
      BY <1>0, <2>1, <2>3, <3>1 DEF RevokedLeft, FailuresCount
  <2> QED
    BY <2>2, <2>3
<1>6. CASE RefreshAndStoreToken
  BY <1>0, <1>6 DEF RefreshAndStoreToken, PhaseLeft, RevokedLeft, FailuresCount
<1>7. CASE Dial
  BY <1>0, <1>7 DEF Dial, PhaseLeft, RevokedLeft, FailuresCount
<1>8. ASSUME NEW e \in AuthErrors \union {"lost", "server_closed"}, BindFails(e)
      PROVE  /\ UNCHANGED <<cancelled, credential>> /\ phase = "bind"
             /\ PhaseLeft' < PhaseLeft /\ RevokedLeft' < RevokedLeft /\ FailuresCount
  BY <1>0, <1>8 DEF BindFails, PhaseLeft, RevokedLeft, FailuresCount
<1>9. CASE BindSucceeds
  BY <1>0, <1>9 DEF BindSucceeds, PhaseLeft, RevokedLeft, FailuresCount
<1>10. CASE ReadLoopEnds
  BY <1>0, <1>10 DEF ReadLoopEnds, PhaseLeft, RevokedLeft, FailuresCount
<1>11. CASE LoadFatalErr
  BY <1>0, <1>11 DEF LoadFatalErr, PhaseLeft, RevokedLeft, FailuresCount
<1>12. CASE RunOnceReturns
  BY <1>0, <1>12 DEF RunOnceReturns, CloseSession, PhaseLeft, RevokedLeft, FailuresCount
<1> QED
  BY <1>1, <1>2, <1>3, <1>4, <1>5, <1>6, <1>7, <1>8, <1>9, <1>10, <1>11, <1>12
  DEF Supervisor

\* The retry loop and its goroutines after Ctrl+C or a stop of the bus (Run, runOnce
\* and the context.AfterFunc): a cancelled context stays so; each step of the
\* supervisor brings it nearer to its return, and no other goroutine moves it; the
\* connection the watcher closed stays closed under the read loop, and then each
\* step of the heartbeat is one of the finitely many left before close(hbDone).
THEOREM CancelMovesOn == Spec => [][CancelAdvances]_vars
<1>1. LiveInv /\ [Next]_vars => [CancelAdvances]_vars
  <2> SUFFICES ASSUME LiveInv, Next
               PROVE  CancelAdvances
    OBVIOUS
  <2>1. /\ Supervisor => cancelled' = cancelled /\ (cancelled => PhaseLeft' < PhaseLeft)
        /\ Supervisor /\ phase \in {"steady", "unwinding", "stopping"} => heartbeat' = heartbeat
        /\ Supervisor /\ phase = "steady" => conn' = conn
    BY SupervisorStep DEF LiveInv
  <2>2. Heartbeat => /\ phase' = phase /\ cancelled' = cancelled
                     /\ conn' = conn \/ conn' = "shut"
                     /\ conn \in DeadConns => BeatLeft' < BeatLeft
    BY HeartbeatStep DEF LiveInv
  <2>3. /\ CancelClosesConn \/ Environment =>
             /\ phase' = phase /\ heartbeat' = heartbeat /\ (cancelled => cancelled')
             /\ conn' = conn \/ conn \in {"open", "silent"}
        /\ CancelClosesConn => conn' = "shut"
    BY OutsideStep DEF LiveInv
  <2>4. Supervisor \/ Heartbeat \/ CancelClosesConn \/ Environment
    BY DEF Next
  <2>5. phase \in {"unwinding", "stopping"} => conn \in DeadConns
    BY DEF LiveInv, SessionInv
  <2> HIDE DEF LiveInv, Next, PhaseLeft, BeatLeft
  <2>6. cancelled => cancelled'
    BY <2>1, <2>2, <2>3, <2>4
  <2>7. /\ ~Supervisor => phase' = phase
        /\ ~Heartbeat /\ phase \in {"unwinding", "stopping"} => heartbeat' = heartbeat
    BY <2>1, <2>2, <2>3, <2>4
  <2>8. phase = "steady" /\ conn \in DeadConns => conn' \in DeadConns
    BY <2>1, <2>2, <2>3, <2>4 DEF DeadConns
  <2>9. CancelClosesConn => conn' \in DeadConns
    BY <2>3 DEF DeadConns
  <2> QED
    BY <2>1, <2>2, <2>5, <2>6, <2>7, <2>8, <2>9 DEF CancelAdvances
<1> QED
  BY <1>1, LiveInvariant, PTL DEF Spec

\* A source whose user logged out (isFatal, RefreshAndStoreToken and the loop of the
\* heartbeat): the credential never comes back by itself, each step of the
\* supervisor brings it nearer to the verdict that ends Run, and while the session
\* still runs each step of the heartbeat brings the heartbeat nearer to the refresh
\* it fails on.
THEOREM RevokedMovesOn == Spec => [][RevokedAdvances]_vars
<1>1. LiveInv /\ [Next]_vars => [RevokedAdvances]_vars
  <2> SUFFICES ASSUME LiveInv, Next, credential = 0
               PROVE  /\ credential' = 0
                      /\ Supervisor => RevokedLeft' < RevokedLeft
                      /\ phase = "steady" /\ Heartbeat => RevokedBeatLeft' < RevokedBeatLeft
                      /\ phase = "steady" /\ ~Heartbeat => heartbeat' = heartbeat
    BY DEF RevokedAdvances
  <2>1. Supervisor => /\ credential' = 0 /\ RevokedLeft' < RevokedLeft
                      /\ phase = "steady" => heartbeat' = heartbeat
    BY SupervisorStep DEF LiveInv
  <2>2. Heartbeat => credential' = 0 /\ RevokedBeatLeft' < RevokedBeatLeft
    BY HeartbeatStep DEF LiveInv
  <2>3. CancelClosesConn \/ Environment => credential' = 0 /\ heartbeat' = heartbeat
    BY OutsideStep DEF LiveInv
  <2>4. Supervisor \/ Heartbeat \/ CancelClosesConn \/ Environment
    BY DEF Next
  <2> QED
    BY <2>1, <2>2, <2>3, <2>4
<1> QED
  BY <1>1, LiveInvariant, PTL DEF Spec

\* The circuit breaker of Run: the counter of failures in a row grows by one with
\* each attempt that did not last (unless the session was stable it is never
\* lowered), never passes maxConsecutiveFailures, and at that value the source has
\* ended: so a gateway that never accepts is given up after that many attempts.
THEOREM FailuresAreCounted == Spec => [][FailuresCount]_vars
<1>1. LiveInv /\ [Next]_vars => [FailuresCount]_vars
  <2> SUFFICES ASSUME LiveInv, Next
               PROVE  FailuresCount
    OBVIOUS
  <2>1. CASE Supervisor
    BY <2>1, SupervisorStep DEF LiveInv
  <2>2. CASE Heartbeat \/ CancelClosesConn \/ Environment
    <3>1. phase' = phase /\ consecutiveFailures' = consecutiveFailures
      BY <2>2, HeartbeatStep, OutsideStep DEF LiveInv
    <3>2. /\ consecutiveFailures <= MaxConsecutiveFailures
          /\ consecutiveFailures = MaxConsecutiveFailures => phase = "ended"
      BY DEF LiveInv, SourceInv, TypeOK, LoopTypeOK, BreakerOpens
    <3> QED
      BY <3>1, <3>2 DEF FailuresCount
  <2> QED
    BY <2>1, <2>2 DEF Next
<1> QED
  BY <1>1, LiveInvariant, PTL DEF Spec
=============================================================================
