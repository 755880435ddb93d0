------------------------------ MODULE WSSource ------------------------------
(***************************************************************************)
(* The supervisor of the gateway connection (internal/event/source/        *)
(* wssource.go): Run with its backoff and circuit breaker, one runOnce     *)
(* after the other, each with a heartbeat goroutine that refreshes the     *)
(* token in session and pings the gateway.  The credential store behind    *)
(* TokenProvider, the gateway and the network are the environment.         *)
(*                                                                         *)
(* Tokens are numbered in order of issue.  Durations are counted in units  *)
(* of MinBackoff.  Subscribing is the subject of Subscription.             *)
(***************************************************************************)
EXTENDS Integers

CONSTANTS
  MaxBackoff,              \* the cap of the backoff, in units of MinBackoff
  MaxConsecutiveFailures,  \* the circuit breaker
  MaxTokens                \* bound: tokens the credential store ever issues

ASSUME SourceAssumption ==
  /\ MaxBackoff \in Nat \ {0}
  /\ MaxConsecutiveFailures \in Nat \ {0}
  /\ MaxTokens \in Nat \ {0}

VARIABLES
  phase,       \* where the goroutine of Run is
  err,         \* what runOnce is about to return
  backoff, consecutiveFailures,
  stable,      \* the latest session was steady for over 60 seconds
  state,       \* the state notified last
  cancelled,   \* ctx
  conn,        \* the connection of the session
  heartbeat,   \* the goroutine heartbeatLoop
  hbStop,      \* whether it was asked to stop
  fatalErr,    \* the error it pinned to the session
  token,       \* tokenPtr
  credential,  \* what TokenProvider would return, 0 when there is no user
  bound,       \* the token the gateway has bound to the session
  refused      \* history: TokenProvider failed or the gateway refused a token

loopVars == <<backoff, consecutiveFailures, stable>>
heartbeatVars == <<heartbeat, hbStop, fatalErr>>
tokenVars == <<token, credential, bound>>
vars == <<phase, err, loopVars, state, cancelled, conn, heartbeatVars,
          tokenVars, refused>>

\* "auth" and "expired" are the authErrors, "expired" those that carry one of
\* the two token-expired statuses of the gateway.
AuthErrors == {"auth", "expired"}
Errors == AuthErrors \union {"none", "lost", "server_closed"}

Final == {"disconnected", "auth_failed", "auth_expired"}

Init ==
  /\ phase = "idle" /\ err = "none"
  /\ backoff = 1 /\ consecutiveFailures = 0 /\ stable = FALSE
  /\ state = "none" /\ cancelled = FALSE /\ conn = "none"
  /\ heartbeat = "off" /\ hbStop = FALSE /\ fatalErr = "none"
  /\ token = 1 /\ credential = 1 /\ bound = 0 /\ refused = FALSE

-----------------------------------------------------------------------------
\* Run.

NextBackoffUncapped(cur) == cur * 2

NextBackoff(cur) == IF cur * 2 > MaxBackoff THEN MaxBackoff ELSE cur * 2

Ends(notice) == phase' = "ended" /\ state' = notice

FirstAttempt ==
  /\ phase = "idle"
  /\ IF cancelled THEN Ends("disconnected")
     ELSE phase' = "refresh" /\ state' = "connecting"
  /\ UNCHANGED <<err, loopVars, cancelled, conn, heartbeatVars, tokenVars, refused>>

\* The backoff has passed, or ctx is cancelled first.
WakeUp ==
  /\ phase = "sleep"
  /\ \/ /\ cancelled
        /\ Ends("disconnected")
        /\ UNCHANGED backoff
     \/ /\ phase' = "refresh"
        /\ backoff' = NextBackoff(backoff)
        /\ UNCHANGED state
  /\ UNCHANGED <<err, consecutiveFailures, stable, cancelled, conn, heartbeatVars,
                 tokenVars, refused>>

\* An auth error ends the source.  An expired token also calls OnAuthFailed,
\* which removes the local user.
AuthFails ==
  /\ phase = "verdict" /\ ~cancelled /\ err \in AuthErrors
  /\ Ends(IF err = "expired" THEN "auth_expired" ELSE "auth_failed")
  /\ credential' = IF err = "expired" THEN 0 ELSE credential
  /\ UNCHANGED <<err, loopVars, cancelled, conn, heartbeatVars, token, bound, refused>>

\* So does a Close frame of the gateway, and a cancelled context.
Disconnects ==
  /\ phase = "verdict" /\ (cancelled \/ err = "server_closed")
  /\ Ends("disconnected")
  /\ UNCHANGED <<err, loopVars, cancelled, conn, heartbeatVars, tokenVars, refused>>

\* A lost connection is retried; unless the session was stable it counts, and
\* the breaker ends the source.
CountFailure(failures) ==
  /\ phase = "verdict" /\ ~cancelled /\ err = "lost"
  /\ IF stable
     THEN backoff' = 1 /\ consecutiveFailures' = 0
     ELSE consecutiveFailures' = failures /\ UNCHANGED backoff
  /\ IF ~stable /\ failures >= MaxConsecutiveFailures
     THEN Ends("disconnected")
     ELSE phase' = "sleep" /\ state' = "reconnecting"
  /\ UNCHANGED <<err, stable, cancelled, conn, heartbeatVars, tokenVars, refused>>

\* A breaker that starts over with every attempt.
LostUncounted == CountFailure(1)

Lost == CountFailure(consecutiveFailures + 1)

-----------------------------------------------------------------------------
\* runOnce.

Returns(e) == phase' = "verdict" /\ err' = e

\* The token before the dial; any failure of TokenProvider is final.  A fresh
\* session has no duration yet, and nothing pinned to it.
RefreshAndStoreToken ==
  /\ phase = "refresh"
  /\ stable' = FALSE /\ fatalErr' = "none"
  /\ \/ /\ credential # 0
        /\ token' = credential
        /\ phase' = "dial"
        /\ UNCHANGED <<err, refused>>
     \/ /\ Returns("auth")
        /\ refused' = TRUE
        /\ UNCHANGED token
  /\ UNCHANGED <<backoff, consecutiveFailures, state, cancelled, conn, heartbeat,
                 hbStop, credential, bound>>

\* 401 and 403 are auth errors, everything else is lost.
Dial ==
  /\ phase = "dial"
  /\ \/ phase' = "bind" /\ conn' = "open" /\ UNCHANGED <<err, refused>>
     \/ Returns("lost") /\ UNCHANGED <<conn, refused>>
     \/ Returns("auth") /\ refused' = TRUE /\ UNCHANGED conn
  /\ UNCHANGED <<loopVars, state, cancelled, heartbeatVars, tokenVars>>

\* The one-shot reader of doAuthBind: a wrong or missing answer is lost.
BindFails(e) ==
  /\ phase = "bind"
  /\ e = "server_closed" => conn = "goodbye"
  /\ e \in AuthErrors => conn = "open"
  /\ Returns(e)
  /\ refused' = (refused \/ e \in AuthErrors)
  /\ conn' = "none"
  /\ UNCHANGED <<loopVars, state, cancelled, heartbeatVars, tokenVars>>

\* AuthBind succeeds: the session is published and the heartbeat started.
BindSucceeds ==
  /\ phase = "bind" /\ conn = "open"
  /\ phase' = "steady" /\ state' = "steady"
  /\ bound' = token
  /\ heartbeat' = "due" /\ hbStop' = FALSE
  /\ UNCHANGED <<err, loopVars, cancelled, conn, fatalErr, token, credential, refused>>

\* Sixty seconds from the steady state on, until the deferred calls measure them.
Ages ==
  /\ phase \in {"steady", "unwinding", "stopping"} /\ ~stable
  /\ stable' = TRUE
  /\ UNCHANGED <<phase, err, backoff, consecutiveFailures, state, cancelled, conn,
                 heartbeatVars, tokenVars, refused>>

\* A broken or closed connection, or a Close frame, ends the read loop.
ReadLoopEnds ==
  /\ phase = "steady" /\ conn \in {"broken", "goodbye", "shut"}
  /\ phase' = "unwinding"
  /\ err' = IF conn = "goodbye" THEN "server_closed" ELSE "lost"
  /\ UNCHANGED <<loopVars, state, cancelled, conn, heartbeatVars, tokenVars, refused>>

\* loadFatalErr comes before what the read loop returned; hbStop is closed.
LoadFatalErr ==
  /\ phase = "unwinding"
  /\ phase' = "stopping"
  /\ err' = IF fatalErr # "none" THEN fatalErr ELSE err
  /\ hbStop' = TRUE
  /\ UNCHANGED <<loopVars, state, cancelled, conn, heartbeat, fatalErr, tokenVars,
                 refused>>

CloseSession ==
  /\ phase = "stopping"
  /\ phase' = "verdict"
  /\ conn' = "none"
  /\ UNCHANGED <<err, loopVars, state, cancelled, heartbeatVars, tokenVars, refused>>

\* The deferred calls wait for hbDone; then the session is closed.
RunOnceReturns == heartbeat = "done" /\ CloseSession

\* The watcher of ctx closes the connection.
CancelClosesNothing ==
  /\ cancelled /\ conn \in {"open", "silent"}
  /\ UNCHANGED vars

CancelClosesConn ==
  /\ cancelled /\ conn \in {"open", "silent"}
  /\ conn' = "shut"
  /\ UNCHANGED <<phase, err, loopVars, state, cancelled, heartbeatVars, tokenVars,
                 refused>>

-----------------------------------------------------------------------------
\* heartbeatLoop.

\* sendHeartbeat returned e: after a stop it does not matter, otherwise an auth
\* error is pinned (the first one stays) and the connection closed.
HeartbeatFails(e) ==
  /\ heartbeat' = "done"
  /\ IF hbStop THEN UNCHANGED <<state, fatalErr, conn>>
     ELSE /\ state' = "steady"
          /\ fatalErr' = IF e \in AuthErrors /\ fatalErr = "none" THEN e ELSE fatalErr
          /\ conn' = "shut"

\* A frame leaves, although a connection that is dead may swallow it, or not.
CanWrite == conn \in {"open", "silent", "broken", "goodbye"}
WriteMayFail == conn \in {"broken", "goodbye", "shut"}

\* The ping is written, or its write fails.
Ping ==
  \/ CanWrite /\ heartbeat' = "ping" /\ UNCHANGED <<state, fatalErr, conn>>
  \/ WriteMayFail /\ HeartbeatFails("lost")

\* A version that pings without asking for the token, and one that stores a
\* rotated token without telling the gateway.
HeartbeatSkipsRefresh ==
  /\ heartbeat = "due"
  /\ Ping
  /\ UNCHANGED <<phase, err, loopVars, cancelled, hbStop, tokenVars, refused>>

HeartbeatStoresOnly ==
  /\ heartbeat = "due"
  /\ \/ /\ credential # 0 /\ token' = credential
        /\ Ping
        /\ UNCHANGED refused
     \/ /\ HeartbeatFails("auth") /\ refused' = TRUE
        /\ UNCHANGED token
  /\ UNCHANGED <<phase, err, loopVars, cancelled, hbStop, credential, bound>>

\* refreshTokenIfNeeded: an unchanged token goes on to the ping; a new one is
\* stored first, then sent.  Whatever fails on the way is wrapped into an
\* authError by sendHeartbeat.
HeartbeatDue ==
  /\ heartbeat = "due"
  /\ \/ /\ credential # 0 /\ credential = token
        /\ Ping
        /\ UNCHANGED <<token, refused>>
     \/ /\ credential # 0 /\ credential # token
        /\ token' = credential
        /\ \/ CanWrite /\ heartbeat' = "refresh" /\ UNCHANGED <<state, fatalErr, conn>>
           \/ WriteMayFail /\ HeartbeatFails("auth")
        /\ UNCHANGED refused
     \/ /\ HeartbeatFails("auth")
        /\ refused' = TRUE
        /\ UNCHANGED token
  /\ UNCHANGED <<phase, err, loopVars, cancelled, hbStop, credential, bound>>

\* The gateway accepts the AuthRefresh: the session has the new token.
RefreshAccepted ==
  /\ heartbeat = "refresh" /\ conn = "open"
  /\ bound' = token
  /\ Ping
  /\ UNCHANGED <<phase, err, loopVars, cancelled, hbStop, token, credential, refused>>

RefreshRefused ==
  /\ heartbeat = "refresh" /\ conn = "open"
  /\ \E e \in AuthErrors : HeartbeatFails(e)
  /\ refused' = TRUE
  /\ UNCHANGED <<phase, err, loopVars, cancelled, hbStop, tokenVars>>

\* No answer in time, or a stop or cancellation while waiting.
RefreshUnanswered ==
  /\ heartbeat = "refresh"
  /\ HeartbeatFails("auth")
  /\ UNCHANGED <<phase, err, loopVars, cancelled, hbStop, tokenVars, refused>>

PingAnswered ==
  /\ heartbeat = "ping" /\ conn = "open"
  /\ heartbeat' = "sleep"
  /\ UNCHANGED <<phase, err, loopVars, state, cancelled, conn, hbStop, fatalErr,
                 tokenVars, refused>>

PingUnanswered ==
  /\ heartbeat = "ping"
  /\ HeartbeatFails("lost")
  /\ UNCHANGED <<phase, err, loopVars, cancelled, hbStop, tokenVars, refused>>

\* The interval has passed, or the goroutine is stopped.
HeartbeatWakes ==
  /\ heartbeat = "sleep"
  /\ \/ heartbeat' = "due"
     \/ (cancelled \/ hbStop) /\ heartbeat' = "done"
  /\ UNCHANGED <<phase, err, loopVars, state, cancelled, conn, hbStop, fatalErr,
                 tokenVars, refused>>

-----------------------------------------------------------------------------
\* The environment.

Cancel ==
  /\ ~cancelled /\ phase # "ended"
  /\ cancelled' = TRUE
  /\ UNCHANGED <<phase, err, loopVars, state, conn, heartbeatVars, tokenVars, refused>>

\* The link dies with or without anybody noticing, or the gateway sends Close; a
\* silent link breaks when the read deadline passes.
ConnectionEnds ==
  /\ conn \in {"open", "silent"}
  /\ conn' \in {"broken", "silent"} \union (IF conn = "open" THEN {"goodbye"} ELSE {})
  /\ UNCHANGED <<phase, err, loopVars, state, cancelled, heartbeatVars, tokenVars,
                 refused>>

\* The token rotates, or the user logs out.
CredentialChanges ==
  /\ credential # 0
  /\ \/ credential < MaxTokens /\ credential' = credential + 1
     \/ credential' = 0
  /\ UNCHANGED <<phase, err, loopVars, state, cancelled, conn, heartbeatVars, token,
                 bound, refused>>

-----------------------------------------------------------------------------
Supervisor ==
  \/ FirstAttempt \/ WakeUp \/ AuthFails \/ Disconnects \/ Lost
  \/ RefreshAndStoreToken \/ Dial \/ BindSucceeds
  \/ \E e \in AuthErrors \union {"lost", "server_closed"} : BindFails(e)
  \/ ReadLoopEnds \/ LoadFatalErr \/ RunOnceReturns

Heartbeat ==
  \/ HeartbeatDue \/ RefreshAccepted \/ RefreshRefused \/ RefreshUnanswered
  \/ PingAnswered \/ PingUnanswered \/ HeartbeatWakes

Environment == Cancel \/ ConnectionEnds \/ CredentialChanges \/ Ages

Next == Supervisor \/ Heartbeat \/ CancelClosesConn \/ Environment

\* The three goroutines run and their timers pass.  Nothing is assumed of the
\* gateway, the network and the user.
Fairness ==
  WF_vars(Supervisor) /\ WF_vars(Heartbeat) /\ WF_vars(CancelClosesConn)

Spec == Init /\ [][Next]_vars /\ Fairness

-----------------------------------------------------------------------------
LoopTypeOK ==
  /\ phase \in {"idle", "sleep", "refresh", "dial", "bind", "steady",
                "unwinding", "stopping", "verdict", "ended"}
  /\ err \in Errors
  /\ state \in Final \union {"none", "connecting", "reconnecting", "steady"}
  /\ backoff \in 1..MaxBackoff
  /\ consecutiveFailures \in 0..MaxConsecutiveFailures

SessionTypeOK ==
  /\ conn \in {"none", "open", "silent", "broken", "goodbye", "shut"}
  /\ heartbeat \in {"off", "due", "refresh", "ping", "sleep", "done"}
  /\ fatalErr \in AuthErrors \union {"none"}
  /\ token \in 1..MaxTokens
  /\ credential \in 0..MaxTokens /\ bound \in 0..MaxTokens

FlagTypeOK ==
  /\ stable \in BOOLEAN /\ cancelled \in BOOLEAN
  /\ hbStop \in BOOLEAN /\ refused \in BOOLEAN

\* The types, among them the cap of the backoff and of the breaker.
TypeOK == LoopTypeOK /\ SessionTypeOK /\ FlagTypeOK

\* No heartbeat goroutine outlives its runOnce, so none closes the connection,
\* pins an error to or notifies "steady" over the head of a later attempt or
\* of a source that has ended.
OneHeartbeat ==
  /\ phase \notin {"steady", "unwinding", "stopping"} => heartbeat \in {"off", "done"}
  /\ phase = "ended" => state \in Final

\* After a round of the heartbeat the gateway has the token this side holds,
\* whenever it was rotated (refreshTokenIfNeeded: AuthRefresh before the ping).
BoundTokenInSync == heartbeat = "sleep" /\ conn = "open" => bound = token

\* A cancelled source ends: no wait of Run, of runOnce, of its read loop or of
\* its heartbeat outlives the context.
CancelEnds == cancelled ~> phase = "ended"

\* A gateway that never keeps a session for a minute is given up: there are
\* no endless retries without stable sessions in between.
FlappingEnds == []<>(phase = "sleep") => []<>stable

\* Without a credential the source ends, in session or out of it, although the
\* gateway may answer every ping.
RevokedEnds == credential = 0 ~> phase = "ended"

\* What wssource.go says of an AuthRefresh that cannot be written or is not
\* answered, that Run reconnects and heals with the next dial: a source that
\* gives up over its credentials was refused them.
AuthFailureIsARefusal == phase = "ended" /\ state = "auth_failed" => refused
=============================================================================
