------------------------------ MODULE RestCall ------------------------------
(***************************************************************************)
(* One call of the REST proxy: the check of the token, the attempts and    *)
(* the waits between them (internal/proxy/rest-proxy/proxy.go,             *)
(* internal/utils/retry/retry.go, internal/core/thttp).  Behind the proxy  *)
(* is a network that may lose a request or its answer, or deliver a        *)
(* request after the client gave up on it, and a server that executes a    *)
(* request when it comes.                                                  *)
(*                                                                         *)
(* Time: a delay counts quarters of the initial delay, so that the jitter  *)
(* of a quarter either way is a range of whole numbers.                    *)
(***************************************************************************)
EXTENDS Naturals, FiniteSets

CONSTANTS
  Requests,     \* the requests a command makes
  NoRequest,
  Hurried,      \* the requests sent under a deadline
  MaxAttempts,  \* retries after the first attempt
  MaxDelay,     \* the cap of a delay
  MaxLate       \* bound: requests that linger in the network at once, one copy each

ASSUME RestAssumption ==
  /\ NoRequest \notin Requests
  /\ Hurried \subseteq Requests
  /\ MaxAttempts \in Nat
  /\ MaxDelay \in Nat
  /\ MaxLate \in Nat

VARIABLES
  callAt,       \* where the call is
  request,      \* the request of the call
  attempt,      \* retries so far
  base,         \* what the next delay is computed from
  waits,        \* the last two delays of a call in progress
  unanswered,   \* attempts of this call that got no answer
  callOutcome,  \* how the call ended
  wire,         \* the request of this attempt: not sent, sent, executed
  late,         \* abandoned requests still on their way
  runs,         \* how often the server executed the request of this call
  executed,     \* the requests the server has executed
  storedUser    \* credentials are stored on this machine

callVars == <<callAt, request, attempt, base, waits, unanswered, callOutcome, wire,
              late, runs, executed, storedUser>>

Answers == {"ok", "refused", "expired", "none"}
Outcomes == {"open", "ok", "refused", "expired", "gaveup", "unrefreshed", "cancelled"}

CallTypeOK ==
  /\ callAt \in {"idle", "refresh", "attempt", "waiting", "pausing", "back"}
  /\ request \in Requests \cup {NoRequest}
  /\ attempt \in 0..MaxAttempts
  /\ base \in Nat \ {0}
  /\ waits \in [last : Nat, now : Nat]
  /\ unanswered \in 0..(MaxAttempts + 1)
  /\ callOutcome \in Outcomes
  /\ wire \in {"empty", "sent", "done"}
  /\ late \subseteq Requests
  /\ runs \in Nat
  /\ executed \subseteq Requests
  /\ storedUser \in BOOLEAN

CallInit ==
  /\ callAt = "idle"
  /\ request = NoRequest
  /\ attempt = 0
  /\ base = 1
  /\ waits = [last |-> 0, now |-> 0]
  /\ unanswered = 0
  /\ callOutcome = "open"
  /\ wire = "empty"
  /\ late = {}
  /\ runs = 0
  /\ executed = {}
  /\ storedUser = TRUE

(***************************************************************************)
(* The delay before the next attempt: within a quarter of the base, and    *)
(* capped after the jitter.                                                *)
(***************************************************************************)
CalcDelay(b) == {IF d > MaxDelay THEN MaxDelay ELSE d : d \in (3 * b)..(5 * b - 1)}

\* Retrying without a condition: an answer that will not change is asked for again.
RetryAlways(answer) == answer \in Answers

(***************************************************************************)
(* RetryIf: an attempt is repeated only when nobody answered it: a         *)
(* transport error, a 408 or a 504.                                        *)
(***************************************************************************)
RetryIf(answer) == answer \notin {"refused", "expired"}

(***************************************************************************)
(* The caller enters the proxy with a request.                             *)
(***************************************************************************)
RequestProxy(r) ==
  /\ callAt \in {"idle", "back"}
  /\ request' = r
  /\ callAt' = "refresh"
  /\ attempt' = 0
  /\ base' = 1
  /\ waits' = [last |-> 0, now |-> 0]
  /\ unanswered' = 0
  /\ callOutcome' = "open"
  /\ wire' = "empty"
  /\ runs' = 0
  /\ UNCHANGED <<late, executed, storedUser>>

(***************************************************************************)
(* The token is refreshed first.  A refresh the server refuses clears the  *)
(* stored credentials; either failure ends the call.                       *)
(***************************************************************************)
RefreshToken ==
  /\ callAt = "refresh"
  /\ \/ /\ callAt' = "attempt"
        /\ UNCHANGED <<callOutcome, storedUser>>
     \/ /\ callAt' = "back"
        /\ callOutcome' = "unrefreshed"
        /\ storedUser' \in {storedUser, FALSE}
  /\ UNCHANGED <<request, attempt, base, waits, unanswered, wire, late, runs, executed>>

Sends ==
  /\ callAt = "attempt"
  /\ callAt' = "waiting"
  /\ wire' = "sent"
  /\ UNCHANGED <<request, attempt, base, waits, unanswered, callOutcome, late, runs, executed, storedUser>>

ServerExecutes ==
  /\ callAt = "waiting" /\ wire = "sent"
  /\ wire' = "done"
  /\ runs' = runs + 1
  /\ executed' = executed \cup {request}
  /\ UNCHANGED <<callAt, request, attempt, base, waits, unanswered, callOutcome, late, storedUser>>

(***************************************************************************)
(* A request nobody waits for any more reaches the server.                 *)
(***************************************************************************)
LateExecutes(r) ==
  /\ r \in late
  /\ late' = late \ {r}
  /\ runs' = IF r = request THEN runs + 1 ELSE runs
  /\ executed' = executed \cup {r}
  /\ UNCHANGED <<callAt, request, attempt, base, waits, unanswered, callOutcome, wire, storedUser>>

(***************************************************************************)
(* The attempt returns: with the answer of the executed request, with a    *)
(* refusal of one that was not executed, or with nothing (the client       *)
(* waits 3 seconds).  An unanswered request may linger in the network.  An *)
(* expired token has the stored credentials cleared; the error of that is  *)
(* dropped, so that they may stay.                                         *)
(***************************************************************************)
Lingers ==
  IF wire = "sent" /\ Cardinality(late) < MaxLate THEN {late, late \cup {request}} ELSE {late}

Pauses(answer) ==
  /\ answer # "ok"
  /\ RetryIf(answer)
  /\ attempt < MaxAttempts

AttemptReturns(answer) ==
  /\ callAt = "waiting"
  /\ answer = "ok" => wire = "done"
  /\ answer \in {"refused", "expired"} => wire = "sent"
  /\ unanswered' = IF answer = "none" THEN unanswered + 1 ELSE unanswered
  /\ late' \in IF answer = "none" THEN Lingers ELSE {late}
  /\ wire' = IF answer = "none" THEN "empty" ELSE wire
  /\ storedUser' \in IF answer = "expired" THEN {storedUser, FALSE} ELSE {storedUser}
  /\ \/ /\ Pauses(answer)
        /\ callAt' = "pausing"
        /\ \E d \in CalcDelay(base) : waits' = [last |-> waits.now, now |-> d]
        /\ base' = 2 * base
        /\ UNCHANGED callOutcome
     \/ /\ ~Pauses(answer)
        /\ callAt' = "back"
        /\ callOutcome' = IF answer = "none" THEN "gaveup" ELSE answer
        /\ waits' = [last |-> 0, now |-> 0]
        /\ UNCHANGED base
  /\ UNCHANGED <<request, attempt, runs, executed>>

PauseEnds ==
  /\ callAt = "pausing"
  /\ callAt' = "attempt"
  /\ attempt' = attempt + 1
  /\ UNCHANGED <<request, base, waits, unanswered, callOutcome, wire, late, runs, executed, storedUser>>

PauseCut ==
  /\ callAt = "pausing" /\ request \in Hurried
  /\ callAt' = "back"
  /\ callOutcome' = "cancelled"
  /\ waits' = [last |-> 0, now |-> 0]
  /\ UNCHANGED <<request, attempt, base, unanswered, wire, late, runs, executed, storedUser>>

CallNext ==
  \/ RefreshToken
  \/ Sends
  \/ ServerExecutes
  \/ \E r \in late : LateExecutes(r)
  \/ \E a \in Answers : AttemptReturns(a)
  \/ PauseEnds
  \/ PauseCut

-----------------------------------------------------------------------------
(***************************************************************************)
(* Every pause of a call is longer than the one before, whatever the       *)
(* jitter made of the two, or it is the cap: calcDelay multiplies first,   *)
(* then jitters, then caps.  (DefaultOptions, which every caller takes,    *)
(* ends after three pauses far below its cap.)                             *)
(***************************************************************************)
BackoffGrows == waits.now > waits.last \/ waits.now = MaxDelay \/ waits.now = 0

(***************************************************************************)
(* What a call returns is what happened to its request.  Only unanswered   *)
(* attempts are repeated, so the server executed the request, or may still *)
(* execute it, at most once per unanswered attempt and once for the        *)
(* answered one; success means it was executed, and giving up means that   *)
(* every attempt allowed went unanswered.                                  *)
(***************************************************************************)
CallTellsTheTruth ==
  request # NoRequest =>
    /\ attempt <= unanswered
    /\ runs + (IF request \in late THEN 1 ELSE 0)
         <= unanswered + (IF wire = "done" THEN 1 ELSE 0)
    /\ callOutcome = "ok" => runs >= 1
    /\ callOutcome = "gaveup" => unanswered = MaxAttempts + 1
=============================================================================
