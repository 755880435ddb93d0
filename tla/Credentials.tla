---------------------------- MODULE Credentials ----------------------------
(***************************************************************************)
(* The credentials of the machine and the processes that use them: REST    *)
(* commands (internal/proxy, internal/auth), the token provider of the bus *)
(* (cmd/event/bus.go), `auth login` and `auth logout`, over config.json,   *)
(* the encrypted entry of each user and token.lock (internal/config).      *)
(*                                                                         *)
(* A token is a number; its owner and its age are what the properties tell *)
(* apart.  A step is what one process does between two reads or writes of  *)
(* the shared state; a read of config.json and of the entry it names is    *)
(* one step, since an entry is only ever replaced by a newer one of the    *)
(* same user.  A process may be killed anywhere, and flock lets go then.   *)
(***************************************************************************)
EXTENDS Integers, FiniteSets

CONSTANTS
  Procs,     \* the processes
  RolesOf,   \* bound: what each of them may be started as
  NoProc,    \* nobody: the lock is free
  Users,     \* the accounts
  NoUser,    \* no active user: config.json is missing
  MaxTokens  \* bound: tokens the server issues, all accounts together

Roles == {"command", "bus", "login", "logout"}

ASSUME CredentialsAssumption ==
  /\ NoProc \notin Procs
  /\ RolesOf \in [Procs -> SUBSET Roles]
  /\ NoUser \notin Users
  /\ MaxTokens \in Nat \ {0}

VARIABLES
  active,    \* config.json: active_open_id
  entry,     \* the encrypted entry of each user: its token, 0 for none
  issued,    \* the server has issued the tokens 1..issued
  holder,    \* holder[t]: the account token t was issued to
  age,       \* age[t]: how much of t is left
  tokenLock, \* who holds token.lock
  proc,      \* proc[p]: role, progress, and what process p keeps in memory
  loggedOut  \* history: accounts whose logout succeeded after their last login

storeVars == <<active, entry>>
serverVars == <<issued, holder, age>>
credVars == <<storeVars, serverVars, tokenLock, proc, loggedOut>>

Tokens == 1..MaxTokens
\* "old": the access token is in the last 60 seconds of its life or past it;
\* "dead": the refresh token has expired as well.
Ages == {"fresh", "old", "dead"}

\* mem is tmeet.UserConfig, owner the account a bus or a logout was started
\* for, target the one whose entry ClearUserConfig has to remove.  A process
\* that has ended is Off again, and the next command may take its place.
Off == [role |-> "command", at |-> "off", mem |-> 0, owner |-> NoUser, target |-> NoUser]

\* GetUserConfig, past the cache.
Stored == IF active = NoUser THEN 0 ELSE entry[active]

Fresh(t) == t # 0 /\ age[t] = "fresh"

\* A machine on which nobody, or a user with one token, is logged in.
CredentialsInit ==
  /\ active \in Users \union {NoUser}
  /\ issued = IF active = NoUser THEN 0 ELSE 1
  /\ entry = [u \in Users |-> IF u = active THEN 1 ELSE 0]
  /\ holder = [t \in Tokens |-> IF t <= issued THEN active ELSE NoUser]
  /\ age \in [Tokens -> Ages] /\ \A t \in Tokens : t > issued => age[t] = "fresh"
  /\ tokenLock = NoProc
  /\ proc = [p \in Procs |-> Off]
  /\ loggedOut = {}

At(p, where) == proc[p].at = where
Goto(p, where) == proc' = [proc EXCEPT ![p].at = where]
Holding(p) == tokenLock = p
Unlock(p) == tokenLock' = IF Holding(p) THEN NoProc ELSE tokenLock

\* WithLock and the call it wraps return: the command fails, or the token
\* provider does, which is final for the source and thereby for the bus.
GiveUp(p) ==
  /\ proc' = [proc EXCEPT ![p] = Off]
  /\ Unlock(p)

\* From here on what the process had in memory does not matter.
BeginClear(p) == proc' = [proc EXCEPT ![p].at = "clear", ![p].mem = 0]

-----------------------------------------------------------------------------
\* NewTmeet and preCheck.

Start(p, r) ==
  /\ At(p, "off")
  /\ r = "bus" => \A q \in Procs : proc[q].role # "bus"
  /\ proc' = [proc EXCEPT ![p] =
       [Off EXCEPT !.role = r, !.mem = Stored,
                   !.owner = IF r \in {"bus", "logout"} THEN active ELSE NoUser,
                   !.at = IF r = "login" THEN "want" ELSE "check"]]
  /\ UNCHANGED <<storeVars, serverVars, tokenLock, loggedOut>>

\* preCheck and runBusDaemon call GetUserConfig again, and it reads again if
\* NewTmeet found nothing.  A command then has no tmeet.UserConfig and panics,
\* and a bus serves without a token.
PreCheck(p) ==
  /\ At(p, "check")
  /\ LET usr == IF proc[p].mem # 0 THEN proc[p].mem ELSE Stored
         next == [command |-> "refresh", bus |-> "serve"]
     IN IF usr = 0 \/ (proc[p].role = "command" /\ proc[p].mem = 0)
        THEN GiveUp(p)
        ELSE /\ IF proc[p].role = "logout" THEN BeginClear(p)
                ELSE Goto(p, next[proc[p].role])
             /\ UNCHANGED tokenLock
  /\ UNCHANGED <<storeVars, serverVars, loggedOut>>

-----------------------------------------------------------------------------
\* RefreshToken.

\* The bus asks for its token before every dial and at every heartbeat.
ProvideToken(p) ==
  /\ At(p, "serve") /\ proc[p].mem # 0
  /\ Goto(p, "refresh")
  /\ UNCHANGED <<storeVars, serverVars, tokenLock, loggedOut>>

\* Where RefreshToken returns to.
Refreshed(p) == IF proc[p].role = "bus" THEN "reread" ELSE "request"

CheckExpiry(p) ==
  /\ At(p, "refresh")
  /\ CASE age[proc[p].mem] = "fresh" -> Goto(p, Refreshed(p))
       [] age[proc[p].mem] = "old" -> Goto(p, "want")
       [] age[proc[p].mem] = "dead" -> BeginClear(p)
  /\ UNCHANGED <<storeVars, serverVars, tokenLock, loggedOut>>

Acquire(p) ==
  /\ At(p, "want") /\ tokenLock = NoProc
  /\ tokenLock' = p
  /\ Goto(p, IF proc[p].role = "login" THEN "signedIn" ELSE "locked")
  /\ UNCHANGED <<storeVars, serverVars, loggedOut>>

\* Five seconds of polling.
LockTimeout(p) ==
  /\ At(p, "want") /\ tokenLock # NoProc
  /\ GiveUp(p)
  /\ UNCHANGED <<storeVars, serverVars, loggedOut>>

\* A version that does not reset the cache:
CompareCached(p) ==
  /\ At(p, "locked")
  /\ Goto(p, "ask")
  /\ UNCHANGED <<storeVars, serverVars, tokenLock, loggedOut>>

\* Under the lock: a token somebody else has fetched meanwhile is adopted;
\* none, or one as old as ours, is no reason to stop.
CompareStored(p) ==
  /\ At(p, "locked")
  /\ IF Fresh(Stored)
     THEN /\ proc' = [proc EXCEPT ![p].mem = Stored, ![p].at = Refreshed(p)]
          /\ Unlock(p)
     ELSE Goto(p, "ask") /\ UNCHANGED tokenLock
  /\ UNCHANGED <<storeVars, serverVars, loggedOut>>

Issue(p, u) ==
  /\ issued < MaxTokens
  /\ issued' = issued + 1
  /\ holder' = [holder EXCEPT ![issued'] = u]
  /\ proc' = [proc EXCEPT ![p].mem = issued', ![p].at = "saveEntry"]
  /\ UNCHANGED age

\* The request carries the refresh token in memory, not the one just read.
RefreshAccepted(p) ==
  /\ At(p, "ask") /\ age[proc[p].mem] # "dead"
  /\ Issue(p, holder[proc[p].mem])
  /\ UNCHANGED <<storeVars, tokenLock, loggedOut>>

\* Refused, or no answer by proxy and without: the same path.
RefreshFails(p) ==
  /\ At(p, "ask")
  /\ BeginClear(p)
  /\ UNCHANGED <<storeVars, serverVars, tokenLock, loggedOut>>

-----------------------------------------------------------------------------
\* SaveUserConfig: the entry, then config.json; each may fail.

SaveEntry(p) ==
  /\ At(p, "saveEntry")
  /\ \/ /\ entry' = [entry EXCEPT ![holder[proc[p].mem]] = proc[p].mem]
        /\ Goto(p, "saveMeta")
        /\ UNCHANGED tokenLock
     \/ GiveUp(p) /\ UNCHANGED entry
  /\ UNCHANGED <<active, serverVars, loggedOut>>

SaveMeta(p) ==
  /\ At(p, "saveMeta")
  /\ \/ /\ active' = holder[proc[p].mem]
        /\ IF proc[p].role = "login"
           THEN /\ loggedOut' = loggedOut \ {active'}
                /\ GiveUp(p)
           ELSE /\ Goto(p, Refreshed(p)) /\ Unlock(p)
                /\ UNCHANGED loggedOut
     \/ GiveUp(p) /\ UNCHANGED <<active, loggedOut>>
  /\ UNCHANGED <<entry, serverVars>>

-----------------------------------------------------------------------------
\* auth login, under the lock.

AlreadySignedIn(p) ==
  /\ At(p, "signedIn")
  /\ IF Stored # 0 /\ age[Stored] # "dead"
     THEN GiveUp(p)
     ELSE Goto(p, "poll") /\ UNCHANGED tokenLock
  /\ UNCHANGED <<storeVars, serverVars, loggedOut>>

\* Poll until a user authorizes, at most five minutes.
Authorized(p, u) ==
  /\ At(p, "poll")
  /\ Issue(p, u)
  /\ UNCHANGED <<storeVars, tokenLock, loggedOut>>

PollTimeout(p) ==
  /\ At(p, "poll")
  /\ GiveUp(p)
  /\ UNCHANGED <<storeVars, serverVars, loggedOut>>

-----------------------------------------------------------------------------
\* What a token is fetched for.

\* The rest-proxy: an answer, an error that is not retried, or the gateway
\* takes the token for expired.
RequestAnswered(p) ==
  /\ At(p, "request")
  /\ GiveUp(p)
  /\ UNCHANGED <<storeVars, serverVars, loggedOut>>

TokenExpired(p) ==
  /\ At(p, "request")
  /\ BeginClear(p)
  /\ UNCHANGED <<storeVars, serverVars, tokenLock, loggedOut>>

\* A version that trusts the memory of the daemon:
TrustMemory(p) ==
  /\ At(p, "reread")
  /\ Goto(p, "serve")
  /\ UNCHANGED <<storeVars, serverVars, tokenLock, loggedOut>>

\* The token provider reads the store again, whatever RefreshToken did.
RereadStore(p) ==
  /\ At(p, "reread")
  /\ IF Stored = 0 THEN GiveUp(p)
     ELSE /\ proc' = [proc EXCEPT ![p].mem = Stored, ![p].at = "serve"]
          /\ UNCHANGED tokenLock
  /\ UNCHANGED <<storeVars, serverVars, loggedOut>>

\* The gateway refuses the token of the session: onAuthFailed, and the end.
GatewayRefuses(p) ==
  /\ At(p, "serve") /\ proc[p].mem # 0
  /\ BeginClear(p)
  /\ UNCHANGED <<storeVars, serverVars, tokenLock, loggedOut>>

-----------------------------------------------------------------------------
\* ClearUserConfig, and without the hooks ClearUserConfigUnResource.

ClearRead(p) ==
  /\ At(p, "clear")
  /\ proc' = [proc EXCEPT ![p].target = active,
       ![p].at = IF active = NoUser THEN "clearMeta"
                 ELSE IF proc[p].role = "bus" THEN "clearEntry" ELSE "hooks"]
  /\ UNCHANGED <<storeVars, serverVars, tokenLock, loggedOut>>

\* OnUserCleared ends the bus of that account, wherever it is, or fails and
\* leaves everything as it was; Lifecycle has the details.  `auth logout` then
\* tries again, up to three times.
RunHooks(p) ==
  /\ At(p, "hooks")
  /\ \/ LET owned == {q \in Procs : proc[q].role = "bus" /\ proc[q].owner = proc[p].target}
        IN /\ proc' = [q \in Procs |->
                         IF q = p THEN [proc[q] EXCEPT !.at = "clearEntry"]
                         ELSE IF q \in owned THEN Off
                         ELSE proc[q]]
           /\ tokenLock' = IF tokenLock \in owned THEN NoProc ELSE tokenLock
     \/ proc[p].role = "logout" /\ Goto(p, "clear") /\ UNCHANGED tokenLock
     \/ GiveUp(p)
  /\ UNCHANGED <<storeVars, serverVars, loggedOut>>

\* A removal that fails is reported, but config.json goes all the same.
ClearEntry(p) ==
  /\ At(p, "clearEntry")
  /\ \/ /\ entry' = [entry EXCEPT ![proc[p].target] = 0]
        /\ proc' = [proc EXCEPT ![p].at = "clearMeta", ![p].target = NoUser]
     \/ Goto(p, "clearMeta") /\ UNCHANGED entry
  /\ UNCHANGED <<active, serverVars, tokenLock, loggedOut>>

\* `auth logout` repeats what has failed; without config.json there is then
\* nothing left to do.
ClearMeta(p) ==
  /\ At(p, "clearMeta")
  /\ active' = NoUser
  /\ \/ /\ proc[p].target = NoUser \/ proc[p].role # "logout"
        /\ loggedOut' = IF proc[p].role = "logout" THEN loggedOut \union {proc[p].owner}
                        ELSE loggedOut
        /\ GiveUp(p)
     \/ /\ proc[p].target # NoUser /\ proc[p].role = "logout"
        /\ Goto(p, "clear") /\ UNCHANGED <<tokenLock, loggedOut>>
  /\ UNCHANGED <<entry, serverVars>>

-----------------------------------------------------------------------------
Crash(p) ==
  /\ ~At(p, "off")
  /\ GiveUp(p)
  /\ UNCHANGED <<storeVars, serverVars, loggedOut>>

Expire(t) ==
  /\ t <= issued
  /\ \/ age[t] = "fresh" /\ age' = [age EXCEPT ![t] = "old"]
     \/ age[t] = "old" /\ age' = [age EXCEPT ![t] = "dead"]
  /\ UNCHANGED <<storeVars, issued, holder, tokenLock, proc, loggedOut>>

\* What process p does of its own accord, once started.
Step(p) ==
  \/ PreCheck(p) \/ ProvideToken(p) \/ CheckExpiry(p) \/ Acquire(p) \/ LockTimeout(p)
  \/ CompareStored(p) \/ RefreshAccepted(p) \/ RefreshFails(p)
  \/ SaveEntry(p) \/ SaveMeta(p)
  \/ AlreadySignedIn(p) \/ PollTimeout(p) \/ \E u \in Users : Authorized(p, u)
  \/ RequestAnswered(p) \/ TokenExpired(p) \/ RereadStore(p)
  \/ ClearRead(p) \/ RunHooks(p) \/ ClearEntry(p) \/ ClearMeta(p)

CredentialsNext ==
  \/ \E p \in Procs : \/ \E r \in RolesOf[p] : Start(p, r)
                      \/ Step(p) \/ GatewayRefuses(p) \/ Crash(p)
  \/ \E t \in Tokens : Expire(t)

\* A process that runs makes progress: the waits for the lock, for an answer
\* and for the user all have deadlines, and heartbeats keep coming.
CredentialsFairness == \A p \in Procs : WF_credVars(Step(p))

CredentialsSpec == CredentialsInit /\ [][CredentialsNext]_credVars /\ CredentialsFairness

-----------------------------------------------------------------------------
\* Properties.

Places == {"off", "check", "serve", "refresh", "want", "locked", "ask",
           "saveEntry", "saveMeta", "signedIn", "poll", "request", "reread",
           "clear", "hooks", "clearEntry", "clearMeta"}

\* The types of the variables.
CredentialsTypeOK ==
  /\ active \in Users \union {NoUser}
  /\ entry \in [Users -> 0..MaxTokens]
  /\ issued \in 0..MaxTokens
  /\ holder \in [Tokens -> Users \union {NoUser}]
  /\ age \in [Tokens -> Ages]
  /\ tokenLock \in Procs \union {NoProc}
  /\ proc \in [Procs -> [role : Roles, at : Places, mem : 0..MaxTokens,
                         owner : Users \union {NoUser}, target : Users \union {NoUser}]]
  /\ loggedOut \subseteq Users \union {NoUser}

\* One process at a time asks for a new token, and only if the store has none
\* that would do: two that find the token expired do not both rotate it.
AsksOnlyIfStale ==
  \A p \in Procs : At(p, "ask") => Holding(p) /\ ~Fresh(Stored)

\* A bus whose user has logged out, by whatever command and in whatever order
\* with its own refreshing, does not live on in memory: it ends, unless
\* somebody logs in again.
BusNoticesLogout ==
  \A p \in Procs :
    proc[p].role = "bus" /\ At(p, "serve") /\ proc[p].mem # 0 /\ Stored = 0
      ~> At(p, "off") \/ Stored # 0

\* The logout command promises to "clear local authentication credentials"
\* (cmd/auth/logout.go:26): the account it has cleared is not logged in again
\* before somebody logs in.
LogoutSticks == active \in loggedOut => Stored = 0
=============================================================================
