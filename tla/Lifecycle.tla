----------------------------- MODULE Lifecycle -----------------------------
(***************************************************************************)
(* The processes of the event subsystem and what they share on disk:       *)
(* daemons (`event _bus`) that consumers fork, start, serve, end or are    *)
(* killed, and the commands that stop them, `event stop` and the cleanup   *)
(* of `auth logout`.  Shared are two flocks, bus.fork.lock, held by a      *)
(* daemon for its whole run, and bus.alive.lock, held while it is "the"    *)
(* bus and tried for a moment by every probe; and three files, bus.pid,    *)
(* bus.meta and bus.sock, which name the daemon that wrote or bound them.  *)
(*                                                                         *)
(* The kernel drops the locks of a process that dies, never its files.     *)
(* A process may be slow at any point, so a timeout may fire at any poll.  *)
(***************************************************************************)
EXTENDS Naturals, FiniteSets

CONSTANTS
  Buses,     \* the daemon processes
  Commands,  \* runs of `event stop` or `auth logout`
  Accounts,  \* the users
  None       \* no process: a free lock, a missing file

ASSUME LifecycleAssumption ==
  /\ Buses \intersect Commands = {}
  /\ None \notin Buses \union Commands

VARIABLES
  pc,        \* pc[b]: how far daemon b is
  owner,     \* owner[b]: the account it was started for
  fork,      \* the holder of bus.fork.lock
  alive,     \* the holder of bus.alive.lock
  tried,     \* whether bus.alive.lock exists: somebody tried it before
  pidFile, metaFile, sock,  \* the daemon each file names
  cmd,       \* cmd[c]: the progress of command c
  scrubbed   \* history: daemons that were running when a command removed files

busVars == <<pc, owner, fork>>
files == <<pidFile, metaFile, sock>>
vars == <<busVars, alive, tried, files, cmd, scrubbed>>

\* The steps of a daemon, in order.
Phases == {"absent", "forked", "locked", "claimed", "named", "described",
           "serving", "closing", "releasing", "released", "gone"}

Idle == [kind |-> "none", pc |-> "idle", force |-> FALSE, account |-> None,
         meta |-> None, seen |-> None, target |-> None, result |-> "none"]

Init ==
  /\ pc = [b \in Buses |-> "absent"]
  /\ owner = [b \in Buses |-> None]
  /\ fork = None /\ alive = None /\ tried = FALSE
  /\ pidFile = None /\ metaFile = None /\ sock = None
  /\ cmd = [c \in Commands |-> Idle]
  /\ scrubbed = {}

\* A dial of bus.sock succeeds: the inode is bound by a daemon that listens.
Reachable == sock # None /\ pc[sock] = "serving"

Running(b) == pc[b] \notin {"absent", "gone"}

-----------------------------------------------------------------------------
\* A daemon.

\* EnsureBus: the ping failed.  Several consumers may fork, and the daemon may
\* get to run much later.
Fork(b, u) ==
  /\ pc[b] = "absent" /\ ~Reachable
  /\ pc' = [pc EXCEPT ![b] = "forked"]
  /\ owner' = [owner EXCEPT ![b] = u]
  /\ UNCHANGED <<fork, alive, tried, files, cmd, scrubbed>>

\* A daemon that does without the fork lock.
AwaitNobody(b) ==
  /\ pc[b] = "forked"
  /\ fork' = b
  /\ pc' = [pc EXCEPT ![b] = "locked"]
  /\ UNCHANGED <<owner, alive, tried, files, cmd, scrubbed>>

\* filelock.WithLock: polls until the lock is free, for at most five seconds.
AwaitFork(b) ==
  /\ pc[b] = "forked" /\ fork = None
  /\ fork' = b
  /\ pc' = [pc EXCEPT ![b] = "locked"]
  /\ UNCHANGED <<owner, alive, tried, files, cmd, scrubbed>>

ForkTimesOut(b) ==
  /\ pc[b] = "forked" /\ fork # None
  /\ pc' = [pc EXCEPT ![b] = "gone"]
  /\ UNCHANGED <<owner, fork, alive, tried, files, cmd, scrubbed>>

\* Giving up with the fork lock left behind, and going on without the alive lock.
TakeAliveKeepsFork(b) ==
  /\ pc[b] = "locked"
  /\ tried' = TRUE
  /\ IF alive = None
     THEN alive' = b /\ pc' = [pc EXCEPT ![b] = "claimed"]
     ELSE pc' = [pc EXCEPT ![b] = "gone"] /\ UNCHANGED alive
  /\ UNCHANGED <<owner, fork, files, cmd, scrubbed>>

TakeAliveRegardless(b) ==
  /\ pc[b] = "locked"
  /\ tried' = TRUE
  /\ alive' = IF alive = None THEN b ELSE alive
  /\ pc' = [pc EXCEPT ![b] = "claimed"]
  /\ UNCHANGED <<owner, fork, files, cmd, scrubbed>>

\* WritePIDFile, the lock: whoever holds it, the daemon gives up and leaves.
TakeAlive(b) ==
  /\ pc[b] = "locked"
  /\ tried' = TRUE
  /\ IF alive = None
     THEN /\ alive' = b
          /\ pc' = [pc EXCEPT ![b] = "claimed"]
          /\ UNCHANGED fork
     ELSE /\ pc' = [pc EXCEPT ![b] = "gone"]
          /\ fork' = None
          /\ UNCHANGED alive
  /\ UNCHANGED <<owner, files, cmd, scrubbed>>

\* WritePIDFile, the file: renamed over whatever was there.
WritePid(b) ==
  /\ pc[b] = "claimed"
  /\ pidFile' = b
  /\ pc' = [pc EXCEPT ![b] = "named"]
  /\ UNCHANGED <<owner, fork, alive, tried, metaFile, sock, cmd, scrubbed>>

WriteMeta(b) ==
  /\ pc[b] = "named"
  /\ metaFile' = b
  /\ pc' = [pc EXCEPT ![b] = "described"]
  /\ UNCHANGED <<owner, fork, alive, tried, pidFile, sock, cmd, scrubbed>>

\* A socket file that answers ends the run; one that does not is unlinked
\* and bound again.
Listen(b) ==
  /\ pc[b] = "described"
  /\ IF Reachable
     THEN pc' = [pc EXCEPT ![b] = "closing"] /\ UNCHANGED sock
     ELSE pc' = [pc EXCEPT ![b] = "serving"] /\ sock' = b
  /\ UNCHANGED <<owner, fork, alive, tried, pidFile, metaFile, cmd, scrubbed>>

\* Writing the pid file, the meta file or binding (the socket file is unlinked
\* by then) fails: the deferred calls of what was done so far run.
StartFails(b) ==
  /\ pc[b] \in {"claimed", "named", "described"}
  /\ pc[b] = "described" => ~Reachable
  /\ sock' = IF pc[b] = "described" THEN None ELSE sock
  /\ alive' = IF pc[b] = "claimed" THEN None ELSE alive
  /\ fork' = IF pc[b] = "claimed" THEN None ELSE fork
  /\ pc' = [pc EXCEPT ![b] = CASE pc[b] = "claimed" -> "gone"
                               [] pc[b] = "named" -> "releasing"
                               [] OTHER -> "closing"]
  /\ UNCHANGED <<owner, tried, pidFile, metaFile, cmd, scrubbed>>

\* The main loop ends, for a Shutdown frame, idleness, a signal or the source;
\* closing the listener unlinks its path, whoever bound it last.
Stop(b) ==
  /\ pc[b] = "serving"
  /\ sock' = None
  /\ pc' = [pc EXCEPT ![b] = "closing"]
  /\ UNCHANGED <<owner, fork, alive, tried, pidFile, metaFile, cmd, scrubbed>>

\* Connections are shut down; then the deferred calls: bus.meta,
RemoveMeta(b) ==
  /\ pc[b] = "closing"
  /\ metaFile' = None
  /\ pc' = [pc EXCEPT ![b] = "releasing"]
  /\ UNCHANGED <<owner, fork, alive, tried, pidFile, sock, cmd, scrubbed>>

\* the alive lock,
ReleaseAlive(b) ==
  /\ pc[b] = "releasing"
  /\ alive' = None
  /\ pc' = [pc EXCEPT ![b] = "released"]
  /\ UNCHANGED <<owner, fork, tried, files, cmd, scrubbed>>

\* bus.pid, and with the return of WithLock's function the fork lock.
RemovePid(b) ==
  /\ pc[b] = "released"
  /\ pidFile' = None
  /\ fork' = None
  /\ pc' = [pc EXCEPT ![b] = "gone"]
  /\ UNCHANGED <<owner, alive, tried, metaFile, sock, cmd, scrubbed>>

\* What the kernel does with the locks of b.
Dies(b) ==
  /\ pc' = [pc EXCEPT ![b] = "gone"]
  /\ fork' = IF fork = b THEN None ELSE fork
  /\ alive' = IF alive = b THEN None ELSE alive

Crash(b) ==
  /\ Running(b)
  /\ Dies(b)
  /\ UNCHANGED <<owner, tried, files, cmd, scrubbed>>

-----------------------------------------------------------------------------
\* Commands.  Goes(c, r) is the bookkeeping of a step that ends with r.

Goes(c, r) == cmd' = [cmd EXCEPT ![c] = r]
At(c, step) == [cmd[c] EXCEPT !.pc = step]
Ends(c, verdict) == [cmd[c] EXCEPT !.pc = "done", !.result = verdict]

\* Files and locks as they are.
NothingShared == UNCHANGED <<busVars, alive, tried, files, scrubbed>>

\* u is the user that is logged in, or None.
StartStop(c, u, force) ==
  /\ cmd[c].pc = "idle"
  /\ Goes(c, [Idle EXCEPT !.kind = "stop", !.pc = "scan", !.force = force,
                          !.account = u])
  /\ NothingShared

StartLogout(c, u) ==
  /\ cmd[c].pc = "idle"
  /\ Goes(c, [Idle EXCEPT !.kind = "logout", !.pc = "owner", !.account = u])
  /\ NothingShared

\* The probes: Scan, aliveLockHeld and aliveLockProbe.  What follows when the
\* lock was free, and when it was held.
Probes == {"scan", "confirm", "check"}

AfterFree(c) ==
  CASE cmd[c].pc = "scan" -> At(c, "dead")
    [] cmd[c].pc = "confirm" /\ (cmd[c].kind = "stop" \/ cmd[c].seen = None) ->
         Ends(c, "stopped")
    [] OTHER -> At(c, "scrub")

\* seen is history but for logout, where it tells that the kill was reached.
AfterHeld(c) ==
  CASE cmd[c].pc = "scan" -> [At(c, "live") EXCEPT !.seen = alive]
    [] cmd[c].pc = "confirm" -> At(c, "wait")
    [] OTHER -> [At(c, "kill") EXCEPT !.seen = alive]

\* Scan leaves a lock file alone that does not exist yet.
ProbeSkips(c) ==
  /\ cmd[c].pc = "scan" /\ ~tried
  /\ Goes(c, AfterFree(c))
  /\ NothingShared

ProbeTakes(c) ==
  /\ cmd[c].pc \in Probes /\ (cmd[c].pc = "scan" => tried)
  /\ alive = None
  /\ alive' = c /\ tried' = TRUE
  /\ UNCHANGED <<busVars, files, cmd, scrubbed>>

ProbeReleases(c) ==
  /\ alive = c
  /\ alive' = None
  /\ Goes(c, AfterFree(c))
  /\ UNCHANGED <<busVars, tried, files, scrubbed>>

ProbeFails(c) ==
  /\ cmd[c].pc \in Probes
  /\ alive \notin {None, c}
  /\ Goes(c, AfterHeld(c))
  /\ NothingShared

\* computeBusView: without a live bus the meta file decides.
ReadLeftovers(c) ==
  /\ cmd[c].pc = "dead"
  /\ Goes(c, IF metaFile = None THEN Ends(c, "no_bus")
             ELSE IF cmd[c].force THEN At(c, "scrub") ELSE Ends(c, "refused"))
  /\ NothingShared

\* liveBusView: bus.meta is read first,
ReadMeta(c) ==
  /\ cmd[c].pc = "live"
  /\ Goes(c, [At(c, "query") EXCEPT !.meta = metaFile])
  /\ NothingShared

\* then the bus is asked; without force an unknown or foreign owner, or
\* consumers, refuse the stop.
QueryStatus(c) ==
  /\ cmd[c].pc = "query"
  /\ LET daemon == IF cmd[c].meta = None /\ Reachable THEN sock ELSE cmd[c].meta
         own == daemon # None /\ owner[daemon] = cmd[c].account
     IN \E busy \in IF Reachable THEN BOOLEAN ELSE {FALSE} :
          Goes(c, IF cmd[c].force \/ (own /\ ~busy) THEN At(c, "send")
                  ELSE Ends(c, "refused"))
  /\ NothingShared

\* OnUserCleared: the bus of another account is left alone.
CheckOwner(c) ==
  /\ cmd[c].pc = "owner"
  /\ Goes(c, IF metaFile # None /\ owner[metaFile] # cmd[c].account
             THEN Ends(c, "spared")
             ELSE [At(c, "send") EXCEPT !.meta = metaFile])
  /\ NothingShared

\* busctl.SendShutdown; the daemon handles the frame when it gets to it (Stop).
SendShutdown(c) ==
  /\ cmd[c].pc = "send"
  /\ Goes(c, IF Reachable THEN [At(c, "wait") EXCEPT !.target = sock]
             ELSE IF cmd[c].kind = "stop" THEN Ends(c, "exited") ELSE At(c, "check"))
  /\ NothingShared

\* A poll that trusts the ping.
PingSuffices(c) ==
  /\ cmd[c].pc = "wait" /\ ~Reachable
  /\ Goes(c, IF cmd[c].kind = "stop" \/ cmd[c].seen = None THEN Ends(c, "stopped")
             ELSE At(c, "scrub"))
  /\ NothingShared

\* A poll: the ping fails, and the alive lock has to be free as well.
PingFails(c) ==
  /\ cmd[c].pc = "wait" /\ ~Reachable
  /\ Goes(c, At(c, "confirm"))
  /\ NothingShared

\* The deadline of the polls: stop scrubs if forced; logout looks at the lock,
\* and after a kill reports that the bus is still there.
WaitTimesOut(c) ==
  /\ cmd[c].pc = "wait"
  /\ Goes(c, IF cmd[c].kind = "stop" /\ cmd[c].force THEN At(c, "scrub")
             ELSE IF cmd[c].kind # "stop" /\ cmd[c].seen = None THEN At(c, "check")
             ELSE Ends(c, "errored"))
  /\ NothingShared

\* killBusByPID: the pid of the meta that was read, or else of bus.pid now.
Kill(c) ==
  /\ cmd[c].pc = "kill"
  /\ LET victim == IF cmd[c].meta # None THEN cmd[c].meta ELSE pidFile
     IN IF victim # None /\ Running(victim)
        THEN Dies(victim) ELSE UNCHANGED <<pc, fork, alive>>
  /\ Goes(c, At(c, "wait"))
  /\ UNCHANGED <<owner, tried, files, scrubbed>>

\* runForceCleanup and scrubBusArtefacts: the files go, whomever they name.
\* (Three removals one after the other, taken as one.)
Scrub(c) ==
  /\ cmd[c].pc = "scrub"
  /\ pidFile' = None /\ metaFile' = None /\ sock' = None
  /\ scrubbed' = scrubbed \union {b \in Buses : Running(b)}
  /\ Goes(c, Ends(c, "scrubbed"))
  /\ UNCHANGED <<busVars, alive, tried>>

-----------------------------------------------------------------------------
Daemon(b) ==
  \/ AwaitFork(b) \/ ForkTimesOut(b)
  \/ TakeAlive(b) \/ WritePid(b) \/ WriteMeta(b) \/ Listen(b) \/ StartFails(b)
  \/ Stop(b) \/ RemoveMeta(b) \/ ReleaseAlive(b) \/ RemovePid(b)

Command(c) ==
  \/ ProbeSkips(c) \/ ProbeTakes(c) \/ ProbeReleases(c) \/ ProbeFails(c)
  \/ ReadLeftovers(c) \/ ReadMeta(c) \/ QueryStatus(c) \/ CheckOwner(c)
  \/ SendShutdown(c) \/ PingFails(c) \/ WaitTimesOut(c) \/ Kill(c) \/ Scrub(c)

Next ==
  \/ \E b \in Buses : Daemon(b) \/ Crash(b)
  \/ \E b \in Buses, u \in Accounts : Fork(b, u)
  \/ \E c \in Commands : Command(c)
  \/ \E c \in Commands, u \in Accounts : StartLogout(c, u)
  \/ \E c \in Commands, u \in Accounts \union {None}, force \in BOOLEAN :
       StartStop(c, u, force)

Spec == Init /\ [][Next]_vars

-----------------------------------------------------------------------------
Processes == Buses \union Commands \union {None}

CommandRecords ==
  [kind : {"none", "stop", "logout"},
   pc : {"idle", "scan", "dead", "live", "query", "owner", "send", "wait",
         "confirm", "check", "kill", "scrub", "done"},
   force : BOOLEAN, account : Accounts \union {None},
   meta : Buses \union {None}, seen : Processes, target : Buses \union {None},
   result : {"none", "no_bus", "refused", "spared", "exited", "errored",
             "stopped", "scrubbed"}]

TypeOK ==
  /\ pc \in [Buses -> Phases]
  /\ owner \in [Buses -> Accounts \union {None}]
  /\ fork \in {None} \union {b \in Buses : Running(b)}
  /\ alive \in Processes /\ tried \in BOOLEAN
  /\ {pidFile, metaFile, sock} \subseteq Buses \union {None}
  /\ cmd \in [Commands -> CommandRecords]
  /\ scrubbed \subseteq Buses

\* The bus is unique: a daemon about to listen finds nobody accepting, and
\* whoever accepts connections, or has not yet put its files in order, holds
\* the alive lock, whatever crashed before it and whatever probes.
ListenerAlone ==
  \A b \in Buses :
    /\ pc[b] = "described" => ~Reachable
    /\ pc[b] \in {"described", "serving", "closing"} => alive = b

\* A serving bus can be found: the pid, the meta and the socket file are its
\* own, although its predecessor removes files by their path on the way out
\* and a dead one left its own behind; only a command's scrub takes them away.
ServingOwnsFiles ==
  \A b \in Buses :
    pc[b] = "serving" /\ b \notin scrubbed =>
      pidFile = b /\ metaFile = b /\ sock = b

\* A command that waited and reports the bus stopped, or cleans up behind it,
\* is right: the daemon it talked to, and the one it saw holding the lock
\* when it looked, have let go of the alive lock (a process that was only
\* probing does not count).
ReportedGoneIsGone ==
  \A c \in Commands :
    cmd[c].result = "stopped"
    \/ (cmd[c].result = "scrubbed" /\ cmd[c].kind = "logout") =>
      \A b \in {cmd[c].seen, cmd[c].target} \intersect Buses :
        pc[b] \in {"released", "gone"}

\* What stop.go says of a Shutdown that finds nobody: that the bus which held
\* the lock at the probe has exited meanwhile.
UnreachableHasExited ==
  \A c \in Commands :
    cmd[c].result = "exited" /\ cmd[c].seen \in Buses =>
      pc[cmd[c].seen] \in {"released", "gone"}
=============================================================================
