-------------------------- MODULE LifecycleProofs --------------------------
(***************************************************************************)
(* Theorems about Lifecycle, for any number of daemons, commands and       *)
(* accounts.  The inductive invariant adds to the properties that a lock   *)
(* is held by exactly the daemon whose progress says so, and that each     *)
(* file a daemon wrote is still its own.                                   *)
(***************************************************************************)
EXTENDS Lifecycle, TLAPS

\* Where a daemon is inside WithLock's function, and where it is "the" bus.
HoldsFork == {"locked", "claimed", "named", "described", "serving", "closing",
              "releasing", "released"}
HoldsAlive == {"claimed", "named", "described", "serving", "closing", "releasing"}

DaemonTypes ==
  /\ pc \in [Buses -> Phases]
  /\ owner \in [Buses -> Accounts \union {None}]
  /\ fork \in Buses \union {None}
  /\ alive \in Processes
  /\ pidFile \in Buses \union {None} /\ metaFile \in Buses \union {None}
  /\ sock \in Buses \union {None} /\ scrubbed \subseteq Buses

LocksMatchPhases ==
  \A b \in Buses :
    /\ fork = b <=> pc[b] \in HoldsFork
    /\ alive = b <=> pc[b] \in HoldsAlive

\* What a daemon that no scrub met has written is there.
FilesMatchPhases ==
  \A b \in Buses \ scrubbed :
    /\ pc[b] \in {"named", "described", "serving"} => pidFile = b
    /\ pc[b] \in {"described", "serving"} => metaFile = b
    /\ pc[b] = "serving" => sock = b

DaemonInv == DaemonTypes /\ LocksMatchPhases /\ FilesMatchPhases

CommandTypes == cmd \in [Commands -> CommandRecords] /\ tried \in BOOLEAN

\* A command that ended with "stopped", and a logout that is about to clean up
\* or did, have seen the lock free.
Concluded(r) ==
  r.result = "stopped" \/ (r.kind = "logout" /\ (r.pc = "scrub" \/ r.result = "scrubbed"))

\* The daemons a command has seen were the bus; those of one that concluded
\* are not any more.
SeenFits(r) ==
  \A b \in {r.seen, r.target} \intersect Buses :
    /\ pc[b] \in HoldsAlive \union {"released", "gone"}
    /\ Concluded(r) => pc[b] \in {"released", "gone"}

SeenMatchPhases == \A c \in Commands : SeenFits(cmd[c])

\* Scanning is what a stop does, a result ends a command, and the lock is
\* held by a command only inside a probe.
PhaseFits(r) ==
  /\ r.pc \in {"scan", "dead", "live", "query"} => r.kind = "stop"
  /\ r.result # "none" => r.pc = "done"

CommandPhases ==
  \A c \in Commands :
    PhaseFits(cmd[c]) /\ (alive = c => cmd[c].pc \in Probes /\ tried)

CommandInv == CommandTypes /\ SeenMatchPhases /\ CommandPhases

LifecycleInv == DaemonInv /\ CommandInv

LEMMA Distinct ==
  /\ None \notin Buses /\ None \notin Commands
  /\ \A c \in Commands : c \notin Buses
BY LifecycleAssumption

\* The steps of a daemon.  Only the holder of the fork lock touches locks and
\* files, so that nobody else's are disturbed.
LEMMA DaemonKeepsDaemonInv ==
  ASSUME DaemonInv, NEW b \in Buses, Daemon(b) \/ Crash(b)
  PROVE  DaemonInv'
<1> USE Distinct
    DEF DaemonInv, DaemonTypes, LocksMatchPhases, FilesMatchPhases, HoldsFork,
        HoldsAlive, Phases, Processes, files
<1>1. CASE AwaitFork(b)
  BY <1>1 DEF AwaitFork
<1>2. CASE ForkTimesOut(b)
  BY <1>2 DEF ForkTimesOut
<1>3. CASE TakeAlive(b)
  BY <1>3 DEF TakeAlive
<1>4. CASE WritePid(b)
  BY <1>4 DEF WritePid
<1>5. CASE WriteMeta(b)
  BY <1>5 DEF WriteMeta
<1>6. CASE Listen(b)
  BY <1>6 DEF Listen, Reachable
<1>7. CASE StartFails(b)
  BY <1>7 DEF StartFails, Reachable
<1>8. CASE Stop(b)
  BY <1>8 DEF Stop
<1>9. CASE RemoveMeta(b)
  BY <1>9 DEF RemoveMeta
<1>10. CASE ReleaseAlive(b)
  BY <1>10 DEF ReleaseAlive
<1>11. CASE RemovePid(b)
  BY <1>11 DEF RemovePid
<1>12. CASE Crash(b)
  BY <1>12 DEF Crash, Dies, Running
<1> QED
  BY <1>1, <1>2, <1>3, <1>4, <1>5, <1>6, <1>7, <1>8, <1>9, <1>10, <1>11, <1>12 DEF Daemon

\* What commands do to locks and files: a probe holds the alive lock only when
\* no daemon does, a scrub is remembered, and a killed daemon lets go.
LEMMA CommandKeepsDaemonInv ==
  ASSUME DaemonInv, CommandTypes, NEW c \in Commands, Command(c)
  PROVE  DaemonInv'
<1> USE Distinct
    DEF DaemonInv, DaemonTypes, LocksMatchPhases, FilesMatchPhases, HoldsFork,
        HoldsAlive, Phases, Processes, files, busVars, NothingShared
<1>1. CASE ProbeTakes(c)
  BY <1>1 DEF ProbeTakes
<1>2. CASE ProbeReleases(c)
  BY <1>2 DEF ProbeReleases
<1>3. CASE Kill(c)
  <2>1. cmd[c].meta \in Buses \union {None}
    BY DEF CommandTypes, CommandRecords
  <2> QED
    BY <1>3, <2>1 DEF Kill, Dies, Running
<1>4. CASE Scrub(c)
  BY <1>4 DEF Scrub, Running
<1>5. CASE NothingShared
  BY <1>5
<1> QED
  BY <1>1, <1>2, <1>3, <1>4, <1>5
     DEF Command, ProbeSkips, ProbeFails, ReadLeftovers, ReadMeta, QueryStatus,
         CheckOwner, SendShutdown, PingFails, WaitTimesOut

LEMMA StartsKeepDaemonInv ==
  ASSUME DaemonInv,
         \/ \E b \in Buses, u \in Accounts : Fork(b, u)
         \/ \E c \in Commands, u \in Accounts : StartLogout(c, u)
         \/ \E c \in Commands, u \in Accounts \union {None}, force \in BOOLEAN :
              StartStop(c, u, force)
         \/ UNCHANGED vars
  PROVE  DaemonInv'
<1> USE Distinct
    DEF DaemonInv, DaemonTypes, LocksMatchPhases, FilesMatchPhases, HoldsFork,
        HoldsAlive, Phases, Processes, files, busVars, NothingShared
<1>1. ASSUME NEW b \in Buses, NEW u \in Accounts, Fork(b, u)
      PROVE  DaemonInv'
  BY <1>1 DEF Fork
<1>2. CASE NothingShared
  BY <1>2
<1>3. CASE UNCHANGED vars
  BY <1>3 DEF vars
<1> QED
  BY <1>1, <1>2, <1>3 DEF StartLogout, StartStop

-----------------------------------------------------------------------------
\* The steps of daemons never take one back before it was the bus.
LEMMA DaemonKeepsCommandInv ==
  ASSUME LifecycleInv, NEW b \in Buses,
         Daemon(b) \/ Crash(b) \/ \E u \in Accounts : Fork(b, u)
  PROVE  CommandInv'
<1>1. UNCHANGED cmd /\ tried' \in BOOLEAN /\ (tried => tried')
  BY DEF Daemon, AwaitFork, ForkTimesOut, TakeAlive, WritePid, WriteMeta, Listen,
         StartFails, Stop, RemoveMeta, ReleaseAlive, RemovePid, Crash, Fork,
         LifecycleInv, CommandInv, CommandTypes
<1>2. \A c \in Commands : alive' = c => alive = c
  BY Distinct
     DEF Daemon, AwaitFork, ForkTimesOut, TakeAlive, WritePid, WriteMeta, Listen,
         StartFails, Stop, RemoveMeta, ReleaseAlive, RemovePid, Crash, Dies, Fork,
         LifecycleInv, CommandInv, CommandTypes
<1>3. \A d \in Buses :
        /\ pc[d] \in HoldsAlive \union {"released", "gone"}
             => pc'[d] \in HoldsAlive \union {"released", "gone"}
        /\ pc[d] \in {"released", "gone"} => pc'[d] \in {"released", "gone"}
  BY DEF Daemon, AwaitFork, ForkTimesOut, TakeAlive, WritePid, WriteMeta, Listen,
         StartFails, Stop, RemoveMeta, ReleaseAlive, RemovePid, Crash, Dies, Fork,
         Running, LifecycleInv, DaemonInv, DaemonTypes, HoldsAlive
<1> QED
  BY <1>1, <1>2, <1>3
     DEF LifecycleInv, CommandInv, CommandTypes, SeenMatchPhases, SeenFits,
         CommandPhases, PhaseFits, Concluded

\* A step that leaves the daemons alone keeps the invariant if the command's new
\* record fits it, and the lock is not left with the command.
LEMMA RecordKeepsCommandInv ==
  ASSUME LifecycleInv, NEW c \in Commands, NEW r \in CommandRecords,
         Goes(c, r), UNCHANGED <<pc, tried>>,
         alive' = alive \/ alive' = None, alive' # c,
         SeenFits(r), PhaseFits(r)
  PROVE  CommandInv'
BY Distinct
   DEF LifecycleInv, CommandInv, CommandTypes, SeenMatchPhases, SeenFits,
       CommandPhases, PhaseFits, Concluded, Goes

\* The records that Goes is given keep what a command has seen.
LEMMA RecordOfAt ==
  ASSUME CommandTypes, NEW c \in Commands,
         NEW step \in {"dead", "live", "query", "send", "wait", "confirm",
                       "check", "kill", "scrub"}
  PROVE  /\ At(c, step) \in CommandRecords
         /\ At(c, step).pc = step /\ At(c, step).kind = cmd[c].kind
         /\ At(c, step).seen = cmd[c].seen /\ At(c, step).target = cmd[c].target
         /\ At(c, step).result = cmd[c].result
BY DEF CommandTypes, CommandRecords, At

LEMMA RecordOfEnds ==
  ASSUME CommandTypes, NEW c \in Commands,
         NEW verdict \in {"no_bus", "refused", "spared", "exited", "errored",
                          "stopped", "scrubbed"}
  PROVE  /\ Ends(c, verdict) \in CommandRecords
         /\ Ends(c, verdict).pc = "done" /\ Ends(c, verdict).kind = cmd[c].kind
         /\ Ends(c, verdict).seen = cmd[c].seen
         /\ Ends(c, verdict).target = cmd[c].target
         /\ Ends(c, verdict).result = verdict
BY ZenonT(60) DEF CommandTypes, CommandRecords, Ends

\* A probe that finds the lock free while it holds it concludes.
LEMMA FreeLockConcludes ==
  ASSUME LifecycleInv, NEW c \in Commands, alive = c \/ cmd[c].pc = "scan",
         cmd[c].pc \in Probes, cmd[c].result = "none"
  PROVE  AfterFree(c) \in CommandRecords /\ SeenFits(AfterFree(c))
         /\ PhaseFits(AfterFree(c))
<1> USE DEF LifecycleInv, CommandInv, CommandPhases, SeenMatchPhases, SeenFits,
            PhaseFits, Concluded, Probes
<1>1. CASE cmd[c].pc = "scan"
  <2>1. AfterFree(c) = At(c, "dead")
    BY <1>1 DEF AfterFree
  <2> QED
    BY <1>1, <2>1, RecordOfAt
<1>2. CASE cmd[c].pc # "scan"
  <2>1. \A b \in {cmd[c].seen, cmd[c].target} \intersect Buses :
          pc[b] \in {"released", "gone"}
    BY <1>2, Distinct DEF DaemonInv, LocksMatchPhases
  <2>2. AfterFree(c) \in {Ends(c, "stopped"), At(c, "scrub")}
    BY <1>2 DEF AfterFree
  <2> QED
    BY <2>1, <2>2, RecordOfAt, RecordOfEnds
<1> QED
  BY <1>1, <1>2

\* Commands: what a command has seen was the bus at that moment, and it
\* concludes from a free lock only.
LEMMA CommandKeepsCommandInv ==
  ASSUME LifecycleInv, NEW c \in Commands, Command(c)
  PROVE  CommandInv'
<1> USE DEF NothingShared, busVars, files
<1>a. /\ CommandTypes
      /\ SeenFits(cmd[c]) /\ PhaseFits(cmd[c])
      /\ alive = c => cmd[c].pc \in Probes /\ tried
      /\ cmd[c] \in CommandRecords
  BY DEF LifecycleInv, CommandInv, CommandTypes, SeenMatchPhases, CommandPhases
<1>b. cmd[c].pc # "done" => cmd[c].result = "none"
  BY <1>a DEF PhaseFits
<1>1. CASE ProbeSkips(c)
  BY <1>1, <1>a, <1>b, FreeLockConcludes, RecordKeepsCommandInv
     DEF ProbeSkips, Probes
<1>2. CASE ProbeTakes(c)
  BY <1>2, Distinct
     DEF ProbeTakes, LifecycleInv, CommandInv, CommandTypes, SeenMatchPhases,
         SeenFits, CommandPhases, PhaseFits, Concluded
<1>3. CASE ProbeReleases(c)
  BY <1>3, <1>a, <1>b, Distinct, FreeLockConcludes, RecordKeepsCommandInv
     DEF ProbeReleases, Probes
<1>4. CASE ProbeFails(c)
  <2>1. AfterHeld(c) \in CommandRecords
    <3>1. \A step \in {"live", "kill"} :
            [At(c, step) EXCEPT !.seen = alive] \in CommandRecords
      BY <1>a DEF CommandRecords, At, LifecycleInv, DaemonInv, DaemonTypes
    <3> QED
      BY <1>a, <3>1, RecordOfAt DEF AfterHeld
  <2>2. SeenFits(AfterHeld(c)) /\ PhaseFits(AfterHeld(c))
    BY <1>4, <1>a, <1>b
       DEF ProbeFails, AfterHeld, At, CommandRecords, SeenFits, PhaseFits, Probes,
           Concluded, LifecycleInv, DaemonInv, LocksMatchPhases
  <2> QED
    BY <1>4, <1>a, <2>1, <2>2, RecordKeepsCommandInv DEF ProbeFails
<1>5. CASE ReadLeftovers(c)
  <2>1. PICK r \in {Ends(c, "no_bus"), At(c, "scrub"), Ends(c, "refused")} :
          Goes(c, r)
    BY <1>5 DEF ReadLeftovers
  <2> QED
    BY <1>5, <1>a, <1>b, <2>1, RecordOfAt, RecordOfEnds, RecordKeepsCommandInv
       DEF ReadLeftovers, SeenFits, PhaseFits, Concluded, Probes
<1>6. CASE ReadMeta(c)
  <2>1. [At(c, "query") EXCEPT !.meta = metaFile] \in CommandRecords
    BY <1>a DEF At, CommandRecords, LifecycleInv, DaemonInv, DaemonTypes
  <2> QED
    BY <1>6, <1>a, <1>b, <2>1, RecordKeepsCommandInv
       DEF ReadMeta, At, CommandRecords, SeenFits, PhaseFits, Concluded, Probes
<1>7. CASE QueryStatus(c)
  <2>1. PICK r \in {At(c, "send"), Ends(c, "refused")} : Goes(c, r)
    BY <1>7 DEF QueryStatus
  <2> QED
    BY <1>7, <1>a, <1>b, <2>1, RecordOfAt, RecordOfEnds, RecordKeepsCommandInv
       DEF QueryStatus, SeenFits, PhaseFits, Concluded, Probes
<1>8. CASE CheckOwner(c)
  <2>1. CASE Goes(c, Ends(c, "spared"))
    BY <1>8, <1>a, <1>b, <2>1, RecordOfEnds, RecordKeepsCommandInv
       DEF CheckOwner, SeenFits, PhaseFits, Concluded, Probes
  <2>2. CASE Goes(c, [At(c, "send") EXCEPT !.meta = metaFile])
    <3>1. [At(c, "send") EXCEPT !.meta = metaFile] \in CommandRecords
      BY <1>a DEF At, CommandRecords, LifecycleInv, DaemonInv, DaemonTypes
    <3> QED
      BY <1>8, <1>a, <1>b, <2>2, <3>1, RecordKeepsCommandInv
         DEF CheckOwner, At, CommandRecords, SeenFits, PhaseFits, Concluded, Probes
  <2> QED
    BY <1>8, <2>1, <2>2 DEF CheckOwner
<1>9. CASE SendShutdown(c)
  <2>1. CASE Reachable /\ Goes(c, [At(c, "wait") EXCEPT !.target = sock])
    <3>1. [At(c, "wait") EXCEPT !.target = sock] \in CommandRecords
      BY <1>a DEF At, CommandRecords, LifecycleInv, DaemonInv, DaemonTypes
    <3> QED
      BY <1>9, <1>a, <1>b, <2>1, <3>1, RecordKeepsCommandInv
         DEF SendShutdown, At, CommandRecords, SeenFits, PhaseFits, Concluded,
             Probes, Reachable, HoldsAlive
  <2>2. CASE Goes(c, Ends(c, "exited")) \/ Goes(c, At(c, "check"))
    <3>1. PICK r \in {At(c, "check"), Ends(c, "exited")} : Goes(c, r)
      BY <2>2
    <3> QED
      BY <1>9, <1>a, <1>b, <3>1, RecordOfAt, RecordOfEnds, RecordKeepsCommandInv
         DEF SendShutdown, SeenFits, PhaseFits, Concluded, Probes
  <2> QED
    BY <1>9, <2>1, <2>2 DEF SendShutdown
<1>10. CASE PingFails(c)
  BY <1>10, <1>a, <1>b, RecordOfAt, RecordKeepsCommandInv
     DEF PingFails, SeenFits, PhaseFits, Concluded, Probes
<1>11. CASE WaitTimesOut(c)
  <2>1. PICK r \in {At(c, "scrub"), Ends(c, "errored"), At(c, "check")} :
          Goes(c, r) /\ (r = At(c, "scrub") => cmd[c].kind = "stop")
    BY <1>11, <1>a, RecordOfAt, RecordOfEnds DEF WaitTimesOut
  <2> QED
    BY <1>11, <1>a, <1>b, <2>1, RecordOfAt, RecordOfEnds, RecordKeepsCommandInv
       DEF WaitTimesOut, SeenFits, PhaseFits, Concluded, Probes
<1>12. CASE Kill(c)
  <2>1. At(c, "wait") \in CommandRecords
    BY <1>a, RecordOfAt
  <2> QED
    BY <1>12, <2>1, Distinct
       DEF Kill, Dies, Running, Goes, At, LifecycleInv, DaemonInv, DaemonTypes,
           CommandInv, CommandTypes, CommandRecords, SeenMatchPhases, SeenFits,
           CommandPhases, PhaseFits, Concluded, HoldsAlive, Probes
<1>13. CASE Scrub(c)
  BY <1>13, <1>a, <1>b, RecordOfEnds, RecordKeepsCommandInv
     DEF Scrub, SeenFits, PhaseFits, Concluded, Probes
<1> QED
  BY <1>1, <1>2, <1>3, <1>4, <1>5, <1>6, <1>7, <1>8, <1>9, <1>10, <1>11, <1>12,
     <1>13 DEF Command

\* A command that begins has seen nothing.
LEMMA IdleIsRecord == Idle \in CommandRecords
BY DEF Idle, CommandRecords, Processes

LEMMA StartsKeepCommandInv ==
  ASSUME LifecycleInv, NEW c \in Commands,
         \/ \E u \in Accounts : StartLogout(c, u)
         \/ \E u \in Accounts \union {None}, force \in BOOLEAN :
              StartStop(c, u, force)
  PROVE  CommandInv'
<1>1. NothingShared /\ cmd[c].pc = "idle"
  BY DEF StartLogout, StartStop
<1>2. ASSUME NEW r \in CommandRecords, Goes(c, r), r.seen = None, r.target = None,
             r.result = "none", r.pc \in {"scan", "owner"},
             r.pc = "scan" => r.kind = "stop"
      PROVE  CommandInv'
  <2>1. SeenFits(r) /\ PhaseFits(r)
    BY <1>2, Distinct DEF SeenFits, PhaseFits
  <2>2. alive # c
    BY <1>1 DEF LifecycleInv, CommandInv, CommandPhases, Probes
  <2> QED
    BY <1>1, <1>2, <2>1, <2>2, RecordKeepsCommandInv DEF NothingShared, busVars
<1>3. ASSUME NEW u \in Accounts, StartLogout(c, u)
      PROVE  CommandInv'
  BY <1>2, <1>3, IdleIsRecord DEF StartLogout, Idle, CommandRecords
<1>4. ASSUME NEW u \in Accounts \union {None}, NEW force \in BOOLEAN,
             StartStop(c, u, force)
      PROVE  CommandInv'
  BY <1>2, <1>4, IdleIsRecord DEF StartStop, Idle, CommandRecords
<1> QED
  BY <1>3, <1>4

-----------------------------------------------------------------------------
LEMMA InitEstablishesInv == Init => LifecycleInv
<1>1. Init => DaemonInv
  BY Distinct
     DEF Init, DaemonInv, DaemonTypes, LocksMatchPhases, FilesMatchPhases, HoldsFork,
         HoldsAlive, Phases, Processes
<1>2. Init => CommandInv
  <2> SUFFICES ASSUME Init PROVE CommandInv
    OBVIOUS
  <2>1. cmd = [c \in Commands |-> Idle] /\ alive = None /\ tried = FALSE
    BY DEF Init
  <2>2. Idle.seen = None /\ Idle.target = None /\ Idle.result = "none"
        /\ Idle.pc = "idle"
    BY DEF Idle
  <2> QED
    BY <2>1, <2>2, Distinct, IdleIsRecord
       DEF CommandInv, CommandTypes, SeenMatchPhases, SeenFits, CommandPhases,
           PhaseFits
<1> QED
  BY <1>1, <1>2 DEF LifecycleInv

LEMMA StepKeepsInv == LifecycleInv /\ [Next]_vars => LifecycleInv'
<1> SUFFICES ASSUME LifecycleInv, [Next]_vars
             PROVE  LifecycleInv'
  OBVIOUS
<1>1. DaemonInv'
  BY DaemonKeepsDaemonInv, CommandKeepsDaemonInv, StartsKeepDaemonInv
     DEF LifecycleInv, CommandInv, Next
<1>2. CommandInv'
  <2>1. CASE UNCHANGED vars
    BY <2>1
       DEF vars, busVars, LifecycleInv, CommandInv, CommandTypes, SeenMatchPhases,
           SeenFits, CommandPhases, PhaseFits, Concluded
  <2> QED
    BY <2>1, DaemonKeepsCommandInv, CommandKeepsCommandInv, StartsKeepCommandInv
       DEF Next
<1> QED
  BY <1>1, <1>2 DEF LifecycleInv

LEMMA Invariance == Spec => []LifecycleInv
<1> QED
  BY InitEstablishesInv, StepKeepsInv, PTL DEF Spec

-----------------------------------------------------------------------------
\* The variables keep their types, and the fork lock is held by a running daemon.
THEOREM LifecycleTypes == Spec => []TypeOK
<1>1. LifecycleInv => TypeOK
  BY DEF LifecycleInv, DaemonInv, DaemonTypes, LocksMatchPhases, HoldsFork,
         CommandInv, CommandTypes, TypeOK, Running
<1> QED
  BY Invariance, <1>1, PTL

\* There is one bus at a time, and it holds the alive lock (bus.go, pidfile.go).
THEOREM OneBusAtATime == Spec => []ListenerAlone
<1>1. LifecycleInv => ListenerAlone
  BY DEF LifecycleInv, DaemonInv, DaemonTypes, LocksMatchPhases, HoldsFork,
         HoldsAlive, ListenerAlone, Reachable
<1> QED
  BY Invariance, <1>1, PTL

\* A serving bus is the one its files name, unless a command removed them.
THEOREM FilesNameTheBus == Spec => []ServingOwnsFiles
<1>1. LifecycleInv => ServingOwnsFiles
  BY DEF LifecycleInv, DaemonInv, FilesMatchPhases, ServingOwnsFiles
<1> QED
  BY Invariance, <1>1, PTL

\* A command that waited and reports the bus stopped is right (stop.go, and
\* cleanup.go for a logout).
THEOREM StoppedMeansStopped == Spec => []ReportedGoneIsGone
<1>1. LifecycleInv => ReportedGoneIsGone
  BY DEF LifecycleInv, CommandInv, SeenMatchPhases, SeenFits, Concluded,
         ReportedGoneIsGone
<1> QED
  BY Invariance, <1>1, PTL
=============================================================================
