------------------------------ MODULE Updates ------------------------------
(***************************************************************************)
(* Update notices and `tmeet update` (internal/notice, internal/upgrade,   *)
(* cmd/update).  A command that prints a result may attach a notice: it    *)
(* reads the user's choice and the notice gate, asks the server and closes *)
(* the gate for a while.  `update run` installs the newest CLI through npm *)
(* under a process lock, opens the gate again and swaps the skill          *)
(* directory in by renames.  Processes run side by side and may die at any *)
(* point.  The payload, npm and the CDN are external and may answer        *)
(* anything.                                                               *)
(***************************************************************************)
EXTENDS Integers

CONSTANTS
    Updaters,     \* the processes of one user
    NoUpdater,    \* nobody holds update.lock
    MaxVersion    \* bound: versions ever published

ASSUME UpdatesAssumption == NoUpdater \notin Updaters /\ MaxVersion \in Nat \ {0}

NoTree == [version |-> 0, whole |-> TRUE]
Tree(v) == [version |-> v, whole |-> TRUE]
Trees == [version : 1..MaxVersion, whole : BOOLEAN]

VARIABLES
    cli,          \* the version npm has installed, 0 when the install is broken
    latest,       \* the newest version the server knows
    updateLock,   \* the holder of update.lock
    gate,         \* last_notice.json: "none", "fresh", "stale"
    choice,       \* preference.json: "none", "remind", "never_remind"
    finalSkill,   \* skills/tmeet-skill
    skillOwed,    \* a skill is installed and no run died, or failed to roll back, in its swap
    upd           \* what each process is doing

updVars == <<cli, latest, updateLock, gate, choice, finalSkill, skillOwed, upd>>

IdleUpdater == [at |-> "off", mine |-> 0, feedback |-> FALSE, chosen |-> "none",
                target |-> 0, skillToo |-> FALSE, staging |-> NoTree, backup |-> NoTree]

UpdatesInit ==
    /\ cli = 1 /\ latest = 1
    /\ updateLock = NoUpdater
    /\ gate = "none" /\ choice = "none"
    /\ finalSkill \in {NoTree, Tree(1)}
    /\ skillOwed = (finalSkill # NoTree)
    /\ upd = [p \in Updaters |-> IdleUpdater]

Goes(p, changes) == upd' = [upd EXCEPT ![p] = [f \in DOMAIN @ |-> IF f \in DOMAIN changes THEN changes[f] ELSE @[f]]]
Doing(p, step) == upd[p].at = step

(* IsNewer, for versions the order of Versions puts in line.               *)
IsNewer(current, target) == target # 0 /\ current < target

(* A command starts with the version that is installed.                    *)
StartCommand(p) ==
    /\ Doing(p, "off") /\ cli # 0
    /\ \E feedback \in BOOLEAN : Goes(p, [at |-> "choice", mine |-> cli, feedback |-> feedback])
    /\ UNCHANGED <<cli, latest, updateLock, gate, choice, finalSkill, skillOwed>>

(* loadPreference. *)
LoadPreference(p) ==
    /\ Doing(p, "choice")
    /\ Goes(p, [at |-> "gate", chosen |-> choice])
    /\ UNCHANGED <<cli, latest, updateLock, gate, choice, finalSkill, skillOwed>>

FeedbackNever(p) == upd[p].feedback /\ upd[p].chosen = "never_remind"

(* isNoticeFresh, and the choice that silences everything but feedback.    *)
ReadGate(p) ==
    /\ Doing(p, "gate")
    /\ LET silent == \/ gate = "fresh" /\ ~FeedbackNever(p)
                     \/ upd[p].chosen = "never_remind" /\ ~upd[p].feedback
       IN  IF silent THEN Goes(p, IdleUpdater) ELSE Goes(p, [at |-> "ask"])
    /\ UNCHANGED <<cli, latest, updateLock, gate, choice, finalSkill, skillOwed>>

(* fetchFromAPI and buildForResponse or buildForFeedback: nothing to say   *)
(* when the fetch fails, the version is blacklisted or nothing is newer.   *)
BuildInfo(p) ==
    /\ Doing(p, "ask")
    /\ \/ Goes(p, IdleUpdater)
       \/ /\ IsNewer(upd[p].mine, latest)
          /\ Goes(p, IF FeedbackNever(p) THEN IdleUpdater ELSE [at |-> "mark"])
    /\ UNCHANGED <<cli, latest, updateLock, gate, choice, finalSkill, skillOwed>>

(* markNotified closes the gate before the result is printed.              *)
MarkNotified(p) ==
    /\ Doing(p, "mark")
    /\ gate' = "fresh"
    /\ Goes(p, IdleUpdater)
    /\ UNCHANGED <<cli, latest, updateLock, choice, finalSkill, skillOwed>>

GateExpires ==
    /\ gate = "fresh"
    /\ gate' = "stale"
    /\ UNCHANGED <<cli, latest, updateLock, choice, finalSkill, skillOwed, upd>>

(* update set: save the choice; the report to the server may fail.         *)
SetPreference(p) ==
    /\ Doing(p, "off") /\ cli # 0
    /\ choice' \in {"remind", "never_remind"}
    /\ UNCHANGED <<cli, latest, updateLock, gate, finalSkill, skillOwed, upd>>

Publish ==
    /\ latest < MaxVersion
    /\ latest' = latest + 1
    /\ UNCHANGED <<cli, updateLock, gate, choice, finalSkill, skillOwed, upd>>

ReleaseUpdate(p) == updateLock' = IF updateLock = p THEN NoUpdater ELSE updateLock

(* update run: TryLock; a second run fails at once.                        *)
RunLock(p) ==
    /\ Doing(p, "off") /\ cli # 0 /\ updateLock = NoUpdater
    /\ updateLock' = p
    /\ Goes(p, [at |-> "fetch", mine |-> cli])
    /\ UNCHANGED <<cli, latest, gate, choice, finalSkill, skillOwed>>

(* The run ends: Unlock is deferred.                                       *)
RunEnds(p) ==
    /\ ReleaseUpdate(p)
    /\ Goes(p, IdleUpdater)

(* FetchFromAPI and the early exits: no answer, no target, nothing newer,  *)
(* no URL, no npm.                                                         *)
RunFetch(p) ==
    /\ Doing(p, "fetch")
    /\ \/ RunEnds(p)
       \/ /\ IsNewer(upd[p].mine, latest)
          /\ \E source \in {"registry", "download"}, skillToo \in BOOLEAN :
               Goes(p, [at |-> source, target |-> latest, skillToo |-> skillToo])
          /\ UNCHANGED updateLock
    /\ UNCHANGED <<cli, latest, gate, choice, finalSkill, skillOwed>>

(* DownloadToTemp and VerifyChecksum: an error, an empty file, no checksum *)
(* or the wrong one ends the run.                                          *)
DownloadCLI(p) ==
    /\ Doing(p, "download")
    /\ \/ RunEnds(p)
       \/ Goes(p, [at |-> "tarball"]) /\ UNCHANGED updateLock
    /\ UNCHANGED <<cli, latest, gate, choice, finalSkill, skillOwed>>

(* RunNpmInstall: of the tarball, or of whatever @latest is by then.  When *)
(* npm fails or runs into the timeout the old install may be broken.       *)
NpmInstall(p) ==
    /\ upd[p].at \in {"registry", "tarball"}
    /\ \/ /\ cli' = IF Doing(p, "tarball") THEN upd[p].target ELSE latest
          /\ Goes(p, [at |-> "reset"])
          /\ UNCHANGED updateLock
       \/ /\ cli' \in {cli, 0}
          /\ RunEnds(p)
    /\ UNCHANGED <<latest, gate, choice, finalSkill, skillOwed>>

(* ResetNoticeGate. *)
ResetNoticeGate(p) ==
    /\ Doing(p, "reset")
    /\ gate' = "none"
    /\ IF upd[p].skillToo THEN Goes(p, [at |-> "skill"]) /\ UNCHANGED updateLock ELSE RunEnds(p)
    /\ UNCHANGED <<cli, latest, choice, finalSkill, skillOwed>>

(* InstallSkill downloads, verifies, makes a staging directory and starts  *)
(* to extract into it; a failure is only a warning.                        *)
StageSkill(p) ==
    /\ Doing(p, "skill")
    /\ \/ RunEnds(p)
       \/ /\ Goes(p, [at |-> "extract", staging |-> [version |-> upd[p].target, whole |-> FALSE]])
          /\ UNCHANGED updateLock
    /\ UNCHANGED <<cli, latest, gate, choice, finalSkill, skillOwed>>

(* A version that extracts into the directory in use.                      *)
ExtractInPlace(p) ==
    /\ Doing(p, "extract")
    /\ IF finalSkill.whole
       THEN finalSkill' = upd[p].staging /\ UNCHANGED <<upd, updateLock>>
       ELSE finalSkill' = Tree(upd[p].target) /\ RunEnds(p)
    /\ UNCHANGED <<cli, latest, gate, choice, skillOwed>>

(* ExtractZip: the staging tree is complete, or removed with the run.      *)
ExtractSkill(p) ==
    /\ Doing(p, "extract")
    /\ \/ RunEnds(p)
       \/ Goes(p, [at |-> "backup", staging |-> Tree(upd[p].target)]) /\ UNCHANGED updateLock
    /\ UNCHANGED <<cli, latest, gate, choice, finalSkill, skillOwed>>

(* The tree in use, if any, is renamed aside.                              *)
BackupSkill(p) ==
    /\ Doing(p, "backup")
    /\ \/ RunEnds(p) /\ UNCHANGED finalSkill
       \/ /\ Goes(p, [at |-> "promote", backup |-> finalSkill])
          /\ finalSkill' = NoTree
          /\ UNCHANGED updateLock
    /\ UNCHANGED <<cli, latest, gate, choice, skillOwed>>

(* The staging tree is renamed into place; when that fails, the old one is *)
(* renamed back.                                                           *)
PromoteSkill(p) ==
    /\ Doing(p, "promote")
    /\ \/ finalSkill' = upd[p].staging /\ skillOwed' = TRUE /\ RunEnds(p)
       \/ /\ UNCHANGED <<finalSkill, skillOwed>>
          /\ IF upd[p].backup = NoTree THEN RunEnds(p)
             ELSE Goes(p, [at |-> "rollback"]) /\ UNCHANGED updateLock
    /\ UNCHANGED <<cli, latest, gate, choice>>

RollbackSkill(p) ==
    /\ Doing(p, "rollback")
    /\ \/ finalSkill' = upd[p].backup /\ UNCHANGED skillOwed
       \/ skillOwed' = FALSE /\ UNCHANGED finalSkill
    /\ RunEnds(p)
    /\ UNCHANGED <<cli, latest, gate, choice>>

(* The process dies; the kernel drops its lock, its directories stay.      *)
UpdaterDies(p) ==
    /\ ~Doing(p, "off")
    /\ skillOwed' = (skillOwed /\ upd[p].at \notin {"promote", "rollback"})
    /\ RunEnds(p)
    /\ UNCHANGED <<cli, latest, gate, choice, finalSkill>>

UpdatesNext ==
    \/ GateExpires \/ Publish
    \/ \E p \in Updaters :
         \/ StartCommand(p) \/ LoadPreference(p) \/ ReadGate(p) \/ BuildInfo(p) \/ MarkNotified(p)
         \/ SetPreference(p)
         \/ RunLock(p) \/ RunFetch(p) \/ DownloadCLI(p) \/ NpmInstall(p) \/ ResetNoticeGate(p)
         \/ StageSkill(p) \/ ExtractSkill(p) \/ BackupSkill(p) \/ PromoteSkill(p) \/ RollbackSkill(p)
         \/ UpdaterDies(p)

UpdatesSpec == UpdatesInit /\ [][UpdatesNext]_updVars

(***************************************************************************)
(* The state is well-formed, and only the holder of update.lock is past    *)
(* the lock.                                                               *)
(***************************************************************************)
UpdatesTypeOK ==
    /\ cli \in 0..MaxVersion /\ latest \in 1..MaxVersion
    /\ gate \in {"none", "fresh", "stale"}
    /\ choice \in {"none", "remind", "never_remind"}
    /\ finalSkill \in Trees \cup {NoTree}
    /\ \A p \in Updaters :
         /\ DOMAIN upd[p] = DOMAIN IdleUpdater
         /\ upd[p].at \notin {"off", "choice", "gate", "ask", "mark"} <=> updateLock = p

(***************************************************************************)
(* InstallSkill's atomicity: at no moment is a half-extracted tree where   *)
(* the skill is read, and a skill once installed is missing only while the *)
(* swap is between its two renames -- or for good after a run died there   *)
(* or could not rename the old tree back.                                  *)
(***************************************************************************)
SkillIntact ==
    /\ finalSkill.whole
    /\ \/ skillOwed => finalSkill # NoTree
       \/ \E p \in Updaters : upd[p].at \in {"promote", "rollback"}
=============================================================================
