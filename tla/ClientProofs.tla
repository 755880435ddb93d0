---------------------------- MODULE ClientProofs ----------------------------
(***************************************************************************)
(* Proofs about the programs on the client's side: the self-update, the    *)
(* calls and commands, the consumer, for any numbers of processes,         *)
(* requests, retries, frames and lines, and the order of versions of any   *)
(* length.                                                                 *)
(***************************************************************************)
EXTENDS Consumer, Updates, Commands, Versions, FiniteSetTheorems, TLAPS

-----------------------------------------------------------------------------
\* Self-update.

UpdateSteps == {"off", "choice", "gate", "ask", "mark", "fetch", "registry", "download",
                "tarball", "reset", "skill", "extract", "backup", "promote", "rollback"}

UpdRecords ==
  [at : UpdateSteps, mine : 0..MaxVersion, feedback : BOOLEAN,
   chosen : {"none", "remind", "never_remind"}, target : 0..MaxVersion,
   skillToo : BOOLEAN, staging : Trees \cup {NoTree}, backup : Trees \cup {NoTree}]

\* What a process past the lock has made so far.
Progress(p) ==
  /\ upd[p].at \in {"registry", "download", "tarball", "reset", "skill", "extract",
                    "backup", "promote", "rollback"}
       => upd[p].target # 0
  /\ upd[p].at \in {"backup", "promote", "rollback"} => upd[p].staging = Tree(upd[p].target)
  /\ upd[p].at \in {"promote", "rollback"} => upd[p].backup.whole
  /\ upd[p].at = "promote" /\ upd[p].backup = NoTree => ~skillOwed
  /\ upd[p].at = "rollback" => upd[p].backup # NoTree

UpdatesInv ==
  /\ cli \in 0..MaxVersion /\ latest \in 1..MaxVersion
  /\ gate \in {"none", "fresh", "stale"}
  /\ choice \in {"none", "remind", "never_remind"}
  /\ finalSkill \in Trees \cup {NoTree}
  /\ skillOwed \in BOOLEAN
  /\ upd \in [Updaters -> UpdRecords]
  /\ \A p \in Updaters : upd[p].at \notin {"off", "choice", "gate", "ask", "mark"}
                           <=> updateLock = p
  /\ \A p \in Updaters : Progress(p)
  /\ SkillIntact

LEMMA GoesMerges ==
  ASSUME upd \in [Updaters -> UpdRecords], NEW p \in Updaters, NEW changes, Goes(p, changes),
         NEW r, r = upd[p]
  PROVE  /\ \A q \in Updaters : q # p => upd'[q] = upd[q]
         /\ DOMAIN upd' = Updaters
         /\ upd'[p] = [f \in DOMAIN r |-> IF f \in DOMAIN changes THEN changes[f] ELSE r[f]]
BY DEF Goes

LEMMA MergedFields ==
  ASSUME NEW r \in UpdRecords, NEW changes, NEW n,
         n = [f \in DOMAIN r |-> IF f \in DOMAIN changes THEN changes[f] ELSE r[f]]
  PROVE  /\ n = [at |-> n.at, mine |-> n.mine, feedback |-> n.feedback, chosen |-> n.chosen,
                 target |-> n.target, skillToo |-> n.skillToo, staging |-> n.staging,
                 backup |-> n.backup]
         /\ n.at = IF "at" \in DOMAIN changes THEN changes["at"] ELSE r.at
         /\ n.mine = IF "mine" \in DOMAIN changes THEN changes["mine"] ELSE r.mine
         /\ n.feedback = IF "feedback" \in DOMAIN changes THEN changes["feedback"] ELSE r.feedback
         /\ n.chosen = IF "chosen" \in DOMAIN changes THEN changes["chosen"] ELSE r.chosen
         /\ n.target = IF "target" \in DOMAIN changes THEN changes["target"] ELSE r.target
         /\ n.skillToo = IF "skillToo" \in DOMAIN changes THEN changes["skillToo"] ELSE r.skillToo
         /\ n.staging = IF "staging" \in DOMAIN changes THEN changes["staging"] ELSE r.staging
         /\ n.backup = IF "backup" \in DOMAIN changes THEN changes["backup"] ELSE r.backup
<1>1. DOMAIN r = {"at", "mine", "feedback", "chosen", "target", "skillToo", "staging", "backup"}
  BY DEF UpdRecords
<1> QED
  BY <1>1

LEMMA GoesFields ==
  ASSUME upd \in [Updaters -> UpdRecords], NEW p \in Updaters, NEW changes, Goes(p, changes),
         "at" \in DOMAIN changes => changes["at"] \in UpdateSteps,
         "mine" \in DOMAIN changes => changes["mine"] \in 0..MaxVersion,
         "feedback" \in DOMAIN changes => changes["feedback"] \in BOOLEAN,
         "chosen" \in DOMAIN changes => changes["chosen"] \in {"none", "remind", "never_remind"},
         "target" \in DOMAIN changes => changes["target"] \in 0..MaxVersion,
         "skillToo" \in DOMAIN changes => changes["skillToo"] \in BOOLEAN,
         "staging" \in DOMAIN changes => changes["staging"] \in Trees \cup {NoTree},
         "backup" \in DOMAIN changes => changes["backup"] \in Trees \cup {NoTree}
  PROVE  /\ upd' \in [Updaters -> UpdRecords]
         /\ \A q \in Updaters : q # p => upd'[q] = upd[q]
         /\ upd'[p].at = IF "at" \in DOMAIN changes THEN changes["at"] ELSE upd[p].at
         /\ upd'[p].target = IF "target" \in DOMAIN changes THEN changes["target"] ELSE upd[p].target
         /\ upd'[p].staging = IF "staging" \in DOMAIN changes THEN changes["staging"] ELSE upd[p].staging
         /\ upd'[p].backup = IF "backup" \in DOMAIN changes THEN changes["backup"] ELSE upd[p].backup
<1> DEFINE r == upd[p]
           n == upd'[p]
<1>1. r \in UpdRecords
  OBVIOUS
<1>2. /\ \A q \in Updaters : q # p => upd'[q] = upd[q]
      /\ DOMAIN upd' = Updaters /\ upd' = [q \in Updaters |-> upd'[q]]
      /\ n = [f \in DOMAIN r |-> IF f \in DOMAIN changes THEN changes[f] ELSE r[f]]
  BY DEF Goes
<1> HIDE DEF r, n
<1>3. /\ n = [at |-> n.at, mine |-> n.mine, feedback |-> n.feedback, chosen |-> n.chosen,
              target |-> n.target, skillToo |-> n.skillToo, staging |-> n.staging,
              backup |-> n.backup]
      /\ n.at = IF "at" \in DOMAIN changes THEN changes["at"] ELSE r.at
      /\ n.mine = IF "mine" \in DOMAIN changes THEN changes["mine"] ELSE r.mine
      /\ n.feedback = IF "feedback" \in DOMAIN changes THEN changes["feedback"] ELSE r.feedback
      /\ n.chosen = IF "chosen" \in DOMAIN changes THEN changes["chosen"] ELSE r.chosen
      /\ n.target = IF "target" \in DOMAIN changes THEN changes["target"] ELSE r.target
      /\ n.skillToo = IF "skillToo" \in DOMAIN changes THEN changes["skillToo"] ELSE r.skillToo
      /\ n.staging = IF "staging" \in DOMAIN changes THEN changes["staging"] ELSE r.staging
      /\ n.backup = IF "backup" \in DOMAIN changes THEN changes["backup"] ELSE r.backup
  BY <1>1, <1>2, MergedFields
<1>4. /\ r.at \in UpdateSteps /\ r.mine \in 0..MaxVersion /\ r.feedback \in BOOLEAN
      /\ r.chosen \in {"none", "remind", "never_remind"} /\ r.target \in 0..MaxVersion
      /\ r.skillToo \in BOOLEAN /\ r.staging \in Trees \cup {NoTree}
      /\ r.backup \in Trees \cup {NoTree}
  BY <1>1 DEF UpdRecords
<1>5. n \in UpdRecords
  <2>1. /\ n.at \in UpdateSteps /\ n.mine \in 0..MaxVersion /\ n.feedback \in BOOLEAN
        /\ n.chosen \in {"none", "remind", "never_remind"} /\ n.target \in 0..MaxVersion
        /\ n.skillToo \in BOOLEAN /\ n.staging \in Trees \cup {NoTree}
        /\ n.backup \in Trees \cup {NoTree}
    BY <1>3, <1>4
  <2> QED
    BY <1>3, <2>1 DEF UpdRecords
<1>6. upd' \in [Updaters -> UpdRecords]
  BY <1>2, <1>5 DEF n
<1> QED
  BY <1>2, <1>3, <1>6 DEF n, r

LEMMA GoesIdle ==
  ASSUME upd \in [Updaters -> UpdRecords], NEW p \in Updaters, Goes(p, IdleUpdater)
  PROVE  /\ upd' \in [Updaters -> UpdRecords]
         /\ \A q \in Updaters : q # p => upd'[q] = upd[q]
         /\ upd'[p].at = "off"
<1> DEFINE i == IdleUpdater
<1>1. /\ DOMAIN i = {"at", "mine", "feedback", "chosen", "target", "skillToo", "staging", "backup"}
      /\ i["at"] = "off" /\ i["mine"] = 0 /\ i["feedback"] = FALSE /\ i["chosen"] = "none"
      /\ i["target"] = 0 /\ i["skillToo"] = FALSE /\ i["staging"] = NoTree
      /\ i["backup"] = NoTree
  BY DEF IdleUpdater
<1>2. 0 \in 0..MaxVersion /\ "off" \in UpdateSteps
  BY UpdatesAssumption DEF UpdateSteps
<1>3. Goes(p, i)
  OBVIOUS
<1> HIDE DEF i
<1> QED
  BY <1>1, <1>2, <1>3, GoesFields

Outside == {"off", "choice", "gate", "ask", "mark"}

\* What a step of p has to show.
LEMMA StepOfOne ==
  ASSUME UpdatesInv, NEW p \in Updaters,
         upd' \in [Updaters -> UpdRecords], \A q \in Updaters : q # p => upd'[q] = upd[q],
         cli' \in 0..MaxVersion, UNCHANGED latest, gate' \in {"none", "fresh", "stale"},
         choice' \in {"none", "remind", "never_remind"},
         finalSkill' \in Trees \cup {NoTree}, skillOwed' \in BOOLEAN,
         upd'[p].at \notin Outside <=> updateLock' = p,
         \A q \in Updaters : q # p => (updateLock' = q <=> updateLock = q),
         skillOwed' # skillOwed => updateLock = p,
         Progress(p)', SkillIntact'
  PROVE  UpdatesInv'
<1>1. ASSUME NEW q \in Updaters
      PROVE  /\ Progress(q)'
             /\ upd'[q].at \notin Outside <=> updateLock' = q
  <2>1. CASE q = p
    BY <2>1
  <2>2. CASE q # p
    <3>1. upd'[q] = upd[q] /\ Progress(q) /\ (upd[q].at \notin Outside <=> updateLock = q)
      BY <2>2 DEF UpdatesInv, Outside
    <3>2. upd[q].at = "promote" => UNCHANGED skillOwed
      BY <2>2, <3>1 DEF Outside
    <3> QED
      BY <2>2, <3>1, <3>2 DEF Progress
  <2> QED
    BY <2>1, <2>2
<1>2. latest' \in 1..MaxVersion
  BY DEF UpdatesInv
<1> QED
  BY <1>1, <1>2 DEF UpdatesInv, Outside

\* A step of p outside its swap leaves the skill as it is.
LEMMA SkillUntouched ==
  ASSUME UpdatesInv, NEW p \in Updaters, \A q \in Updaters : q # p => upd'[q] = upd[q],
         upd[p].at \notin {"promote", "rollback"}, UNCHANGED <<finalSkill, skillOwed>>
  PROVE  SkillIntact'
BY DEF UpdatesInv, SkillIntact

LEMMA ReleaseIs ==
  ASSUME UpdatesInv, NEW p \in Updaters, ReleaseUpdate(p)
  PROVE  updateLock' # p /\ \A q \in Updaters : q # p => (updateLock' = q <=> updateLock = q)
BY UpdatesAssumption DEF ReleaseUpdate

\* A run, or a command, that ends.
LEMMA RunEndsFits ==
  ASSUME UpdatesInv, NEW p \in Updaters, RunEnds(p),
         cli' \in 0..MaxVersion, UNCHANGED latest, gate' \in {"none", "fresh", "stale"},
         choice' \in {"none", "remind", "never_remind"},
         finalSkill' \in Trees \cup {NoTree}, skillOwed' \in BOOLEAN,
         skillOwed' # skillOwed => updateLock = p,
         \/ upd[p].at \notin {"promote", "rollback"} /\ UNCHANGED <<finalSkill, skillOwed>>
         \/ finalSkill'.whole /\ (skillOwed' => finalSkill' # NoTree)
  PROVE  UpdatesInv'
<1>1. /\ upd' \in [Updaters -> UpdRecords] /\ \A q \in Updaters : q # p => upd'[q] = upd[q]
      /\ upd'[p].at = "off"
  BY GoesIdle DEF RunEnds, UpdatesInv
<1>2. /\ updateLock' # p
      /\ \A q \in Updaters : q # p => (updateLock' = q <=> updateLock = q)
  BY ReleaseIs DEF RunEnds
<1>3. Progress(p)'
  BY <1>1 DEF Progress
<1>4. SkillIntact'
  BY <1>1, SkillUntouched DEF SkillIntact
<1>5. upd'[p].at \notin Outside <=> updateLock' = p
  BY <1>1, <1>2 DEF Outside
<1> QED
  BY <1>1, <1>2, <1>3, <1>4, <1>5, StepOfOne

\* A step of p that is no swap: nothing happens to the skill.
LEMMA WalkFits ==
  ASSUME UpdatesInv, NEW p \in Updaters,
         upd' \in [Updaters -> UpdRecords], \A q \in Updaters : q # p => upd'[q] = upd[q],
         upd[p].at \notin {"promote", "rollback"},
         cli' \in 0..MaxVersion, gate' \in {"none", "fresh", "stale"},
         UNCHANGED <<latest, choice, finalSkill, skillOwed>>,
         \/ upd'[p].at \in Outside /\ upd[p].at \in Outside /\ UNCHANGED updateLock
         \/ upd'[p].at \notin Outside /\ upd[p].at \notin Outside /\ UNCHANGED updateLock
         \/ upd'[p].at \notin Outside /\ updateLock = NoUpdater /\ updateLock' = p,
         Progress(p)'
  PROVE  UpdatesInv'
<1>1. /\ upd'[p].at \notin Outside <=> updateLock' = p
      /\ \A q \in Updaters : q # p => (updateLock' = q <=> updateLock = q)
  BY UpdatesAssumption DEF UpdatesInv, Outside
<1>2. SkillIntact'
  BY SkillUntouched
<1>3. /\ finalSkill' \in Trees \cup {NoTree} /\ skillOwed' \in BOOLEAN
      /\ choice' \in {"none", "remind", "never_remind"}
  BY DEF UpdatesInv
<1> QED
  BY <1>1, <1>2, <1>3, StepOfOne

\* The notice of a command: nobody holds the lock for it.
LEMMA NoticeFits ==
  ASSUME UpdatesInv, NEW p \in Updaters,
         \/ StartCommand(p) \/ LoadPreference(p) \/ ReadGate(p) \/ BuildInfo(p) \/ MarkNotified(p)
  PROVE  UpdatesInv'
<1> USE DEF UpdatesInv
<1>1. ASSUME NEW r \in UpdRecords PROVE r.at \in Outside => r.at \notin {"promote", "rollback"}
  BY DEF Outside
<1>2. ASSUME upd[p].at \in Outside, upd' \in [Updaters -> UpdRecords],
             \A q \in Updaters : q # p => upd'[q] = upd[q], upd'[p].at \in Outside,
             gate' \in {"none", "fresh", "stale"},
             UNCHANGED <<cli, latest, updateLock, choice, finalSkill, skillOwed>>
      PROVE  UpdatesInv'
  <2>1. Progress(p)'
    BY <1>2 DEF Progress, Outside
  <2>2. upd[p].at \notin {"promote", "rollback"} /\ cli' \in 0..MaxVersion
    BY <1>2 DEF Outside
  <2> QED
    BY <1>2, <2>1, <2>2, WalkFits
<1>3. ASSUME Goes(p, IdleUpdater)
      PROVE  /\ upd' \in [Updaters -> UpdRecords] /\ upd'[p].at \in Outside
             /\ \A q \in Updaters : q # p => upd'[q] = upd[q]
  BY <1>3, GoesIdle DEF Outside
<1>4. ASSUME NEW step \in {"gate", "ask", "mark"}, Goes(p, [at |-> step])
      PROVE  /\ upd' \in [Updaters -> UpdRecords] /\ upd'[p].at \in Outside
             /\ \A q \in Updaters : q # p => upd'[q] = upd[q]
  <2> DEFINE changes == [at |-> step]
  <2>1. DOMAIN changes = {"at"} /\ changes["at"] = step /\ step \in UpdateSteps /\ step \in Outside
    BY DEF UpdateSteps, Outside
  <2>2. Goes(p, changes)
    BY <1>4
  <2> HIDE DEF changes
  <2> QED
    BY <2>1, <2>2, GoesFields
<1>5. CASE StartCommand(p)
  <2>1. PICK feedback \in BOOLEAN : Goes(p, [at |-> "choice", mine |-> cli, feedback |-> feedback])
    BY <1>5 DEF StartCommand
  <2> DEFINE changes == [at |-> "choice", mine |-> cli, feedback |-> feedback]
  <2>2. /\ DOMAIN changes = {"at", "mine", "feedback"} /\ changes["at"] = "choice"
        /\ changes["mine"] = cli /\ changes["feedback"] = feedback
        /\ "choice" \in UpdateSteps /\ "choice" \in Outside
    BY DEF UpdateSteps, Outside
  <2>3. Goes(p, changes)
    BY <2>1
  <2> HIDE DEF changes
  <2>4. /\ upd' \in [Updaters -> UpdRecords] /\ upd'[p].at \in Outside
        /\ \A q \in Updaters : q # p => upd'[q] = upd[q]
    BY <2>2, <2>3, GoesFields
  <2> QED
    BY <1>2, <1>5, <2>4 DEF StartCommand, Doing, Outside
<1>6. CASE LoadPreference(p)
  <2> DEFINE changes == [at |-> "gate", chosen |-> choice]
  <2>1. /\ DOMAIN changes = {"at", "chosen"} /\ changes["at"] = "gate"
        /\ changes["chosen"] = choice /\ "gate" \in UpdateSteps /\ "gate" \in Outside
    BY DEF UpdateSteps, Outside
  <2>2. Goes(p, changes)
    BY <1>6 DEF LoadPreference
  <2> HIDE DEF changes
  <2>3. /\ upd' \in [Updaters -> UpdRecords] /\ upd'[p].at \in Outside
        /\ \A q \in Updaters : q # p => upd'[q] = upd[q]
    BY <2>1, <2>2, GoesFields
  <2> QED
    BY <1>2, <1>6, <2>3 DEF LoadPreference, Doing, Outside
<1>7. CASE ReadGate(p)
  BY <1>2, <1>3, <1>4, <1>7 DEF ReadGate, Doing, Outside
<1>8. CASE BuildInfo(p)
  <2>1. Goes(p, IdleUpdater) \/ Goes(p, [at |-> "mark"])
    BY <1>8 DEF BuildInfo
  <2> QED
    BY <1>2, <1>3, <1>4, <1>8, <2>1 DEF BuildInfo, Doing, Outside
<1>9. CASE MarkNotified(p)
  BY <1>2, <1>3, <1>9 DEF MarkNotified, Doing, Outside
<1> QED
  BY <1>5, <1>6, <1>7, <1>8, <1>9

\* The steps of a run up to the swap.
LEMMA RunFits ==
  ASSUME UpdatesInv, NEW p \in Updaters,
         \/ RunLock(p) \/ RunFetch(p) \/ DownloadCLI(p) \/ NpmInstall(p) \/ ResetNoticeGate(p)
         \/ StageSkill(p) \/ ExtractSkill(p)
  PROVE  UpdatesInv'
<1> USE DEF UpdatesInv
<1>1. ASSUME RunEnds(p), upd[p].at \notin {"promote", "rollback"},
             UNCHANGED <<latest, choice, finalSkill, skillOwed>>, cli' \in 0..MaxVersion,
             gate' \in {"none", "fresh", "stale"}
      PROVE  UpdatesInv'
  BY <1>1, RunEndsFits
<1>2. ASSUME NEW step \in {"tarball", "reset", "skill"}, Goes(p, [at |-> step]),
             upd[p].target # 0, upd[p].at \in {"registry", "download", "tarball", "reset"},
             UNCHANGED <<latest, choice, finalSkill, skillOwed, updateLock>>,
             cli' \in 0..MaxVersion, gate' \in {"none", "fresh", "stale"}
      PROVE  UpdatesInv'
  <2> DEFINE changes == [at |-> step]
  <2>1. DOMAIN changes = {"at"} /\ changes["at"] = step /\ step \in UpdateSteps
    BY DEF UpdateSteps
  <2>2. Goes(p, changes)
    BY <1>2
  <2> HIDE DEF changes
  <2>3. /\ upd' \in [Updaters -> UpdRecords] /\ upd'[p].at = step
        /\ \A q \in Updaters : q # p => upd'[q] = upd[q]
        /\ upd'[p].target = upd[p].target
    BY <2>1, <2>2, GoesFields
  <2>4. Progress(p)'
    BY <1>2, <2>3 DEF Progress
  <2>5. /\ upd'[p].at \notin Outside /\ upd[p].at \notin Outside
        /\ upd[p].at \notin {"promote", "rollback"}
    BY <1>2, <2>3 DEF Outside
  <2> QED
    BY <1>2, <2>3, <2>4, <2>5, WalkFits
<1>3. upd[p].target \in 0..MaxVersion
  BY DEF UpdRecords
<1>4. CASE RunLock(p)
  <2> DEFINE changes == [at |-> "fetch", mine |-> cli]
  <2>1. /\ DOMAIN changes = {"at", "mine"} /\ changes["at"] = "fetch" /\ changes["mine"] = cli
        /\ "fetch" \in UpdateSteps
    BY DEF UpdateSteps
  <2>2. Goes(p, changes)
    BY <1>4 DEF RunLock
  <2> HIDE DEF changes
  <2>3. /\ upd' \in [Updaters -> UpdRecords] /\ upd'[p].at = "fetch"
        /\ \A q \in Updaters : q # p => upd'[q] = upd[q]
    BY <2>1, <2>2, GoesFields
  <2>4. Progress(p)'
    BY <2>3 DEF Progress
  <2> QED
    BY <1>4, <2>3, <2>4, WalkFits DEF RunLock, Doing, Outside
<1>5. CASE RunFetch(p)
  <2>1. CASE RunEnds(p)
    BY <1>1, <1>5, <2>1 DEF RunFetch, Doing
  <2>2. CASE ~RunEnds(p)
    <3>1. PICK source \in {"registry", "download"}, skillToo \in BOOLEAN :
            Goes(p, [at |-> source, target |-> latest, skillToo |-> skillToo])
      BY <1>5, <2>2 DEF RunFetch
    <3> DEFINE changes == [at |-> source, target |-> latest, skillToo |-> skillToo]
    <3>2. /\ DOMAIN changes = {"at", "target", "skillToo"} /\ changes["at"] = source
          /\ changes["target"] = latest /\ changes["skillToo"] = skillToo
          /\ source \in UpdateSteps
      BY DEF UpdateSteps
    <3>3. Goes(p, changes) /\ latest \in 0..MaxVersion /\ latest # 0
      BY <3>1, UpdatesAssumption
    <3> HIDE DEF changes
    <3>4. /\ upd' \in [Updaters -> UpdRecords] /\ upd'[p].at = source
          /\ \A q \in Updaters : q # p => upd'[q] = upd[q]
          /\ upd'[p].target = latest
      BY <3>2, <3>3, GoesFields
    <3>5. Progress(p)'
      BY <3>3, <3>4 DEF Progress
    <3> QED
      BY <1>5, <2>2, <3>4, <3>5, WalkFits DEF RunFetch, Doing, Outside
  <2> QED
    BY <2>1, <2>2
<1>6. CASE DownloadCLI(p)
  <2>1. upd[p].target # 0 /\ upd[p].at = "download"
    BY <1>6 DEF DownloadCLI, Doing, Progress
  <2> QED
    BY <1>1, <1>2, <1>6, <2>1 DEF DownloadCLI
<1>7. CASE NpmInstall(p)
  <2>1. upd[p].target # 0 /\ upd[p].at \in {"registry", "tarball"}
    BY <1>7 DEF NpmInstall, Progress
  <2>2. cli' \in 0..MaxVersion
    BY <1>3, <1>7, UpdatesAssumption DEF NpmInstall
  <2> QED
    BY <1>1, <1>2, <1>7, <2>1, <2>2 DEF NpmInstall
<1>8. CASE ResetNoticeGate(p)
  <2>1. upd[p].target # 0 /\ upd[p].at = "reset"
    BY <1>8 DEF ResetNoticeGate, Doing, Progress
  <2> QED
    BY <1>1, <1>2, <1>8, <2>1 DEF ResetNoticeGate
<1>9. ASSUME NEW step \in {"extract", "backup"}, NEW tree \in Trees,
             Goes(p, [at |-> step, staging |-> tree]), step = "backup" => tree = Tree(upd[p].target),
             upd[p].at \in {"skill", "extract"},
             UNCHANGED <<cli, latest, choice, gate, finalSkill, skillOwed, updateLock>>
      PROVE  UpdatesInv'
  <2> DEFINE changes == [at |-> step, staging |-> tree]
  <2>1. /\ DOMAIN changes = {"at", "staging"} /\ changes["at"] = step
        /\ changes["staging"] = tree /\ step \in UpdateSteps
    BY DEF UpdateSteps
  <2>2. Goes(p, changes)
    BY <1>9
  <2> HIDE DEF changes
  <2>3. /\ upd' \in [Updaters -> UpdRecords] /\ upd'[p].at = step
        /\ \A q \in Updaters : q # p => upd'[q] = upd[q]
        /\ upd'[p].target = upd[p].target /\ upd'[p].staging = tree
    BY <2>1, <2>2, GoesFields
  <2>4. upd[p].target # 0
    BY <1>9 DEF Progress
  <2>5. Progress(p)'
    BY <1>9, <2>3, <2>4 DEF Progress
  <2>6. /\ upd'[p].at \notin Outside /\ upd[p].at \notin Outside
        /\ upd[p].at \notin {"promote", "rollback"}
    BY <1>9, <2>3 DEF Outside
  <2> QED
    BY <1>9, <2>3, <2>5, <2>6, WalkFits
<1>10. CASE StageSkill(p)
  <2> DEFINE tree == [version |-> upd[p].target, whole |-> FALSE]
  <2>1. upd[p].target # 0 /\ upd[p].at = "skill"
    BY <1>10 DEF StageSkill, Doing, Progress
  <2>2. tree \in Trees
    BY <1>3, <2>1, UpdatesAssumption DEF Trees
  <2>3. RunEnds(p) \/ (Goes(p, [at |-> "extract", staging |-> tree]) /\ UNCHANGED updateLock)
    BY <1>10 DEF StageSkill
  <2> HIDE DEF tree
  <2> QED
    BY <1>1, <1>9, <1>10, <2>1, <2>2, <2>3 DEF StageSkill
<1>11. CASE ExtractSkill(p)
  <2>1. upd[p].target # 0 /\ upd[p].at = "extract"
    BY <1>11 DEF ExtractSkill, Doing, Progress
  <2>2. Tree(upd[p].target) \in Trees
    BY <1>3, <2>1, UpdatesAssumption DEF Trees, Tree
  <2> QED
    BY <1>1, <1>9, <1>11, <2>1, <2>2 DEF ExtractSkill
<1> QED
  BY <1>4, <1>5, <1>6, <1>7, <1>8, <1>10, <1>11

\* The two renames and their undoing.
LEMMA SwapFits ==
  ASSUME UpdatesInv, NEW p \in Updaters, BackupSkill(p) \/ PromoteSkill(p) \/ RollbackSkill(p)
  PROVE  UpdatesInv'
<1> USE DEF UpdatesInv
<1>1. upd[p] \in UpdRecords /\ Progress(p) /\ (upd[p].at \notin Outside <=> updateLock = p)
  BY DEF Outside
<1>2. /\ NoTree.whole /\ \A v : Tree(v).whole /\ (v # 0 => Tree(v) # NoTree)
      /\ NoTree \in Trees \cup {NoTree}
  BY DEF NoTree, Tree
<1>3. CASE BackupSkill(p)
  <2>1. CASE RunEnds(p) /\ UNCHANGED finalSkill
    BY <1>3, <2>1, RunEndsFits DEF BackupSkill, Doing
  <2>2. CASE /\ Goes(p, [at |-> "promote", backup |-> finalSkill]) /\ finalSkill' = NoTree
             /\ UNCHANGED updateLock
    <3> DEFINE changes == [at |-> "promote", backup |-> finalSkill]
    <3>1. /\ DOMAIN changes = {"at", "backup"} /\ changes["at"] = "promote"
          /\ changes["backup"] = finalSkill /\ "promote" \in UpdateSteps
      BY DEF UpdateSteps
    <3>2. Goes(p, changes)
      BY <2>2
    <3> HIDE DEF changes
    <3>3. /\ upd' \in [Updaters -> UpdRecords] /\ upd'[p].at = "promote"
          /\ \A q \in Updaters : q # p => upd'[q] = upd[q]
          /\ upd'[p].target = upd[p].target /\ upd'[p].staging = upd[p].staging
          /\ upd'[p].backup = finalSkill
      BY <3>1, <3>2, GoesFields
    <3>4. /\ upd[p].at = "backup" /\ updateLock = p
          /\ UNCHANGED <<cli, latest, gate, choice, skillOwed>>
      BY <1>1, <1>3 DEF BackupSkill, Doing, Outside
    <3>5. \A q \in Updaters : upd[q].at \notin {"promote", "rollback"}
      BY <3>4
    <3>6. finalSkill.whole /\ (skillOwed => finalSkill # NoTree)
      BY <3>5 DEF SkillIntact
    <3>7. Progress(p)'
      BY <1>1, <3>3, <3>4, <3>6 DEF Progress
    <3>8. SkillIntact'
      BY <1>2, <2>2, <3>3 DEF SkillIntact
    <3>9. upd'[p].at \notin Outside <=> updateLock' = p
      BY <2>2, <3>3, <3>4 DEF Outside
    <3> QED
      BY <1>2, <2>2, <3>3, <3>4, <3>7, <3>8, <3>9, StepOfOne
  <2> QED
    BY <1>3, <2>1, <2>2 DEF BackupSkill
<1>4. CASE PromoteSkill(p)
  <2>1. upd[p].at = "promote" /\ updateLock = p /\ UNCHANGED <<cli, latest, gate, choice>>
    BY <1>1, <1>4 DEF PromoteSkill, Doing, Outside
  <2>2. /\ upd[p].staging = Tree(upd[p].target) /\ upd[p].target # 0
        /\ upd[p].staging \in Trees \cup {NoTree}
    BY <1>1, <2>1 DEF Progress, UpdRecords
  <2>3. CASE finalSkill' = upd[p].staging /\ skillOwed' = TRUE /\ RunEnds(p)
    BY <1>2, <2>1, <2>2, <2>3, RunEndsFits
  <2>4. CASE UNCHANGED <<finalSkill, skillOwed>> /\ upd[p].backup = NoTree /\ RunEnds(p)
    <3>1. ~skillOwed /\ finalSkill.whole
      BY <1>1, <2>1, <2>4 DEF Progress, SkillIntact
    <3> QED
      BY <2>1, <2>4, <3>1, RunEndsFits
  <2>5. CASE /\ UNCHANGED <<finalSkill, skillOwed, updateLock>> /\ upd[p].backup # NoTree
             /\ Goes(p, [at |-> "rollback"])
    <3> DEFINE changes == [at |-> "rollback"]
    <3>1. DOMAIN changes = {"at"} /\ changes["at"] = "rollback" /\ "rollback" \in UpdateSteps
      BY DEF UpdateSteps
    <3>2. Goes(p, changes)
      BY <2>5
    <3> HIDE DEF changes
    <3>3. /\ upd' \in [Updaters -> UpdRecords] /\ upd'[p].at = "rollback"
          /\ \A q \in Updaters : q # p => upd'[q] = upd[q]
          /\ upd'[p].target = upd[p].target /\ upd'[p].staging = upd[p].staging
          /\ upd'[p].backup = upd[p].backup
      BY <3>1, <3>2, GoesFields
    <3>4. Progress(p)'
      BY <1>1, <2>1, <2>5, <3>3 DEF Progress
    <3>5. SkillIntact'
      BY <2>5, <3>3 DEF SkillIntact
    <3>6. upd'[p].at \notin Outside <=> updateLock' = p
      BY <2>1, <2>5, <3>3 DEF Outside
    <3> QED
      BY <2>1, <2>5, <3>3, <3>4, <3>5, <3>6, StepOfOne
  <2> QED
    BY <1>4, <2>3, <2>4, <2>5 DEF PromoteSkill
<1>5. CASE RollbackSkill(p)
  <2>1. upd[p].at = "rollback" /\ updateLock = p /\ UNCHANGED <<cli, latest, gate, choice>>
    BY <1>1, <1>5 DEF RollbackSkill, Doing, Outside
  <2>2. /\ upd[p].backup.whole /\ upd[p].backup # NoTree
        /\ upd[p].backup \in Trees \cup {NoTree}
    BY <1>1, <2>1 DEF Progress, UpdRecords
  <2>3. RunEnds(p)
    BY <1>5 DEF RollbackSkill
  <2>4. CASE finalSkill' = upd[p].backup /\ UNCHANGED skillOwed
    BY <2>1, <2>2, <2>3, <2>4, RunEndsFits
  <2>5. CASE skillOwed' = FALSE /\ UNCHANGED finalSkill
    BY <2>1, <2>3, <2>5, RunEndsFits DEF SkillIntact
  <2> QED
    BY <1>5, <2>4, <2>5 DEF RollbackSkill
<1> QED
  BY <1>3, <1>4, <1>5

LEMMA UpdaterDiesFits ==
  ASSUME UpdatesInv, NEW p \in Updaters, UpdaterDies(p)
  PROVE  UpdatesInv'
<1> USE DEF UpdatesInv
<1>1. /\ UNCHANGED <<cli, latest, gate, choice, finalSkill>> /\ RunEnds(p)
      /\ skillOwed' = (skillOwed /\ upd[p].at \notin {"promote", "rollback"})
  BY DEF UpdaterDies
<1>2. CASE upd[p].at \in {"promote", "rollback"}
  <2>1. updateLock = p /\ ~skillOwed' /\ skillOwed' \in BOOLEAN /\ finalSkill'.whole
    BY <1>1, <1>2 DEF SkillIntact
  <2> QED
    BY <1>1, <2>1, RunEndsFits
<1>3. CASE upd[p].at \notin {"promote", "rollback"}
  <2>1. skillOwed' = skillOwed
    BY <1>1, <1>3
  <2> QED
    BY <1>1, <1>3, <2>1, RunEndsFits
<1> QED
  BY <1>2, <1>3

\* The inductive invariant of the self-update.
THEOREM UpdatesInvariant == UpdatesSpec => []UpdatesInv
<1>1. UpdatesInit => UpdatesInv
  <2> SUFFICES ASSUME UpdatesInit
               PROVE  UpdatesInv
    OBVIOUS
  <2>1. upd \in [Updaters -> UpdRecords] /\ \A p \in Updaters : upd[p].at = "off"
    BY UpdatesAssumption DEF UpdatesInit, IdleUpdater, UpdRecords, UpdateSteps
  <2>2. /\ cli \in 0..MaxVersion /\ latest \in 1..MaxVersion
        /\ Tree(1) \in Trees /\ NoTree.whole /\ Tree(1).whole
    BY UpdatesAssumption DEF UpdatesInit, Tree, Trees, NoTree
  <2>3. SkillIntact /\ finalSkill \in Trees \cup {NoTree} /\ skillOwed \in BOOLEAN
    BY <2>2 DEF UpdatesInit, SkillIntact
  <2> QED
    BY <2>1, <2>2, <2>3, UpdatesAssumption DEF UpdatesInit, UpdatesInv, Progress
<1>2. UpdatesInv /\ [UpdatesNext]_updVars => UpdatesInv'
  <2> SUFFICES ASSUME UpdatesInv, [UpdatesNext]_updVars
               PROVE  UpdatesInv'
    OBVIOUS
  <2>1. ASSUME UNCHANGED <<cli, updateLock, finalSkill, skillOwed, upd>>,
               latest' \in 1..MaxVersion, gate' \in {"none", "fresh", "stale"},
               choice' \in {"none", "remind", "never_remind"}
        PROVE  UpdatesInv'
    BY <2>1 DEF UpdatesInv, Progress, SkillIntact
  <2>2. CASE GateExpires
    BY <2>1, <2>2 DEF GateExpires, UpdatesInv
  <2>3. CASE Publish
    BY <2>1, <2>3, UpdatesAssumption DEF Publish, UpdatesInv
  <2>4. ASSUME NEW p \in Updaters, SetPreference(p)
        PROVE  UpdatesInv'
    BY <2>1, <2>4 DEF SetPreference, UpdatesInv
  <2>5. CASE UNCHANGED updVars
    BY <2>1, <2>5 DEF updVars, UpdatesInv
  <2> QED
    BY <2>2, <2>3, <2>4, <2>5, NoticeFits, RunFits, SwapFits, UpdaterDiesFits DEF UpdatesNext
<1> QED
  BY <1>1, <1>2, PTL DEF UpdatesSpec

\* Only the holder of update.lock is past the lock, whatever dies where, and
\* the trees are what the versions published so far make (upgrade, skill).
THEOREM UpdatesTyped == UpdatesSpec => []UpdatesTypeOK
<1>1. UpdatesInv => UpdatesTypeOK
  <2> SUFFICES ASSUME UpdatesInv, NEW p \in Updaters
               PROVE  DOMAIN upd[p] = DOMAIN IdleUpdater
    BY DEF UpdatesInv, UpdatesTypeOK
  <2>1. upd[p] \in UpdRecords
    BY DEF UpdatesInv
  <2> QED
    BY <2>1 DEF UpdRecords, IdleUpdater
<1> QED
  BY <1>1, UpdatesInvariant, PTL

\* The skill directory never holds a half-extracted tree, and a skill once
\* installed is missing only inside a swap, or after a run died there or could
\* not rename the old tree back (InstallSkill).
THEOREM SkillStaysIntact == UpdatesSpec => []SkillIntact
<1>1. UpdatesInv => SkillIntact
  BY DEF UpdatesInv
<1> QED
  BY <1>1, UpdatesInvariant, PTL

-----------------------------------------------------------------------------
\* One call of the REST proxy.

InLate == IF request \in late THEN 1 ELSE 0
DoneNow == IF wire = "done" THEN 1 ELSE 0

CallInv ==
  /\ CallTypeOK
  /\ BackoffGrows
  /\ 2 * waits.now < 5 * base
  /\ callAt = "idle" <=> request = NoRequest
  /\ callAt \in {"refresh", "attempt", "waiting"} => unanswered = attempt
  /\ callAt = "pausing" => unanswered = attempt + 1 /\ attempt < MaxAttempts
  /\ attempt <= unanswered
  /\ callAt \in {"idle", "refresh", "attempt", "pausing"} => wire = "empty"
  /\ callAt = "waiting" => wire # "empty"
  /\ wire = "done" => runs >= 1 /\ request \in executed
  /\ runs + InLate <= unanswered + DoneNow
  /\ callAt # "back" => callOutcome = "open"
  /\ callOutcome = "ok" => runs >= 1 /\ request \in executed
  /\ callOutcome = "gaveup" => unanswered = MaxAttempts + 1

LEMMA NewCallFits ==
  ASSUME CallInv, NEW r \in Requests, r \notin late, RequestProxy(r)
  PROVE  CallInv'
<1>1. CallTypeOK'
  BY RestAssumption DEF CallInv, CallTypeOK, RequestProxy, Outcomes
<1>2. r # NoRequest
  BY RestAssumption
<1> QED
  BY <1>1, <1>2 DEF CallInv, CallTypeOK, RequestProxy, BackoffGrows, InLate, DoneNow

\* A pause is longer than the one before: the jitter of a quarter either way is
\* less than the doubling of the base.
LEMMA NextDelay ==
  ASSUME CallInv, NEW d \in CalcDelay(base)
  PROVE  /\ d \in Nat
         /\ d > waits.now \/ d = MaxDelay
         /\ 2 * d < 5 * (2 * base)
<1>1. waits.now \in Nat /\ base \in Nat \ {0} /\ 2 * waits.now < 5 * base /\ MaxDelay \in Nat
  BY RestAssumption DEF CallInv, CallTypeOK
<1>2. PICK e \in (3 * base)..(5 * base - 1) : d = IF e > MaxDelay THEN MaxDelay ELSE e
  BY DEF CalcDelay
<1>3. e \in Nat /\ e > waits.now /\ 2 * e < 5 * (2 * base)
  BY <1>1, <1>2
<1> QED
  BY <1>1, <1>2, <1>3

LEMMA CallStepFits ==
  ASSUME CallInv, CallNext
  PROVE  /\ CallInv' /\ UNCHANGED request
         /\ late' \subseteq late \cup {request} /\ executed \subseteq executed'
<1> USE DEF CallInv, CallTypeOK, BackoffGrows, InLate, DoneNow
<1>0. /\ MaxAttempts \in Nat /\ MaxDelay \in Nat /\ NoRequest \notin Requests
      /\ request # NoRequest => request \in Requests
  BY RestAssumption
<1>1. CASE RefreshToken
  BY <1>0, <1>1 DEF RefreshToken, Outcomes
<1>2. CASE Sends
  BY <1>0, <1>2 DEF Sends
<1>3. CASE ServerExecutes
  BY <1>0, <1>3 DEF ServerExecutes
<1>4. ASSUME NEW r \in late, LateExecutes(r)
      PROVE  /\ CallInv' /\ UNCHANGED request
             /\ late' \subseteq late \cup {request} /\ executed \subseteq executed'
  BY <1>0, <1>4 DEF LateExecutes
<1>5. ASSUME NEW answer \in Answers, AttemptReturns(answer)
      PROVE  /\ CallInv' /\ UNCHANGED request
             /\ late' \subseteq late \cup {request} /\ executed \subseteq executed'
  <2>1. /\ callAt = "waiting" /\ request \in Requests /\ unanswered = attempt
        /\ wire \in {"sent", "done"} /\ UNCHANGED <<request, attempt, runs, executed>>
    BY <1>0, <1>5 DEF AttemptReturns
  <2>2. late' \subseteq late \cup {request} /\ late' \subseteq Requests
    BY <1>5, <2>1 DEF AttemptReturns, Lingers
  <2>3. CASE Pauses(answer)
    <3>1. answer = "none" /\ attempt < MaxAttempts
      BY <2>3 DEF Pauses, RetryIf, Answers
    <3>2. /\ unanswered' = unanswered + 1 /\ late' \in Lingers /\ wire' = "empty"
          /\ storedUser' \in BOOLEAN
          /\ callAt' = "pausing" /\ base' = 2 * base /\ UNCHANGED callOutcome
      BY <1>5, <2>3, <3>1 DEF AttemptReturns
    <3>3. PICK d \in CalcDelay(base) : waits' = [last |-> waits.now, now |-> d]
      BY <1>5, <2>3 DEF AttemptReturns
    <3>4. /\ d \in Nat /\ (d > waits.now \/ d = MaxDelay) /\ 2 * d < 5 * (2 * base)
      BY <3>3, NextDelay
    <3>5. runs + InLate' <= unanswered' + DoneNow'
      BY <2>1, <2>2, <3>2 DEF Lingers
    <3>6. /\ waits' \in [last : Nat, now : Nat] /\ BackoffGrows' /\ 2 * waits'.now < 5 * base'
          /\ base' \in Nat \ {0}
      BY <3>2, <3>3, <3>4
    <3> QED
      BY <1>0, <2>1, <2>2, <3>1, <3>2, <3>5, <3>6
  <2>4. CASE ~Pauses(answer)
    <3>1. /\ callAt' = "back" /\ waits' = [last |-> 0, now |-> 0] /\ UNCHANGED base
          /\ callOutcome' = (IF answer = "none" THEN "gaveup" ELSE answer)
          /\ storedUser' \in BOOLEAN
      BY <1>5, <2>4 DEF AttemptReturns
    <3>2. CASE answer = "none"
      <4>1. attempt = MaxAttempts
        BY <1>0, <2>4, <3>2 DEF Pauses, RetryIf
      <4>2. unanswered' = unanswered + 1 /\ late' \in Lingers /\ wire' = "empty"
        BY <1>5, <3>2 DEF AttemptReturns
      <4>3. runs + InLate' <= unanswered' + DoneNow'
        BY <2>1, <2>2, <4>2 DEF Lingers
      <4> QED
        BY <1>0, <2>1, <2>2, <3>1, <3>2, <4>1, <4>2, <4>3 DEF Outcomes
    <3>3. CASE answer # "none"
      <4>1. /\ UNCHANGED <<unanswered, late, wire>>
            /\ answer = "ok" => wire = "done"
        BY <1>5, <3>3 DEF AttemptReturns
      <4>2. /\ callOutcome' = answer /\ answer \in {"ok", "refused", "expired"}
            /\ storedUser' \in BOOLEAN
        BY <1>5, <3>1, <3>3 DEF Answers
      <4>3. CallTypeOK'
        BY <1>0, <2>1, <3>1, <4>1, <4>2 DEF Outcomes
      <4>4. runs + InLate' <= unanswered' + DoneNow' /\ BackoffGrows' /\ 2 * waits'.now < 5 * base'
        BY <2>1, <3>1, <4>1
      <4>5. callOutcome' = "ok" => runs' >= 1 /\ request' \in executed'
        BY <2>1, <4>1, <4>2
      <4> QED
        BY <1>0, <2>1, <3>1, <4>1, <4>2, <4>3, <4>4, <4>5
    <3> QED
      BY <3>2, <3>3
  <2> QED
    BY <2>3, <2>4
<1>6. CASE PauseEnds
  BY <1>0, <1>6 DEF PauseEnds
<1>7. CASE PauseCut
  BY <1>0, <1>7 DEF PauseCut, Outcomes
<1> QED
  BY <1>1, <1>2, <1>3, <1>4, <1>5, <1>6, <1>7 DEF CallNext

-----------------------------------------------------------------------------
\* The commands.

CmdTypes ==
  /\ command \in {"single", "share-set", "list", "get", "transient", "upload"}
  /\ command \in CommandKinds
  /\ compact \in BOOLEAN
  /\ compact => command = "single"
  /\ phase \in {"start", "compact", "body", "put", "report", "exited"}
  /\ fields \in [records : {"absent", "zero", "data"}, minutes : {"absent", "data"}]
  /\ pages \in 0..Len(Pages) /\ more \in BOOLEAN
  /\ zip \in BOOLEAN /\ stored \in BOOLEAN
  /\ shown \in {"nothing", "complaint", "answer", "summary", "merged", "page", "logid"}
  /\ exitCode \in {0, 1, 2, Running}

\* The request of the call a command is at.
Requested ==
  /\ phase = "start" => callAt = "idle"
  /\ phase = "compact" => command = "single" /\ request = "schema"
  /\ phase = "put" => command = "upload" /\ request = "token"
  /\ phase = "body" =>
       /\ command = "single" => request = "single"
       /\ command = "share-set" =>
            /\ request \notin NamedRequests
            /\ \A i \in (Len(results) + 2)..Len(asked) : request # asked[i]
       /\ command = "list" => request \in {"base", "records", "minutes"}
       /\ command = "get" => request \in {"base", "records1", "records2", "minutes"}
       /\ command = "transient" => pages < Len(Pages) /\ request = Pages[pages + 1]
       /\ command = "upload" => request \in {"token", "complete"}

\* The requests a command may still make.
MayCome(r) ==
  \/ phase = "start"
  \/ phase = "compact" /\ r # "schema"
  \/ phase \in {"body", "put"} /\ r = "crash"
  \/ phase = "put" /\ r = "complete"
  \/ /\ phase = "body" /\ command = "share-set" /\ r # request
     /\ \E i \in (Len(results) + 1)..Len(asked) : r = asked[i]
  \/ /\ phase = "body" /\ command = "transient"
     /\ \E i \in (pages + 2)..Len(Pages) : r = Pages[i]
  \/ /\ phase = "body" /\ command \in {"list", "get"}
     /\ \/ request = "base" /\ r \in {"records", "records1", "records2", "minutes"}
        \/ request \in {"records", "records2"} /\ r = "minutes"
        \/ request = "records1" /\ r \in {"records2", "minutes"}
  \/ phase = "body" /\ command = "upload" /\ request = "token" /\ r = "complete"

\* None of them is on its way already.
Fresh == \A r \in Requests : MayCome(r) => r \notin late /\ r # request

ShareInv ==
  /\ asked \in Seq(Requests \ NamedRequests)
  /\ \A i, j \in DOMAIN asked : asked[i] = asked[j] => i = j
  /\ command # "share-set" => asked = <<>>
  /\ results \in Seq([op : Requests, ok : BOOLEAN]) /\ Len(results) <= Len(asked)
  /\ \A i \in DOMAIN results :
       results[i].op = asked[i] /\ (results[i].ok => asked[i] \in executed)
  /\ shown = "summary" => Len(results) = Len(asked) /\ (exitCode = 0 <=> AllOK)

NoFields == [records |-> "absent", minutes |-> "absent"]

ListInv ==
  /\ command \in {"list", "get"} =>
       /\ phase \in {"start", "compact"} => fields = NoFields
       /\ phase = "body" /\ request = "base" => fields = NoFields
       /\ phase = "exited" /\ exitCode = 1 => fields = NoFields
       /\ phase = "exited" /\ exitCode = 0 => "base" \in executed
       /\ phase = "body" /\ request # "base" => "base" \in executed
       /\ phase = "body" /\ request = "records2" => "records1" \in executed
  /\ fields.minutes = "data" => "minutes" \in executed
  /\ fields.records = "data" => (IF command = "get" THEN "records1" ELSE "records") \in executed

PagesInv ==
  /\ phase \in {"start", "compact"} => pages = 0
  /\ \A i \in 1..pages : Pages[i] \in executed
  /\ shown = "merged" /\ more => pages = Len(Pages)

UploadInv ==
  /\ zip => phase \in {"body", "put"} /\ command = "upload"
  /\ phase = "body" /\ request = "complete" => stored
  /\ shown = "logid" => stored /\ "complete" \in executed

ToldInv ==
  /\ shown # "nothing" => phase = "exited"
  /\ shown = "answer" /\ command = "single" => "single" \in executed

CommandInv ==
  /\ CallInv /\ CmdTypes /\ Requested /\ Fresh
  /\ ShareInv /\ ListInv /\ PagesInv /\ UploadInv /\ ToldInv

LEMMA Strings ==
  /\ NamedRequests \subseteq Requests /\ NoRequest \notin Requests
  /\ NoRequest \notin NamedRequests
  /\ Pages \in Seq(Requests \ NamedRequests) /\ Len(Pages) \in Nat \ {0}
  /\ \A i \in 1..Len(Pages) : Pages[i] \in Requests /\ Pages[i] \notin NamedRequests
  /\ \A i, j \in 1..Len(Pages) : Pages[i] = Pages[j] => i = j
BY CommandAssumption, RestAssumption

\* The network and the proxy change nothing a command relies on.
LEMMA CallOfCommandFits ==
  ASSUME CommandInv, CallNext, UNCHANGED cmdVars
  PROVE  CommandInv'
<1>1. /\ CallInv' /\ UNCHANGED request
      /\ late' \subseteq late \cup {request} /\ executed \subseteq executed'
  BY CallStepFits DEF CommandInv
<1>2. UNCHANGED <<command, compact, phase, asked, results, fields, pages, more, zip, stored,
                  shown, exitCode>>
  BY DEF cmdVars, bodyVars
<1>3. callAt' = "idle" <=> callAt = "idle"
  BY <1>1 DEF CommandInv, CallInv
<1>4. CmdTypes' /\ Requested'
  BY <1>1, <1>2, <1>3 DEF CommandInv, CmdTypes, Requested
<1>5. Fresh'
  BY <1>1, <1>2 DEF CommandInv, Fresh, MayCome
<1>6. ShareInv'
  BY <1>1, <1>2 DEF CommandInv, ShareInv, AllOK
<1>7. ListInv' /\ PagesInv' /\ UploadInv' /\ ToldInv'
  BY <1>1, <1>2 DEF CommandInv, ListInv, PagesInv, UploadInv, ToldInv
<1> QED
  BY <1>1, <1>4, <1>5, <1>6, <1>7 DEF CommandInv

\* A new call, for a request that may still come.
LEMMA NewCall ==
  ASSUME CommandInv, NEW r \in Requests, MayCome(r), RequestProxy(r)
  PROVE  CallInv' /\ r \notin late /\ request' = r /\ UNCHANGED <<late, executed>>
BY NewCallFits DEF CommandInv, Fresh, RequestProxy

LEMMA StartFits ==
  ASSUME CommandInv, WithCompact \/ UsageError \/ ComplainsOnly \/ Runs
  PROVE  CommandInv'
<1> USE DEF CommandInv
<1>1. CASE WithCompact
  <2>1. /\ UNCHANGED <<command, compact, asked, results, fields, pages, more, zip, stored,
                       shown, exitCode>>
        /\ phase = "start" /\ compact /\ phase' = "compact" /\ RequestProxy("schema")
    BY <1>1 DEF WithCompact, bodyVars
  <2>2. "schema" \in Requests /\ MayCome("schema")
    BY <2>1, Strings DEF NamedRequests, MayCome
  <2>3. CallInv' /\ request' = "schema" /\ UNCHANGED <<late, executed>>
    BY <2>1, <2>2, NewCall
  <2>4. CmdTypes' /\ Requested'
    BY <2>1, <2>3 DEF CmdTypes, Requested
  <2>5. Fresh'
    BY <2>1, <2>3 DEF Fresh, MayCome
  <2>6. ShareInv' /\ ListInv' /\ PagesInv' /\ UploadInv' /\ ToldInv'
    BY <2>1, <2>3 DEF ShareInv, ListInv, PagesInv, UploadInv, ToldInv, CmdTypes, AllOK
  <2> QED
    BY <2>3, <2>4, <2>5, <2>6
<1>2. ASSUME MayRun, NEW code \in {0, 1}, NEW what \in {"nothing", "complaint"}, ExitWith(code, what),
             UNCHANGED <<command, compact, bodyVars, callVars>>,
             code = 0 => command = "single"
      PROVE  CommandInv'
  <2>1. /\ UNCHANGED <<command, compact, asked, results, fields, pages, more, zip, stored>>
        /\ UNCHANGED callVars
        /\ phase \in {"start", "compact"} /\ phase' = "exited" /\ shown' = what
        /\ exitCode' = code
    BY <1>2 DEF MayRun, ExitWith, bodyVars
  <2>2. CallInv' /\ UNCHANGED <<late, executed, request>>
    BY <2>1 DEF callVars, CallInv, CallTypeOK, BackoffGrows, InLate, DoneNow
  <2>3. CmdTypes' /\ Requested'
    BY <1>2, <2>1, <2>2 DEF CmdTypes, Requested
  <2>4. Fresh'
    BY <2>1, <2>2 DEF Fresh, MayCome
  <2>5. ShareInv' /\ PagesInv' /\ UploadInv' /\ ToldInv'
    BY <1>2, <2>1, <2>2 DEF ShareInv, PagesInv, UploadInv, ToldInv, CmdTypes, AllOK
  <2>6. ListInv'
    BY <1>2, <2>1, <2>2 DEF ListInv
  <2> QED
    BY <2>2, <2>3, <2>4, <2>5, <2>6
<1>3. CASE Runs
  <2>1. /\ UNCHANGED <<command, compact, asked, results, fields, pages, more, stored, shown, exitCode>>
        /\ phase \in {"start", "compact"} /\ phase' = "body" /\ zip' = (command = "upload")
    BY <1>3 DEF Runs, MayRun
  <2>2. CASE command = "share-set"
    <3>1. UNCHANGED callVars
      BY <1>3, <2>2 DEF Runs
    <3>2. CallInv' /\ UNCHANGED <<late, executed, request, callAt>>
      BY <3>1 DEF callVars, CallInv, CallTypeOK, BackoffGrows, InLate, DoneNow
    <3>3. phase = "start" /\ callAt = "idle" /\ request = NoRequest
      BY <2>1, <2>2 DEF Requested, CallInv
    <3>4. CmdTypes' /\ Requested'
      <4>1. \A i \in (Len(results) + 2)..Len(asked) : NoRequest # asked[i]
        <5> SUFFICES ASSUME NEW i \in (Len(results) + 2)..Len(asked)
                     PROVE  asked[i] \in Requests
          BY Strings
        <5>1. asked \in Seq(Requests \ NamedRequests) /\ Len(results) \in Nat
          BY DEF ShareInv
        <5>2. i \in 1..Len(asked)
          BY <5>1
        <5> QED
          BY <5>1, <5>2
      <4> QED
        BY <2>1, <2>2, <3>2, <3>3, <4>1, Strings DEF CmdTypes, Requested
    <3>5. Fresh'
      BY <2>1, <3>2, <3>3 DEF Fresh, MayCome
    <3>6. ShareInv' /\ ListInv' /\ PagesInv' /\ UploadInv' /\ ToldInv'
      BY <2>1, <2>2, <3>2, <3>3, Strings
         DEF ShareInv, ListInv, PagesInv, UploadInv, ToldInv, CmdTypes, AllOK, NamedRequests
    <3> QED
      BY <3>2, <3>4, <3>5, <3>6
  <2>3. CASE command # "share-set"
    <3> DEFINE r == FirstRequest[command]
    <3>1. /\ command = "single" => r = "single"
          /\ command \in {"list", "get"} => r = "base"
          /\ command = "transient" => r = Pages[1]
          /\ command = "upload" => r = "token"
          /\ command \in {"single", "list", "get", "transient", "upload"}
          /\ RequestProxy(r)
      BY <1>3, <2>3 DEF Runs, FirstRequest, CmdTypes
    <3> HIDE DEF r
    <3>2. r \in Requests /\ r # "schema" /\ r # "crash"
      BY <3>1, Strings DEF NamedRequests
    <3>3. MayCome(r)
      BY <2>1, <3>2 DEF MayCome
    <3>4. CallInv' /\ request' = r /\ UNCHANGED <<late, executed>>
      BY <3>1, <3>2, <3>3, NewCall
    <3>5. \A q \in Requests : q # "schema" => q \notin late
      BY <2>1 DEF Fresh, MayCome
    <3>6. pages = 0
      BY <2>1 DEF PagesInv
    <3>7. CmdTypes' /\ Requested'
      BY <2>1, <2>3, <3>1, <3>4, <3>6, Strings DEF CmdTypes, Requested
    <3>8. Fresh'
      <4> SUFFICES ASSUME NEW q \in Requests, MayCome(q)'
                   PROVE  q # "schema" /\ q # r
        BY <3>4, <3>5 DEF Fresh
      <4>1. CASE command = "transient"
        BY <2>1, <2>3, <3>1, <3>4, <3>6, <4>1, Strings DEF MayCome, NamedRequests
      <4>2. CASE command # "transient"
        BY <2>1, <2>3, <3>1, <3>4, <4>2 DEF MayCome
      <4> QED
        BY <4>1, <4>2
    <3>9. ShareInv' /\ PagesInv' /\ ToldInv'
      BY <2>1, <2>3, <3>4, <3>6 DEF ShareInv, PagesInv, ToldInv, CmdTypes, AllOK
    <3>10. ListInv' /\ UploadInv'
      BY <2>1, <2>3, <3>1, <3>4, Strings DEF ListInv, UploadInv, CmdTypes, NamedRequests
    <3> QED
      BY <3>4, <3>7, <3>8, <3>9, <3>10
  <2> QED
    BY <2>2, <2>3
<1>4. CASE UsageError
  BY <1>2, <1>4 DEF UsageError
<1>5. CASE ComplainsOnly
  BY <1>2, <1>5 DEF ComplainsOnly
<1> QED
  BY <1>1, <1>3, <1>4, <1>5

LEMMA NoCall ==
  ASSUME CommandInv, UNCHANGED callVars
  PROVE  CallInv' /\ UNCHANGED <<request, late, executed, callAt, callOutcome>>
BY DEF CommandInv, callVars, CallInv, CallTypeOK, BackoffGrows, InLate, DoneNow

LEMMA ExitFits ==
  ASSUME CommandInv, UNCHANGED callVars, phase' = "exited", UNCHANGED command
  PROVE  CallInv' /\ Requested' /\ Fresh' /\ UNCHANGED <<late, executed>>
<1>1. CallInv' /\ UNCHANGED <<late, executed>>
  BY NoCall
<1> QED
  BY <1>1 DEF Requested, Fresh, MayCome

\* Whose request it is.
LEMMA BodyOf ==
  ASSUME CommandInv, phase = "body"
  PROVE  /\ request = "single" => command = "single"
         /\ request \in {"base", "minutes"} => command \in {"list", "get"}
         /\ request = "records" => command = "list"
         /\ request \in {"records1", "records2"} => command = "get"
         /\ request \in {"token", "complete"} => command = "upload"
BY Strings DEF CommandInv, Requested, CmdTypes, NamedRequests

LEMMA AnsweredMeans ==
  ASSUME CommandInv, Answered
  PROVE  request \in executed
BY DEF CommandInv, CallInv, Answered

LEMMA SingleFits ==
  ASSUME CommandInv, SingleReturns
  PROVE  CommandInv'
<1>1. /\ UNCHANGED <<command, compact, asked, results, fields, pages, more, zip, stored>>
      /\ UNCHANGED callVars /\ phase = "body" /\ request = "single" /\ phase' = "exited"
      /\ \/ Answered /\ exitCode' = 0 /\ shown' = "answer"
         \/ exitCode' = 1 /\ shown' = "nothing"
  BY DEF SingleReturns, Returned, ExitWith, bodyVars
<1>2. command = "single"
  BY <1>1, BodyOf
<1>3. CallInv' /\ Requested' /\ Fresh' /\ UNCHANGED <<late, executed>>
  BY <1>1, ExitFits
<1>4. Answered => "single" \in executed
  BY <1>1, AnsweredMeans
<1>5. CmdTypes' /\ ShareInv' /\ PagesInv'
  BY <1>1, <1>3 DEF CommandInv, CmdTypes, ShareInv, PagesInv, ToldInv, AllOK
<1>6. ListInv' /\ UploadInv' /\ ToldInv'
  BY <1>1, <1>2, <1>3, <1>4 DEF CommandInv, ListInv, UploadInv, ToldInv, CmdTypes
<1> QED
  BY <1>3, <1>5, <1>6 DEF CommandInv

-----------------------------------------------------------------------------
\* share-set

LEMMA LeftOf ==
  ASSUME CommandInv
  PROVE  /\ Len(results) \in Nat /\ Len(asked) \in Nat /\ Len(results) <= Len(asked)
         /\ ShareLeft = <<>> => Len(results) = Len(asked)
         /\ ShareLeft # <<>> =>
              /\ command = "share-set"
              /\ Len(results) + 1 \in 1..Len(asked)
              /\ Head(ShareLeft) = asked[Len(results) + 1]
              /\ Head(ShareLeft) \in Requests /\ Head(ShareLeft) \notin NamedRequests
<1> DEFINE n == Len(results)
           m == Len(asked)
<1>1. /\ asked \in Seq(Requests \ NamedRequests) /\ n \in Nat /\ m \in Nat /\ n <= m
      /\ command # "share-set" => asked = <<>>
  BY DEF CommandInv, ShareInv
<1>2. ShareLeft = SubSeq(asked, n + 1, m)
  BY DEF ShareLeft
<1>3. Len(ShareLeft) = m - n /\ \A i \in 1..(m - n) : ShareLeft[i] = asked[n + i]
  BY <1>1, <1>2
<1>4. ShareLeft \in Seq(Requests \ NamedRequests)
  BY <1>1, <1>2
<1> HIDE DEF n, m
<1>5. CASE n = m
  <2>1. ShareLeft = <<>>
    BY <1>1, <1>3, <1>4, <1>5
  <2> QED
    BY <1>1, <1>5, <2>1 DEF n, m
<1>6. CASE n < m
  <2>1. ShareLeft # <<>> /\ Head(ShareLeft) = ShareLeft[1] /\ 1 \in 1..(m - n)
    BY <1>1, <1>3, <1>4, <1>6
  <2>2. Head(ShareLeft) = asked[n + 1] /\ n + 1 \in 1..m
    BY <1>1, <1>3, <1>6, <2>1
  <2>3. asked[n + 1] \in Requests /\ asked[n + 1] \notin NamedRequests
    BY <1>1, <2>2 DEF m
  <2>4. command = "share-set"
    BY <1>1, <1>6 DEF m
  <2> QED
    BY <1>1, <1>6, <2>1, <2>2, <2>3, <2>4 DEF n, m
<1> QED
  BY <1>1, <1>5, <1>6

LEMMA CollectFits ==
  ASSUME CommandInv, ShareLeft # <<>>, NEW ok \in BOOLEAN,
         ok => Head(ShareLeft) \in executed, Collect(Head(ShareLeft), ok), phase = "body",
         UNCHANGED <<command, compact, phase, asked, fields, pages, more, zip, stored,
                     shown, exitCode>>,
         UNCHANGED callVars
  PROVE  CommandInv'
<1>1. /\ Len(results) \in Nat /\ Len(asked) \in Nat /\ command = "share-set"
      /\ Len(results) + 1 \in 1..Len(asked)
      /\ Head(ShareLeft) = asked[Len(results) + 1] /\ Head(ShareLeft) \in Requests
  BY LeftOf
<1>2. /\ results \in Seq([op : Requests, ok : BOOLEAN])
      /\ results' = Append(results, [op |-> asked[Len(results) + 1], ok |-> ok])
  BY <1>1 DEF Collect, CommandInv, ShareInv
<1>3. /\ results' \in Seq([op : Requests, ok : BOOLEAN]) /\ Len(results') = Len(results) + 1
      /\ results'[Len(results) + 1] = [op |-> asked[Len(results) + 1], ok |-> ok]
      /\ \A i \in DOMAIN results : results'[i] = results[i]
      /\ DOMAIN results' = DOMAIN results \cup {Len(results) + 1}
  BY <1>1, <1>2
<1>4. CallInv' /\ UNCHANGED <<request, late, executed, callAt>>
  BY NoCall
<1>5. ShareInv'
  <2>1. \A i \in DOMAIN results' :
          results'[i].op = asked[i] /\ (results'[i].ok => asked[i] \in executed)
    BY <1>1, <1>3 DEF CommandInv, ShareInv
  <2>2. shown' # "summary"
    BY DEF CommandInv, ToldInv
  <2> QED
    BY <1>1, <1>3, <1>4, <2>1, <2>2 DEF CommandInv, ShareInv
<1>6. Fresh'
  BY <1>1, <1>3, <1>4 DEF CommandInv, Fresh, MayCome
<1>7. CmdTypes' /\ Requested'
  BY <1>1, <1>3, <1>4 DEF CommandInv, CmdTypes, Requested
<1>8. ListInv' /\ PagesInv' /\ UploadInv' /\ ToldInv'
  BY <1>4 DEF CommandInv, ListInv, PagesInv, UploadInv, ToldInv
<1> QED
  BY <1>4, <1>5, <1>6, <1>7, <1>8 DEF CommandInv

LEMMA ShareFits ==
  ASSUME CommandInv, ShareRejects \/ ShareSends \/ ShareCollects \/ ShareReports
  PROVE  CommandInv'
<1>1. CASE ShareRejects
  BY <1>1, CollectFits DEF ShareRejects, GoesOn
<1>2. CASE ShareCollects
  <2>1. /\ phase = "body" /\ request = Head(ShareLeft) /\ Answered \in BOOLEAN
        /\ Answered => Head(ShareLeft) \in executed
    BY <1>2, AnsweredMeans DEF ShareCollects, Returned, Answered
  <2> QED
    BY <1>2, <2>1, CollectFits DEF ShareCollects, GoesOn
<1>3. CASE ShareSends
  <2> DEFINE r == Head(ShareLeft)
  <2>1. /\ UNCHANGED <<command, compact, phase, asked, results, fields, pages, more, zip, stored,
                       shown, exitCode>>
        /\ phase = "body" /\ request # r /\ RequestProxy(r) /\ ShareLeft # <<>>
    BY <1>3 DEF ShareSends, cmdVars, bodyVars
  <2>2. /\ Len(results) \in Nat /\ Len(asked) \in Nat /\ command = "share-set"
        /\ Len(results) + 1 \in 1..Len(asked) /\ r = asked[Len(results) + 1]
        /\ r \in Requests /\ r \notin NamedRequests
    BY <2>1, LeftOf
  <2> HIDE DEF r
  <2>3. MayCome(r)
    BY <2>1, <2>2 DEF MayCome
  <2>4. CallInv' /\ request' = r /\ r \notin late /\ UNCHANGED <<late, executed>>
    BY <2>1, <2>2, <2>3, NewCall
  <2>5. CmdTypes' /\ Requested'
    <3>1. \A i \in (Len(results) + 2)..Len(asked) : r # asked[i]
      BY <2>2 DEF CommandInv, ShareInv
    <3> QED
      BY <2>1, <2>2, <2>4, <3>1 DEF CommandInv, CmdTypes, Requested
  <2>6. Fresh'
    <3> SUFFICES ASSUME NEW q \in Requests, MayCome(q)'
                 PROVE  q \notin late /\ q # r
      BY <2>4 DEF Fresh
    <3>1. CASE q = "crash"
      BY <2>1, <2>2, <3>1 DEF CommandInv, Fresh, MayCome, NamedRequests
    <3>2. CASE q # "crash"
      <4>1. q # r /\ \E i \in (Len(results) + 1)..Len(asked) : q = asked[i]
        BY <2>1, <2>2, <2>4, <3>2 DEF MayCome
      <4>2. PICK i \in (Len(results) + 2)..Len(asked) : q = asked[i]
        BY <2>2, <4>1
      <4>3. q # request
        BY <2>1, <2>2, <4>2 DEF CommandInv, Requested
      <4>4. MayCome(q)
        BY <2>1, <2>2, <4>1, <4>3 DEF MayCome
      <4> QED
        BY <4>1, <4>4 DEF CommandInv, Fresh
    <3> QED
      BY <3>1, <3>2
  <2>7. ShareInv' /\ PagesInv' /\ ToldInv'
    BY <2>1, <2>4 DEF CommandInv, ShareInv, PagesInv, ToldInv, AllOK
  <2>8. r # "complete"
    BY <2>2 DEF NamedRequests
  <2>9. ListInv' /\ UploadInv'
    BY <2>1, <2>2, <2>4, <2>8 DEF CommandInv, ListInv, UploadInv
  <2> QED
    BY <2>4, <2>5, <2>6, <2>7, <2>9 DEF CommandInv
<1>4. CASE ShareReports
  <2>1. /\ UNCHANGED <<command, compact, asked, results, fields, pages, more, zip, stored>>
        /\ UNCHANGED callVars /\ command = "share-set" /\ ShareLeft = <<>> /\ phase' = "exited"
        /\ exitCode' \in {0, 1} /\ shown' \in {"nothing", "summary"}
        /\ shown' = "summary" => (exitCode' = 0 <=> AllOK)
    BY <1>4 DEF ShareReports, ExitWith, bodyVars
  <2>2. CallInv' /\ Requested' /\ Fresh' /\ UNCHANGED <<late, executed>>
    BY <2>1, ExitFits
  <2>3. Len(results) = Len(asked)
    BY <2>1, LeftOf
  <2>4. ShareInv'
    BY <2>1, <2>2, <2>3 DEF CommandInv, ShareInv, AllOK
  <2>5. CmdTypes' /\ ListInv' /\ PagesInv' /\ UploadInv' /\ ToldInv'
    BY <2>1, <2>2 DEF CommandInv, CmdTypes, ListInv, PagesInv, UploadInv, ToldInv
  <2> QED
    BY <2>2, <2>4, <2>5 DEF CommandInv
<1> QED
  BY <1>1, <1>2, <1>3, <1>4

-----------------------------------------------------------------------------
\* list and get

\* The call that adds to a list goes on with the next one.
LEMMA ListGoesOn ==
  ASSUME CommandInv, phase = "body", NEW r \in {"records", "records1", "records2", "minutes"},
         RequestProxy(r), "base" \in executed,
         \/ request = "base" /\ command = "list" /\ r = "records"
         \/ request = "base" /\ command = "get" /\ r = "records1"
         \/ request \in {"records", "records1", "records2"} /\ r = "minutes"
         \/ request = "records1" /\ r = "records2" /\ "records1" \in executed,
         UNCHANGED <<command, compact, phase, asked, results, pages, more, zip, stored,
                     shown, exitCode>>,
         fields' \in [records : {"absent", "zero", "data"}, minutes : {"absent", "data"}],
         fields'.minutes = fields.minutes,
         fields'.records = "data"
           => (IF command = "get" THEN "records1" ELSE "records") \in executed
  PROVE  CommandInv'
<1>1. command \in {"list", "get"} /\ r \in Requests /\ r # "base"
  BY BodyOf, Strings DEF NamedRequests
<1>2. MayCome(r)
  BY <1>1 DEF MayCome
<1>3. CallInv' /\ request' = r /\ r \notin late /\ UNCHANGED <<late, executed>>
  BY <1>1, <1>2, NewCall
<1>4. CmdTypes'
  BY DEF CommandInv, CmdTypes
<1>5. Requested'
  BY <1>1, <1>3, BodyOf DEF Requested
<1>6. Fresh'
  <2> SUFFICES ASSUME NEW q \in Requests, MayCome(q)'
               PROVE  q \notin late /\ q # r
    BY <1>3 DEF Fresh
  <2>1. MayCome(q) /\ q # r
    BY <1>1, <1>3, BodyOf DEF MayCome
  <2> QED
    BY <2>1 DEF CommandInv, Fresh
<1>7. ListInv'
  BY <1>1, <1>3 DEF CommandInv, ListInv
<1>8. ShareInv' /\ PagesInv' /\ UploadInv' /\ ToldInv'
  BY <1>1, <1>3 DEF CommandInv, ShareInv, PagesInv, UploadInv, ToldInv, AllOK
<1> QED
  BY <1>3, <1>4, <1>5, <1>6, <1>7, <1>8 DEF CommandInv

LEMMA ListFits ==
  ASSUME CommandInv,
         \/ BaseReturns \/ RecordsReturn \/ MinutesReturn
         \/ \E page \in {"records1", "records2"} : RecordPageReturns(page)
  PROVE  CommandInv'
<1>0. /\ fields \in [records : {"absent", "zero", "data"}, minutes : {"absent", "data"}]
      /\ fields.records = "data" => (IF command = "get" THEN "records1" ELSE "records") \in executed
      /\ fields.minutes = "data" => "minutes" \in executed
  BY DEF CommandInv, CmdTypes, ListInv
<1>1. CASE BaseReturns
  <2>1. /\ UNCHANGED <<command, compact, asked, results, fields, pages, more, zip, stored>>
        /\ phase = "body" /\ request = "base"
    BY <1>1 DEF BaseReturns, Returned, bodyVars
  <2>2. command \in {"list", "get"} /\ (Answered => "base" \in executed) /\ fields = NoFields
    BY <2>1, BodyOf, AnsweredMeans DEF CommandInv, ListInv
  <2>3. ASSUME UNCHANGED callVars, phase' = "exited", exitCode' \in {0, 1},
               shown' \in {"nothing", "answer"}, exitCode' = 0 => Answered
        PROVE  CommandInv'
    <3>1. CallInv' /\ Requested' /\ Fresh' /\ UNCHANGED <<late, executed>>
      BY <2>1, <2>3, ExitFits
    <3>2. CmdTypes' /\ ShareInv' /\ PagesInv'
      BY <2>1, <2>3, <3>1 DEF CommandInv, CmdTypes, ShareInv, PagesInv, ToldInv, AllOK
    <3>3. ListInv' /\ UploadInv' /\ ToldInv'
      BY <2>1, <2>2, <2>3, <3>1 DEF CommandInv, ListInv, UploadInv, ToldInv
    <3> QED
      BY <3>1, <3>2, <3>3 DEF CommandInv
  <2>4. CASE Answered /\ GoesOn /\ RequestProxy(IF command = "get" THEN "records1" ELSE "records")
    <3>1. UNCHANGED <<phase, exitCode, shown>>
      BY <2>4 DEF GoesOn
    <3> QED
      BY <1>0, <2>1, <2>2, <2>4, <3>1, ListGoesOn
  <2> QED
    BY <1>1, <2>3, <2>4 DEF BaseReturns, ExitWith
<1>2. CASE RecordsReturn
  <2>1. /\ UNCHANGED <<command, compact, phase, asked, results, pages, more, zip, stored,
                       shown, exitCode>>
        /\ phase = "body" /\ request = "records" /\ RequestProxy("minutes")
    BY <1>2 DEF RecordsReturn, Returned, GoesOn
  <2>2. PICK read \in (IF Answered THEN {"data", "absent"} ELSE {"absent"}) :
          fields' = [fields EXCEPT !.records = read]
    BY <1>2 DEF RecordsReturn
  <2>3. command = "list" /\ (Answered => "records" \in executed)
    BY <2>1, BodyOf, AnsweredMeans
  <2>4. "base" \in executed
    BY <2>1, <2>3 DEF CommandInv, ListInv
  <2> QED
    BY <1>0, <2>1, <2>2, <2>3, <2>4, ListGoesOn
<1>3. ASSUME NEW page \in {"records1", "records2"}, RecordPageReturns(page)
      PROVE  CommandInv'
  <2>1. /\ UNCHANGED <<command, compact, phase, asked, results, pages, more, zip, stored,
                       shown, exitCode>>
        /\ phase = "body" /\ request = page
    BY <1>3 DEF RecordPageReturns, Returned, GoesOn
  <2>2. command = "get" /\ (Answered => page \in executed)
    BY <2>1, BodyOf, AnsweredMeans
  <2>3. "base" \in executed /\ (page = "records2" => "records1" \in executed)
    BY <2>1, <2>2 DEF CommandInv, ListInv
  <2>4. CASE Answered /\ page = "records1" /\ RequestProxy("records2") /\ UNCHANGED fields
    BY <1>0, <2>1, <2>2, <2>3, <2>4, ListGoesOn
  <2>5. CASE /\ Answered /\ fields' = [fields EXCEPT !.records = "data"]
             /\ RequestProxy("minutes")
    BY <1>0, <2>1, <2>2, <2>3, <2>5, ListGoesOn
  <2>6. CASE fields' = [fields EXCEPT !.records = "zero"] /\ RequestProxy("minutes")
    BY <1>0, <2>1, <2>2, <2>3, <2>6, ListGoesOn
  <2> QED
    BY <1>3, <2>4, <2>5, <2>6 DEF RecordPageReturns
<1>4. CASE MinutesReturn
  <2>1. /\ UNCHANGED <<command, compact, asked, results, pages, more, zip, stored>>
        /\ UNCHANGED callVars /\ phase = "body" /\ request = "minutes"
        /\ phase' = "exited" /\ exitCode' = 0 /\ shown' = "answer"
    BY <1>4 DEF MinutesReturn, Returned, ExitWith
  <2>2. PICK read \in (IF Answered THEN {"data", "absent"} ELSE {"absent"}) :
          fields' = [fields EXCEPT !.minutes = read]
    BY <1>4 DEF MinutesReturn
  <2>3. command \in {"list", "get"} /\ (Answered => "minutes" \in executed)
    BY <2>1, BodyOf, AnsweredMeans
  <2>4. "base" \in executed
    BY <2>1, <2>3 DEF CommandInv, ListInv
  <2>5. CallInv' /\ Requested' /\ Fresh' /\ UNCHANGED <<late, executed>>
    BY <2>1, ExitFits
  <2>6. /\ fields' \in [records : {"absent", "zero", "data"}, minutes : {"absent", "data"}]
        /\ fields'.records = fields.records
        /\ fields'.minutes = "data" => Answered
    BY <1>0, <2>2
  <2>7. CmdTypes' /\ ShareInv' /\ PagesInv'
    BY <2>1, <2>5, <2>6 DEF CommandInv, CmdTypes, ShareInv, PagesInv, AllOK
  <2>8. ListInv' /\ UploadInv' /\ ToldInv'
    BY <1>0, <2>1, <2>3, <2>4, <2>5, <2>6 DEF CommandInv, ListInv, UploadInv, ToldInv
  <2> QED
    BY <2>5, <2>7, <2>8 DEF CommandInv
<1> QED
  BY <1>1, <1>2, <1>3, <1>4

-----------------------------------------------------------------------------
\* transient

LEMMA PageFits ==
  ASSUME CommandInv, PageReturns
  PROVE  CommandInv'
<1>1. /\ UNCHANGED <<command, compact, asked, results, fields, zip, stored>>
      /\ command = "transient" /\ phase = "body" /\ request = Pages[pages + 1]
  BY DEF PageReturns, Returned
<1>2. /\ pages \in Nat /\ pages < Len(Pages) /\ Len(Pages) \in Nat
      /\ Answered => Pages[pages + 1] \in executed
      /\ \A i \in 1..pages : Pages[i] \in executed
  BY <1>1, AnsweredMeans, Strings DEF CommandInv, CmdTypes, Requested, PagesInv
<1>3. ASSUME UNCHANGED callVars, phase' = "exited", exitCode' \in {0, 1},
             shown' \in {"nothing", "page", "merged"}, pages' \in 0..Len(Pages), more' \in BOOLEAN,
             \A i \in 1..pages' : Pages[i] \in executed,
             shown' = "merged" /\ more' => pages' = Len(Pages)
      PROVE  CommandInv'
  <2>1. CallInv' /\ Requested' /\ Fresh' /\ UNCHANGED <<late, executed>>
    BY <1>1, <1>3, ExitFits
  <2>2. CmdTypes' /\ ShareInv' /\ PagesInv'
    BY <1>1, <1>3, <2>1 DEF CommandInv, CmdTypes, ShareInv, PagesInv, AllOK
  <2>3. ListInv' /\ UploadInv' /\ ToldInv'
    BY <1>1, <1>3, <2>1 DEF CommandInv, ListInv, UploadInv, ToldInv
  <2> QED
    BY <2>1, <2>2, <2>3 DEF CommandInv
<1>4. CASE ~Answered /\ ExitWith(1, "nothing") /\ UNCHANGED <<callVars, pages, more>>
  BY <1>2, <1>3, <1>4 DEF ExitWith, CommandInv, CmdTypes
<1>5. CASE Answered /\ ExitWith(0, "page") /\ UNCHANGED <<callVars, pages, more>>
  BY <1>2, <1>3, <1>5 DEF ExitWith, CommandInv, CmdTypes
<1>6. CASE /\ Answered /\ pages' = pages + 1 /\ more' \in BOOLEAN
           /\ ~(more' /\ pages' < Len(Pages)) /\ ExitWith(0, "merged") /\ UNCHANGED callVars
  BY <1>2, <1>3, <1>6 DEF ExitWith
<1>7. CASE /\ Answered /\ pages' = pages + 1 /\ more' \in BOOLEAN
           /\ more' /\ pages' < Len(Pages) /\ GoesOn /\ RequestProxy(Pages[pages' + 1])
  <2> DEFINE r == Pages[pages' + 1]
  <2>1. r = Pages[pages + 2] /\ pages + 2 \in 1..Len(Pages) /\ pages' = pages + 1
    BY <1>2, <1>7
  <2>2. r \in Requests /\ r \notin NamedRequests /\ RequestProxy(r)
    BY <1>7, <2>1, Strings
  <2>3. UNCHANGED <<phase, exitCode, shown>>
    BY <1>7 DEF GoesOn
  <2> HIDE DEF r
  <2>4. MayCome(r)
    BY <1>1, <2>1 DEF MayCome
  <2>5. CallInv' /\ request' = r /\ r \notin late /\ UNCHANGED <<late, executed>>
    BY <2>2, <2>4, NewCall
  <2>6. CmdTypes' /\ Requested'
    <3>1. pages' \in 0..Len(Pages) /\ pages' < Len(Pages) /\ r = Pages[pages' + 1]
      BY <1>2, <1>7, <2>1 DEF r
    <3> QED
      BY <1>1, <1>7, <2>3, <2>5, <3>1 DEF CommandInv, CmdTypes, Requested
  <2>7. Fresh'
    <3> SUFFICES ASSUME NEW q \in Requests, MayCome(q)'
                 PROVE  q \notin late /\ q # r
      BY <2>5 DEF Fresh
    <3>1. CASE q = "crash"
      <4>1. MayCome(q) /\ q # r
        BY <1>1, <2>2, <3>1 DEF MayCome, NamedRequests
      <4> QED
        BY <4>1 DEF CommandInv, Fresh
    <3>2. CASE q # "crash"
      <4>1. PICK i \in (pages + 3)..Len(Pages) : q = Pages[i]
        BY <1>1, <1>2, <2>1, <2>3, <3>2 DEF MayCome
      <4>2. i \in (pages + 2)..Len(Pages) /\ i # pages + 2 /\ i \in 1..Len(Pages)
        BY <1>2
      <4>3. MayCome(q)
        BY <1>1, <4>1, <4>2 DEF MayCome
      <4>4. q # r
        BY <2>1, <4>1, <4>2, Strings
      <4> QED
        BY <4>3, <4>4 DEF CommandInv, Fresh
    <3> QED
      BY <3>1, <3>2
  <2>8. PagesInv'
    BY <1>1, <1>2, <1>7, <2>1, <2>3, <2>5 DEF CommandInv, PagesInv, ToldInv
  <2>9. ShareInv' /\ ToldInv'
    BY <1>1, <2>3, <2>5 DEF CommandInv, ShareInv, ToldInv, AllOK
  <2>10. ListInv' /\ UploadInv'
    BY <1>1, <2>2, <2>3, <2>5 DEF CommandInv, ListInv, UploadInv, NamedRequests
  <2> QED
    BY <2>5, <2>6, <2>7, <2>8, <2>9, <2>10 DEF CommandInv
<1> QED
  BY <1>4, <1>5, <1>6, <1>7 DEF PageReturns

-----------------------------------------------------------------------------
\* upload

LEMMA UploadFits ==
  ASSUME CommandInv, TokenReturns \/ PutFileToCOS \/ CompleteReturns
  PROVE  CommandInv'
<1>1. ASSUME UNCHANGED <<command, compact, asked, results, fields, pages, more>>,
             command = "upload", UNCHANGED callVars, zip' = FALSE, phase' = "exited",
             stored' \in BOOLEAN, exitCode' \in {0, 1}, shown' \in {"nothing", "logid"},
             shown' = "logid" => stored' /\ "complete" \in executed
      PROVE  CommandInv'
  <2>1. CallInv' /\ Requested' /\ Fresh' /\ UNCHANGED <<late, executed>>
    BY <1>1, ExitFits
  <2>2. CmdTypes' /\ ShareInv' /\ PagesInv'
    BY <1>1, <2>1 DEF CommandInv, CmdTypes, ShareInv, PagesInv, AllOK
  <2>3. ListInv' /\ UploadInv' /\ ToldInv'
    BY <1>1, <2>1 DEF CommandInv, ListInv, UploadInv, ToldInv
  <2> QED
    BY <2>1, <2>2, <2>3 DEF CommandInv
<1>2. CASE TokenReturns
  <2>1. /\ UNCHANGED <<command, compact, asked, results, fields, pages, more, stored>>
        /\ UNCHANGED callVars /\ phase = "body" /\ request = "token" /\ command = "upload"
        /\ stored \in BOOLEAN
    BY <1>2, BodyOf DEF TokenReturns, Returned, CommandInv, CmdTypes
  <2>2. CASE zip' = FALSE /\ ExitWith(1, "nothing")
    BY <1>1, <2>1, <2>2 DEF ExitWith
  <2>3. CASE phase' = "put" /\ UNCHANGED <<zip, exitCode, shown>>
    <3>1. CallInv' /\ UNCHANGED <<request, late, executed>>
      BY <2>1, NoCall
    <3>2. CmdTypes' /\ Requested'
      BY <2>1, <2>3, <3>1 DEF CommandInv, CmdTypes, Requested
    <3>3. Fresh'
      BY <2>1, <2>3, <3>1 DEF CommandInv, Fresh, MayCome
    <3>4. ShareInv' /\ ListInv' /\ PagesInv' /\ UploadInv' /\ ToldInv'
      BY <2>1, <2>3, <3>1
         DEF CommandInv, ShareInv, ListInv, PagesInv, UploadInv, ToldInv, AllOK
    <3> QED
      BY <3>1, <3>2, <3>3, <3>4 DEF CommandInv
  <2> QED
    BY <1>2, <2>2, <2>3 DEF TokenReturns
<1>3. CASE PutFileToCOS
  <2>1. /\ UNCHANGED <<command, compact, asked, results, fields, pages, more>>
        /\ stored' \in BOOLEAN /\ phase = "put" /\ command = "upload" /\ request = "token"
    BY <1>3 DEF PutFileToCOS, CommandInv, Requested
  <2>2. CASE zip' = FALSE /\ ExitWith(1, "nothing") /\ UNCHANGED callVars
    BY <1>1, <2>1, <2>2 DEF ExitWith
  <2>3. CASE /\ stored' /\ phase' = "body" /\ RequestProxy("complete")
             /\ UNCHANGED <<zip, exitCode, shown>>
    <3>1. "complete" \in Requests /\ MayCome("complete")
      BY <2>1, Strings DEF NamedRequests, MayCome
    <3>2. CallInv' /\ request' = "complete" /\ UNCHANGED <<late, executed>>
      BY <2>3, <3>1, NewCall
    <3>3. CmdTypes' /\ Requested'
      BY <2>1, <2>3, <3>2 DEF CommandInv, CmdTypes, Requested
    <3>4. Fresh'
      BY <2>1, <2>3, <3>2 DEF CommandInv, Fresh, MayCome
    <3>5. ShareInv' /\ ListInv' /\ PagesInv' /\ UploadInv' /\ ToldInv'
      BY <2>1, <2>3, <3>2
         DEF CommandInv, ShareInv, ListInv, PagesInv, UploadInv, ToldInv, AllOK
    <3> QED
      BY <3>2, <3>3, <3>4, <3>5 DEF CommandInv
  <2> QED
    BY <1>3, <2>2, <2>3 DEF PutFileToCOS
<1>4. CASE CompleteReturns
  <2>1. /\ UNCHANGED <<command, compact, asked, results, fields, pages, more, stored>>
        /\ UNCHANGED callVars /\ phase = "body" /\ request = "complete" /\ command = "upload"
        /\ stored = TRUE /\ zip' = FALSE
        /\ Answered => "complete" \in executed
    BY <1>4, BodyOf, AnsweredMeans
       DEF CompleteReturns, Returned, CommandInv, CmdTypes, UploadInv
  <2> QED
    BY <1>1, <1>4, <2>1 DEF CompleteReturns, ExitWith
<1> QED
  BY <1>2, <1>3, <1>4

-----------------------------------------------------------------------------
\* A panic, and all commands together.

LEMMA PanicFits ==
  ASSUME CommandInv, Panics \/ CrashReported
  PROVE  CommandInv'
<1>1. CASE Panics
  <2>1. /\ UNCHANGED <<command, compact, asked, results, fields, pages, more, stored, shown, exitCode>>
        /\ phase \in {"start", "body", "put"} /\ phase' = "report" /\ zip' = FALSE
        /\ RequestProxy("crash")
    BY <1>1 DEF Panics
  <2>2. "crash" \in Requests /\ MayCome("crash")
    BY <2>1, Strings DEF NamedRequests, MayCome
  <2>3. CallInv' /\ request' = "crash" /\ UNCHANGED <<late, executed>>
    BY <2>1, <2>2, NewCall
  <2>4. CmdTypes'
    BY ZenonT(60), <2>1 DEF CommandInv, CmdTypes
  <2>5. Requested' /\ Fresh'
    BY <2>1 DEF Requested, Fresh, MayCome
  <2>6. ShareInv' /\ PagesInv' /\ ToldInv'
    BY <2>1, <2>3 DEF CommandInv, ShareInv, PagesInv, ToldInv, AllOK
  <2>7. ListInv' /\ UploadInv'
    BY <2>1, <2>3 DEF CommandInv, ListInv, UploadInv
  <2> QED
    BY <2>3, <2>4, <2>5, <2>6, <2>7 DEF CommandInv
<1>2. CASE CrashReported
  <2>1. /\ UNCHANGED <<command, compact, asked, results, fields, pages, more, zip, stored>>
        /\ UNCHANGED callVars /\ phase = "report" /\ phase' = "exited" /\ exitCode' = 2
        /\ shown' = "nothing"
    BY <1>2 DEF CrashReported, ExitWith, bodyVars
  <2>2. CallInv' /\ Requested' /\ Fresh' /\ UNCHANGED <<late, executed>>
    BY <2>1, ExitFits
  <2>3. CmdTypes' /\ ShareInv' /\ PagesInv'
    BY <2>1, <2>2 DEF CommandInv, CmdTypes, ShareInv, PagesInv, AllOK
  <2>4. ListInv' /\ UploadInv' /\ ToldInv'
    BY <2>1, <2>2 DEF CommandInv, ListInv, UploadInv, ToldInv
  <2> QED
    BY <2>2, <2>3, <2>4 DEF CommandInv
<1> QED
  BY <1>1, <1>2

LEMMA CommandStarts == CommandInit => CommandInv
<1> SUFFICES ASSUME CommandInit
             PROVE  CommandInv
  OBVIOUS
<1> USE DEF CommandInit, CallInit
<1>1. CallInv
  BY RestAssumption DEF CallInv, CallTypeOK, BackoffGrows, InLate, DoneNow, Outcomes
<1>2. command \in {"single", "share-set", "list", "get", "transient", "upload"}
  BY CommandAssumption
<1>3. CmdTypes
  <2>1. compact \in BOOLEAN /\ (compact => command = "single")
    BY DEF CommandInit
  <2>2. fields \in [records : {"absent", "zero", "data"}, minutes : {"absent", "data"}]
    BY DEF CommandInit
  <2>3. pages \in 0..Len(Pages) /\ more \in BOOLEAN
    BY Strings
  <2> QED
    BY <1>2, <2>1, <2>2, <2>3 DEF CmdTypes
<1>4. Requested /\ Fresh
  BY Strings DEF Requested, Fresh
<1>5. /\ asked \in Seq(Requests \ NamedRequests)
      /\ \A i, j \in DOMAIN asked : asked[i] = asked[j] => i = j
      /\ command # "share-set" => asked = <<>>
  <2>1. CASE command # "share-set"
    BY <2>1
  <2>2. CASE command = "share-set"
    <3> PICK n \in 0..Len(ShareOps) :
          asked \in {[i \in 1..n |-> ShareOps[at[i]]] :
                       at \in {f \in [1..n -> DOMAIN ShareOps] :
                               \A i, j \in 1..n : i < j => f[i] < f[j]}}
      BY <2>2 DEF Asks
    <3>1. PICK at \in [1..n -> DOMAIN ShareOps] :
            /\ \A i, j \in 1..n : i < j => at[i] < at[j]
            /\ asked = [i \in 1..n |-> ShareOps[at[i]]]
      OBVIOUS
    <3>2. n \in Nat /\ \A i \in 1..n : at[i] \in 1..Len(ShareOps) /\ at[i] \in Nat
      BY <3>1, CommandAssumption
    <3>3. \A i \in 1..n : asked[i] \in Requests \ NamedRequests
      BY <3>1, <3>2, CommandAssumption
    <3>4. asked \in Seq(Requests \ NamedRequests)
      BY <3>1, <3>2, <3>3
    <3>5. \A i, j \in 1..n : asked[i] = asked[j] => i = j
      <4> SUFFICES ASSUME NEW i \in 1..n, NEW j \in 1..n, asked[i] = asked[j], i # j
                   PROVE  FALSE
        OBVIOUS
      <4>1. at[i] = at[j]
        BY <3>1, <3>2, CommandAssumption
      <4>2. i < j \/ j < i
        BY <3>2
      <4> QED
        BY <3>1, <3>2, <4>1, <4>2
    <3> QED
      BY <2>2, <3>1, <3>4, <3>5
  <2> QED
    BY <2>1, <2>2
<1>6. ShareInv
  BY <1>5 DEF ShareInv
<1>7. ListInv /\ PagesInv /\ UploadInv /\ ToldInv
  BY DEF ListInv, PagesInv, UploadInv, ToldInv, NoFields
<1> QED
  BY <1>1, <1>3, <1>4, <1>6, <1>7 DEF CommandInv

\* The inductive invariant of a command and its calls.
THEOREM CommandInvariant == CommandSpec => []CommandInv
<1>1. CommandInv /\ [CommandNext]_commandVars => CommandInv'
  <2> SUFFICES ASSUME CommandInv, [CommandNext]_commandVars
               PROVE  CommandInv'
    OBVIOUS
  <2>1. CASE UNCHANGED commandVars
    <3>1. CallInv' /\ UNCHANGED <<request, late, executed, callAt, callOutcome>>
      BY <2>1, NoCall DEF commandVars
    <3>2. UNCHANGED <<command, compact, phase, asked, results, fields, pages, more, zip, stored,
                      shown, exitCode>>
      BY <2>1 DEF commandVars, cmdVars, bodyVars
    <3>3. CmdTypes' /\ Requested'
      BY <3>1, <3>2 DEF CommandInv, CmdTypes, Requested
    <3>4. Fresh'
      BY <3>1, <3>2 DEF CommandInv, Fresh, MayCome
    <3>5. ShareInv' /\ PagesInv' /\ ToldInv'
      BY <3>1, <3>2 DEF CommandInv, ShareInv, PagesInv, ToldInv, AllOK
    <3>6. ListInv' /\ UploadInv'
      BY <3>1, <3>2 DEF CommandInv, ListInv, UploadInv
    <3> QED
      BY <3>1, <3>3, <3>4, <3>5, <3>6 DEF CommandInv
  <2> QED
    BY <2>1, CallOfCommandFits, StartFits, SingleFits, ShareFits, ListFits, PageFits, UploadFits,
       PanicFits DEF CommandNext
<1> QED
  BY <1>1, CommandStarts, PTL DEF CommandSpec

LEMMA ElementsOf ==
  ASSUME NEW S, NEW s \in Seq(S), NEW i \in DOMAIN s
  PROVE  s[i] \in S
OBVIOUS

\* Calls and commands keep to their types.
THEOREM CommandsTyped == CommandSpec => [](CallTypeOK /\ CommandTypeOK)
<1>1. CommandInv => CallTypeOK /\ CommandTypeOK
  <2> SUFFICES ASSUME CommandInv
               PROVE  CallTypeOK /\ CommandTypeOK
    OBVIOUS
  <2>1. results \in Seq([op : Requests, ok : BOOLEAN])
    BY DEF CommandInv, ShareInv
  <2>2. \A i \in DOMAIN results : results[i] \in [op : Requests, ok : BOOLEAN]
    BY <2>1, ElementsOf
  <2> QED
    BY <2>2 DEF CommandInv, CallInv, CmdTypes, CommandTypeOK
<1> QED
  BY <1>1, CommandInvariant, PTL

\* Whatever the network loses or delays and whichever call fails: the server
\* executes the request of a call at most once per attempt left unanswered and
\* once for the answered one, an "ok" was executed, the pauses grow, and the
\* output and the exit code of the command say what its calls did (proxy.go,
\* retry.go, the commands of cmd/, root.go).
THEOREM CallsAreHonest == CommandSpec => []RestCallsHonest
<1>1. CommandInv => RestCallsHonest
  <2> SUFFICES ASSUME CommandInv
               PROVE  RestCallsHonest
    OBVIOUS
  <2>1. BackoffGrows
    BY DEF CommandInv, CallInv
  <2>2. CallTellsTheTruth
    BY DEF CommandInv, CallInv, CallTypeOK, CallTellsTheTruth, InLate, DoneNow
  <2>3. ShareTold
    <3> SUFFICES ASSUME command = "share-set", shown = "summary"
                 PROVE  /\ [i \in DOMAIN results |-> results[i].op] = asked
                        /\ exitCode = 0 <=> AllOK
                        /\ \A i \in DOMAIN results : results[i].ok => results[i].op \in executed
      BY DEF ShareTold
    <3>1. /\ Len(results) = Len(asked) /\ (exitCode = 0 <=> AllOK)
          /\ asked \in Seq(Requests \ NamedRequests)
          /\ results \in Seq([op : Requests, ok : BOOLEAN])
          /\ \A i \in DOMAIN results :
               results[i].op = asked[i] /\ (results[i].ok => asked[i] \in executed)
      BY DEF CommandInv, ShareInv
    <3>2. DOMAIN results = DOMAIN asked /\ asked = [i \in DOMAIN asked |-> asked[i]]
      BY <3>1
    <3> QED
      BY <3>1, <3>2
  <2>4. ListTold
    BY DEF CommandInv, ListInv, NoFields, ListTold
  <2>5. PagesTold
    BY DEF CommandInv, PagesInv, PagesTold
  <2>6. UploadTold
    BY DEF CommandInv, UploadInv, UploadTold
  <2>7. shown = "answer" /\ command = "single" => "single" \in executed
    BY DEF CommandInv, ToldInv
  <2> QED
    BY <2>1, <2>2, <2>3, <2>4, <2>5, <2>6, <2>7 DEF RestCallsHonest, CommandTellsTheTruth
<1> QED
  BY <1>1, CommandInvariant, PTL

-----------------------------------------------------------------------------
\* The consumer.

CleanEnds == {"limit", "signal", "timeout", "shutdown"}

\* What the reader has in hand, and the order of what waits for the main loop.
ReaderInv ==
  /\ stdout \in Seq(Nat \X Nat)
  /\ stage \in {"idle", "dial", "ack", "ready"} =>
       reader.at = "off" /\ frameCh = <<>> /\ fetched = 0 /\ stdout = <<>> /\ delivered = 0
  /\ stage # "idle" \/ max = 0
  /\ \A i \in 1..Len(frameCh) :
       /\ frameCh[i].is # "frame" => reader.at = "done"
       /\ frameCh[i].is = "frame" => frameCh[i].n \in 1..fetched
  /\ reader.at = "send" /\ reader.pkt.is = "frame" => reader.pkt.n = fetched /\ fetched > 0

\* On stdout are the lines of the first h frames and the first j lines of the
\* frame behind them, and no other ones.
Written(h, j) ==
  /\ \A i \in DOMAIN stdout :
       stdout[i][1] <= h \/ (stdout[i][1] = h + 1 /\ stdout[i][2] <= j)
  /\ \A n \in 1..h : \A k \in 1..sent[n].lines : <<n, k>> \in Range(stdout)
  /\ \A k \in 1..j : <<h + 1, k>> \in Range(stdout)

\* The main loop has taken the first t frames out of frameCh: those that wait
\* there, and in the reader's hand, are the next ones.
Taken(t) ==
  /\ \A i \in 1..Len(frameCh) : frameCh[i].is = "frame" => frameCh[i].n = t + i
  /\ reader.at = "read" => fetched = t + Len(frameCh)
  /\ reader.at = "send" /\ reader.pkt.is = "frame" => fetched = t + Len(frameCh) + 1

\* Lines from + 1 to to of frame h + 1 are what --max-events still wants of it.
StillWanted(h, from, to) ==
  /\ h < fetched /\ from <= to /\ to <= sent[h + 1].lines
  /\ max > 0 => delivered + (to - from) <= max
  /\ to < sent[h + 1].lines => max > 0 /\ delivered + (to - from) = max

\* The main loop has handled the first h frames, and it is in the middle of the
\* next one if its write blocks.
Handled(h) ==
  IF Stalled
  THEN /\ Written(h, writing.from) /\ Taken(h + 1)
       /\ writing.frame = h + 1 /\ StillWanted(h, writing.from, writing.to)
  ELSE Written(h, 0) /\ Taken(h)

LoopInv ==
  /\ stage = "loop" => reader.at # "off" /\ \E h \in 0..fetched : Handled(h)
  /\ stage \in {"idle", "dial", "ack", "ready", "loop"} /\ max > 0 => delivered < max
  /\ Stalled => stage = "loop"

\* What the reason of the end stands for.
EndInv ==
  /\ stage \in {"idle", "dial", "ack", "ready", "loop"} => outcome.code = 0 /\ outcome.reason = "none"
  /\ stage \in {"leave", "drain"} => outcome.code = 0 /\ outcome.reason \in CleanEnds
  /\ stage = "exit" => (outcome.code = 0 <=> outcome.reason \in CleanEnds)
  /\ stage = "exit" /\ outcome.code = 0 => reader.at = "done"
  /\ loopDone => signalled = "seen" \/ timer = "fired"
  /\ outcome.reason = "timeout" => TimeoutFired
  /\ outcome.reason = "signal" => signalled = "seen" \/ pipe = "epipe"
  /\ outcome.reason = "limit" => delivered = max
  /\ outcome.reason = "shutdown" =>
       (\E i \in 1..fetched : sent[i].kind = "bye") \/ reader.at = "done"

ConsumerInv ==
  /\ ConsumerTypeOK /\ ReaderInv /\ LoopInv /\ EndInv /\ OutputIsAPrefix

\* The first of the checks that fail is one of them.
LEMMA FirstFailing ==
  ASSUME NEW failing \in SUBSET (1..Len(Checks)), failing # {}
  PROVE  Min(failing) \in 1..Len(Checks)
<1>1. failing \subseteq {1, 2, 3, 4, 5, 6, 7, 8}
  BY DEF Checks
<1>2. \/ 1 \in failing \/ 2 \in failing \/ 3 \in failing \/ 4 \in failing
      \/ 5 \in failing \/ 6 \in failing \/ 7 \in failing \/ 8 \in failing
  BY <1>1
<1>3. \E x \in failing : \A y \in failing : x <= y
  BY <1>1, <1>2
<1>4. Min(failing) \in failing
  BY <1>3 DEF Min
<1> QED
  BY <1>4

LEMMA FrameTypes ==
  ASSUME ConsumerTypeOK
  PROVE  /\ Len(sent) \in Nat /\ fetched \in Nat /\ fetched <= Len(sent)
         /\ \A n \in 1..Len(sent) : /\ sent[n] \in Frames /\ sent[n].lines \in Nat
                                    /\ sent[n].kind # "event" => sent[n].lines = 0
                                    /\ sent[n].kind \in Kinds
<1>1. sent \in Seq(Frames) /\ fetched \in 0..Len(sent)
  BY DEF ConsumerTypeOK
<1>2. \A f \in Frames : f.lines \in Nat /\ f.kind \in Kinds /\ (f.kind # "event" => f.lines = 0)
  <2> SUFFICES ASSUME NEW f \in Frames
               PROVE  f.lines \in Nat /\ f.kind \in Kinds /\ (f.kind # "event" => f.lines = 0)
    OBVIOUS
  <2>1. CASE f \in [kind : Kinds \ {"event"}, lines : {0}]
    BY <2>1
  <2>2. CASE f \in [kind : Kinds \intersect {"event"}, lines : LineCounts]
    <3>1. f.kind \in Kinds \intersect {"event"} /\ f.lines \in LineCounts
      BY <2>2
    <3> QED
      BY <3>1, ConsumerAssumption
  <2> QED
    BY <2>1, <2>2 DEF Frames
<1> QED
  BY <1>1, <1>2

LEMMA LineOf ==
  ASSUME NEW x
  PROVE  x \in LinesRead <=> \E n \in 1..fetched : \E k \in 1..sent[n].lines : x = <<n, k>>
BY DEF LinesRead

LEMMA LineNext ==
  ASSUME NEW x
  PROVE  x \in LinesRead' <=> \E n \in 1..fetched' : \E k \in 1..sent'[n].lines : x = <<n, k>>
BY DEF LinesRead

\* What is on stdout stays right while more is read.
LEMMA OutputStays ==
  ASSUME ConsumerInv, UNCHANGED <<stdout, delivered, max>>, fetched' \in Nat, fetched <= fetched',
         \A n \in 1..fetched : sent'[n] = sent[n]
  PROVE  OutputIsAPrefix'
<1>1. fetched \in Nat /\ stdout \in Seq(Nat \X Nat)
  BY FrameTypes DEF ConsumerInv, ReaderInv
<1>2. LinesRead \subseteq LinesRead'
  BY <1>1, LineOf, LineNext
<1>3. ASSUME NEW line \in LinesRead', NEW i \in DOMAIN stdout, ComesBefore(line, stdout[i])
      PROVE  line \in Range(stdout)
  <2>1. stdout[i] \in LinesRead
    BY DEF ConsumerInv, OutputIsAPrefix, Range
  <2>2. stdout[i][1] \in 1..fetched
    BY <2>1, LineOf
  <2> PICK n \in 1..fetched' : \E k \in 1..sent'[n].lines : line = <<n, k>>
    BY LineNext
  <2>3. PICK k \in 1..sent'[n].lines : line = <<n, k>>
    OBVIOUS
  <2>4. n <= fetched
    BY <1>1, <1>3, <2>2, <2>3 DEF ComesBefore
  <2>5. n \in 1..fetched /\ k \in 1..sent[n].lines
    BY <1>1, <2>3, <2>4
  <2>6. line \in LinesRead
    BY <2>3, <2>5, LineOf
  <2> QED
    BY <1>3, <2>6 DEF ConsumerInv, OutputIsAPrefix
<1> QED
  BY <1>2, <1>3 DEF ConsumerInv, OutputIsAPrefix

\* What was handled stays handled while more is read.
LEMMA HandledKeeps ==
  ASSUME ConsumerInv, NEW h \in 0..fetched, Handled(h), UNCHANGED <<stdout, writing, delivered, max>>,
         fetched' \in Nat, fetched <= fetched', \A n \in 1..fetched : sent'[n] = sent[n],
         \A t \in Nat : Taken(t) => Taken(t)'
  PROVE  Handled(h)' /\ h \in 0..fetched'
<1>1. fetched \in Nat /\ h \in Nat /\ h + 1 \in Nat /\ h <= fetched
  BY FrameTypes DEF ConsumerInv
<1>2. UNCHANGED Stalled
  BY DEF Stalled
<1>3. 1..h \subseteq 1..fetched
  BY <1>1
<1>5. ASSUME Stalled
      PROVE  Handled(h)'
  <2>1. /\ Written(h, writing.from) /\ Taken(h + 1)
        /\ writing.frame = h + 1 /\ StillWanted(h, writing.from, writing.to)
    BY <1>5 DEF Handled
  <2>2. h + 1 \in 1..fetched
    BY <1>1, <2>1 DEF StillWanted
  <2>3. StillWanted(h, writing.from, writing.to)'
    BY <1>1, <2>1, <2>2 DEF StillWanted
  <2>4. Written(h, writing.from)'
    BY <1>3, <2>1 DEF Written
  <2> QED
    BY <1>1, <1>2, <1>5, <2>1, <2>3, <2>4 DEF Handled
<1>6. ASSUME ~Stalled
      PROVE  Handled(h)'
  <2>1. Written(h, 0) /\ Taken(h)
    BY <1>6 DEF Handled
  <2>2. Written(h, 0)'
    BY <1>3, <2>1 DEF Written
  <2> QED
    BY <1>1, <1>2, <1>6, <2>1, <2>2 DEF Handled
<1> QED
  BY <1>1, <1>5, <1>6

Untold == {"idle", "dial", "ack", "ready", "loop"}

\* Before the loop: the checks, the handshake, the start of the goroutines.
LEMMA StartOfConsumerFits ==
  ASSUME ConsumerInv,
         \/ \E m \in MaxEvents, bad \in SUBSET Range(Checks) : Run(m, bad)
         \/ SendHello \/ ReadHelloAck \/ Arm
  PROVE  ConsumerInv'
<1>1. /\ UNCHANGED <<sent, fetched, frameCh, signalled, timer, loopDone, stdout, pipe, writing, delivered>>
      /\ stage \in {"idle", "dial", "ack", "ready"}
      /\ reader.at = "off" /\ frameCh = <<>> /\ fetched = 0 /\ stdout = <<>> /\ delivered = 0
      /\ outcome.code = 0 /\ outcome.reason = "none"
  BY DEF Run, SendHello, ReadHelloAck, Arm, ConsumerInv, ReaderInv, EndInv, busEndVars, readerVars,
         stopVars, outputVars
<1>0. UNCHANGED Stalled /\ ~Stalled
  BY <1>1 DEF ConsumerInv, LoopInv, Stalled
<1>2. /\ max' \in MaxEvents \cup {0} /\ max' \in Nat
      /\ stage' = "idle" => max' = 0
      /\ UNCHANGED reader \/ (stage' = "loop" /\ reader' = [reader EXCEPT !.at = "read"])
      /\ link' \in {"none", "open", "eof", "reset", "closed"}
      /\ \/ stage' \in {"dial", "ack", "ready", "loop"} /\ UNCHANGED outcome
            /\ (stage' = "loop" => reader'.at = "read")
         \/ /\ stage' = "exit"
            /\ \E r \in {"dial", "ack"} \cup Range(Checks) : outcome' = [code |-> 1, reason |-> r]
  <2>1. max \in MaxEvents \cup {0} /\ max \in Nat /\ link \in {"none", "open", "eof", "reset", "closed"}
        /\ reader \in [at : {"off", "read", "send", "done"}, pkt : Packets]
    BY ConsumerAssumption DEF ConsumerInv, ConsumerTypeOK
  <2>2. ASSUME NEW m \in MaxEvents, NEW bad \in SUBSET Range(Checks), Run(m, bad)
        PROVE  /\ max' = m /\ UNCHANGED <<reader, link>>
               /\ \/ stage' = "dial" /\ UNCHANGED outcome
                  \/ /\ stage' = "exit"
                     /\ \E r \in Range(Checks) : outcome' = [code |-> 1, reason |-> r]
    <3> DEFINE failing == {i \in 1..Len(Checks) : Checks[i] \in bad}
    <3>1. CASE failing = {}
      BY <2>2, <3>1 DEF Run, busEndVars, readerVars
    <3>2. CASE failing # {}
      <4>1. Min(failing) \in 1..Len(Checks)
        BY <3>2, FirstFailing
      <4>2. Checks[Min(failing)] \in Range(Checks)
        BY <4>1 DEF Checks, Range
      <4> QED
        BY <2>2, <3>2, <4>2 DEF Run, busEndVars, readerVars
    <3> QED
      BY <3>1, <3>2
  <2>3. CASE SendHello
    BY <1>1, <2>1, <2>3 DEF SendHello, Exit, readerVars, ConsumerInv, ReaderInv
  <2>4. CASE ReadHelloAck
    BY <1>1, <2>1, <2>4 DEF ReadHelloAck, Exit, readerVars, ConsumerInv, ReaderInv
  <2>5. CASE Arm
    BY <1>1, <2>1, <2>5 DEF Arm, busEndVars, ConsumerInv, ReaderInv
  <2> QED
    BY <2>1, <2>2, <2>3, <2>4, <2>5, ConsumerAssumption
<1>3. Range(Checks) = {"key", "param", "jq", "bounds", "dir", "mkdir", "user", "bus"}
  BY DEF Checks, Range
<1>4. ConsumerTypeOK'
  <2>1. UNCHANGED sent /\ outcome' \in [code : {0, 1, 141, 143}, reason : ExitReasons]
    BY <1>1, <1>2 DEF ConsumerInv, ConsumerTypeOK, ExitReasons
  <2>2. reader' \in [at : {"off", "read", "send", "done"}, pkt : Packets]
    BY <1>2 DEF ConsumerInv, ConsumerTypeOK
  <2>3. Packets' = Packets
    BY DEF Packets
  <2> QED
    BY <1>1, <1>2, <2>1, <2>2, <2>3 DEF ConsumerInv, ConsumerTypeOK
<1>5. ReaderInv'
  BY <1>1, <1>2 DEF ConsumerInv, ReaderInv
<1>6. LoopInv'
  BY <1>0, <1>1, <1>2 DEF LoopInv, Handled, Written, Taken
<1>7. EndInv'
  BY <1>1, <1>2, <1>3 DEF ConsumerInv, EndInv, CleanEnds, TimeoutFired
<1>8. OutputIsAPrefix'
  BY <1>1, <1>2 DEF OutputIsAPrefix, Range
<1> QED
  BY <1>4, <1>5, <1>6, <1>7, <1>8 DEF ConsumerInv

\* The bus writes, the connection ends, a signal comes, the timer fires.
LEMMA SurroundingsFit ==
  ASSUME ConsumerInv,
         \/ \E f \in Frames : BusWrites(f)
         \/ \E how \in {"eof", "reset"} : BusCloses(how)
         \/ Signal \/ WatcherCancels \/ TimerFires
  PROVE  ConsumerInv'
<1> USE DEF busEndVars, readerVars, stopVars, outputVars
<1>1. UNCHANGED <<max, fetched, frameCh, reader, stdout, pipe, writing, delivered>>
  BY DEF BusWrites, BusCloses, Signal, WatcherCancels, TimerFires
<1>2. /\ sent' \in Seq(Frames) /\ Len(sent') <= MaxFrames /\ Len(sent) <= Len(sent')
      /\ \A n \in 1..fetched : sent'[n] = sent[n]
  <2>1. CASE \E f \in Frames : BusWrites(f)
    <3> PICK f \in Frames : BusWrites(f)
      BY <2>1
    <3>1. sent' = Append(sent, f) /\ Len(sent) < MaxFrames
      BY DEF BusWrites
    <3>2. sent \in Seq(Frames) /\ fetched \in Nat /\ fetched <= Len(sent) /\ MaxFrames \in Nat
      BY FrameTypes, ConsumerAssumption DEF ConsumerInv, ConsumerTypeOK
    <3> QED
      BY <3>1, <3>2
  <2>2. CASE ~\E f \in Frames : BusWrites(f)
    <3>1. UNCHANGED sent
      BY <2>2 DEF BusCloses, Signal, WatcherCancels, TimerFires
    <3> QED
      BY <3>1 DEF ConsumerInv, ConsumerTypeOK
  <2> QED
    BY <2>1, <2>2
<1>3. /\ link' \in {"none", "open", "eof", "reset", "closed"}
      /\ signalled' \in {"no", "queued", "seen", "fatal"}
      /\ signalled = "seen" => signalled' = "seen"
      /\ timer' \in {"armed", "stored", "fired"}
      /\ timer = "fired" => timer' = "fired"
      /\ TimeoutFired => TimeoutFired'
      /\ loopDone' \in BOOLEAN
      /\ loopDone' => loopDone \/ signalled' = "seen" \/ timer' = "fired"
  <2> USE DEF ConsumerInv, ConsumerTypeOK, TimeoutFired
  <2>1. CASE \E f \in Frames : BusWrites(f)
    BY <2>1 DEF BusWrites
  <2>2. CASE \E how \in {"eof", "reset"} : BusCloses(how)
    BY <2>2 DEF BusCloses
  <2>3. CASE Signal
    BY <2>3 DEF Signal
  <2>4. CASE WatcherCancels
    BY <2>4 DEF WatcherCancels
  <2>5. CASE TimerFires
    <3>1. UNCHANGED <<link, signalled>>
      BY <2>5 DEF TimerFires
    <3>2. CASE timer = "armed" /\ timer' = "stored" /\ UNCHANGED loopDone
      BY <3>1, <3>2
    <3>3. CASE timer = "stored" /\ timer' = "fired" /\ loopDone' = TRUE
      BY <3>1, <3>3
    <3> QED
      BY <2>5, <3>2, <3>3 DEF TimerFires
  <2> QED
    BY <2>1, <2>2, <2>3, <2>4, <2>5
<1>4. \/ UNCHANGED <<stage, outcome>>
      \/ /\ stage \in {"dial", "ack", "ready"} /\ stage' = "exit"
         /\ outcome' = [code |-> 143, reason |-> "killed"]
  BY DEF BusWrites, BusCloses, Signal, WatcherCancels, TimerFires, Exit
<1>5. ConsumerTypeOK'
  <2>1. outcome' \in [code : {0, 1, 141, 143}, reason : ExitReasons]
    BY <1>4 DEF ConsumerInv, ConsumerTypeOK, ExitReasons
  <2>2. fetched' \in 0..Len(sent')
    BY <1>1, <1>2, FrameTypes DEF ConsumerInv
  <2>3. stage' \in {"idle", "dial", "ack", "ready", "loop", "leave", "drain", "exit"}
    BY <1>4 DEF ConsumerInv, ConsumerTypeOK
  <2> QED
    BY <1>1, <1>2, <1>3, <2>1, <2>2, <2>3 DEF ConsumerInv, ConsumerTypeOK, Packets
<1>6. ReaderInv'
  BY <1>1, <1>4 DEF ConsumerInv, ReaderInv
<1>7. LoopInv'
  <2>1. fetched' \in Nat /\ fetched <= fetched'
    BY <1>1, FrameTypes DEF ConsumerInv
  <2>2. ASSUME NEW h \in 0..fetched, Handled(h)
        PROVE  Handled(h)' /\ h \in 0..fetched'
    <3>1. \A t \in Nat : Taken(t) => Taken(t)'
      BY <1>1 DEF Taken
    <3> QED
      BY <1>1, <1>2, <2>1, <2>2, <3>1, HandledKeeps
  <2>3. UNCHANGED Stalled /\ (Stalled => stage = "loop")
    BY <1>1 DEF ConsumerInv, LoopInv, Stalled
  <2> QED
    BY <1>1, <1>4, <2>2, <2>3 DEF ConsumerInv, LoopInv
<1>8. EndInv'
  BY <1>1, <1>2, <1>3, <1>4 DEF ConsumerInv, EndInv, CleanEnds
<1>9. OutputIsAPrefix'
  BY <1>1, <1>2, OutputStays, FrameTypes DEF ConsumerInv
<1> QED
  BY <1>5, <1>6, <1>7, <1>8, <1>9 DEF ConsumerInv

\* The reader goroutine.
LEMMA ReaderFits ==
  ASSUME ConsumerInv, ReaderNext
  PROVE  ConsumerInv'
<1>0. /\ fetched \in Nat /\ fetched <= Len(sent) /\ sent \in Seq(Frames) /\ Len(sent) <= MaxFrames
      /\ frameCh \in Seq(Packets) /\ Len(frameCh) \in Nat /\ MaxFrames \in Nat
      /\ reader \in [at : {"off", "read", "send", "done"}, pkt : Packets]
  BY FrameTypes, ConsumerAssumption DEF ConsumerInv, ConsumerTypeOK
<1>1. /\ UNCHANGED <<max, stage, outcome, sent, link, signalled, timer, loopDone, stdout, pipe, writing, delivered>>
      /\ reader.at \in {"read", "send"}
  BY DEF ReaderNext, ReaderReads, ReaderSends, busEndVars, stopVars, outputVars
<1>2. stage \notin {"idle", "dial", "ack", "ready"}
  BY <1>1 DEF ConsumerInv, ReaderInv
<1>3. CASE ReaderReads
  <2>1. /\ UNCHANGED frameCh /\ reader.at = "read" /\ reader'.at = "send"
        /\ fetched' \in {fetched, fetched + 1} /\ fetched' <= Len(sent)
        /\ reader' \in [at : {"off", "read", "send", "done"}, pkt : Packets]
        /\ reader'.pkt.is = "frame" => fetched' = fetched + 1 /\ reader'.pkt.n = fetched'
    <3>1. CASE fetched' = fetched + 1 /\ fetched < Len(sent)
               /\ reader' = [at |-> "send", pkt |-> Packet(fetched')]
      <4>1. Packet(fetched') \in Packets
        BY <1>0, <3>1 DEF Packet, Packets
      <4> QED
        BY <1>0, <1>3, <3>1, <4>1 DEF ReaderReads, Packet
    <3>2. CASE /\ \/ UNCHANGED fetched
                  \/ fetched' = fetched + 1 /\ fetched < Len(sent)
               /\ reader' = [at |-> "send", pkt |-> Broken] \/ reader' = [at |-> "send", pkt |-> CleanEnd]
      BY <1>0, <1>3, <3>2 DEF ReaderReads, Packets, Broken, CleanEnd
    <3> QED
      BY <1>3, <3>1, <3>2 DEF ReaderReads
  <2>2. ConsumerTypeOK'
    BY <1>0, <1>1, <2>1 DEF ConsumerInv, ConsumerTypeOK, Packets
  <2>3. ReaderInv'
    BY <1>0, <1>1, <1>2, <2>1 DEF ConsumerInv, ReaderInv
  <2>4. LoopInv'
    <3>1. ASSUME NEW h \in 0..fetched, Handled(h)
          PROVE  Handled(h)' /\ h \in 0..fetched'
      <4>1. fetched' \in Nat /\ fetched <= fetched'
        BY <1>0, <2>1
      <4>2. ASSUME NEW t \in Nat, Taken(t)
            PROVE  Taken(t)'
        <5>1. fetched = t + Len(frameCh)
          BY <2>1, <4>2 DEF Taken
        <5>2. reader'.pkt.is = "frame" => fetched' = t + Len(frameCh') + 1
          BY <1>0, <2>1, <5>1
        <5> QED
          BY <2>1, <4>2, <5>2 DEF Taken
      <4> QED
        BY <1>1, <3>1, <4>1, <4>2, HandledKeeps
    <3>2. UNCHANGED Stalled
      BY <1>1 DEF Stalled
    <3> QED
      BY <1>1, <2>1, <3>1, <3>2 DEF ConsumerInv, LoopInv
  <2>5. EndInv'
    BY <1>0, <1>1, <1>2, <2>1 DEF ConsumerInv, EndInv, TimeoutFired
  <2>6. OutputIsAPrefix'
    BY <1>0, <1>1, <2>1, OutputStays
  <2> QED
    BY <2>2, <2>3, <2>4, <2>5, <2>6 DEF ConsumerInv
<1>4. CASE ReaderSends
  <2>1. /\ UNCHANGED fetched /\ reader.at = "send" /\ frameCh' = Append(frameCh, reader.pkt)
        /\ Len(frameCh) < FrameChCap
        /\ reader' \in [at : {"off", "read", "send", "done"}, pkt : Packets]
        /\ reader'.at = IF reader.pkt.is = "frame" THEN "read" ELSE "done"
    BY <1>0, <1>4 DEF ReaderSends
  <2>2. /\ frameCh' \in Seq(Packets) /\ Len(frameCh') = Len(frameCh) + 1
        /\ \A i \in 1..Len(frameCh) : frameCh'[i] = frameCh[i]
        /\ frameCh'[Len(frameCh')] = reader.pkt
    BY <1>0, <2>1
  <2>3. ConsumerTypeOK'
    BY <1>0, <1>1, <2>1, <2>2, ConsumerAssumption DEF ConsumerInv, ConsumerTypeOK, Packets
  <2>4. ReaderInv'
    <3>1. ASSUME NEW i \in 1..Len(frameCh')
          PROVE  /\ frameCh'[i].is # "frame" => reader'.at = "done"
                 /\ frameCh'[i].is = "frame" => frameCh'[i].n \in 1..fetched'
      <4>1. CASE i = Len(frameCh')
        BY <1>0, <2>1, <2>2, <4>1 DEF ConsumerInv, ReaderInv
      <4>2. CASE i \in 1..Len(frameCh)
        BY <2>1, <2>2, <4>2 DEF ConsumerInv, ReaderInv
      <4> QED
        BY <1>0, <2>2, <4>1, <4>2
    <3> QED
      BY <1>1, <1>2, <2>1, <3>1 DEF ConsumerInv, ReaderInv
  <2>5. LoopInv'
    <3>1. ASSUME NEW h \in 0..fetched, Handled(h)
          PROVE  Handled(h)' /\ h \in 0..fetched'
      <4>1. ASSUME NEW t \in Nat, Taken(t)
            PROVE  Taken(t)'
        <5>1. ASSUME NEW i \in 1..Len(frameCh'), frameCh'[i].is = "frame"
              PROVE  frameCh'[i].n = t + i
          <6>1. CASE i = Len(frameCh')
            BY <1>0, <2>1, <2>2, <4>1, <5>1, <6>1 DEF Taken, ConsumerInv, ReaderInv
          <6>2. CASE i \in 1..Len(frameCh)
            BY <2>2, <4>1, <5>1, <6>2 DEF Taken
          <6> QED
            BY <1>0, <2>2, <6>1, <6>2
        <5>2. reader'.at = "read" => fetched' = t + Len(frameCh')
          BY <1>0, <2>1, <2>2, <4>1 DEF Taken
        <5> QED
          BY <2>1, <5>1, <5>2 DEF Taken
      <4> QED
        BY <1>0, <1>1, <2>1, <3>1, <4>1, HandledKeeps
    <3>2. UNCHANGED Stalled
      BY <1>1 DEF Stalled
    <3> QED
      BY <1>1, <2>1, <3>1, <3>2 DEF ConsumerInv, LoopInv
  <2>6. EndInv'
    BY <1>0, <1>1, <1>2, <2>1 DEF ConsumerInv, EndInv, TimeoutFired
  <2>7. OutputIsAPrefix'
    BY <1>0, <1>1, <2>1, OutputStays
  <2> QED
    BY <2>3, <2>4, <2>5, <2>6, <2>7 DEF ConsumerInv
<1> QED
  BY <1>3, <1>4 DEF ReaderNext

LEMMA WantedIs ==
  ASSUME ConsumerInv, stage = "loop", NEW n \in Nat
  PROVE  /\ Wanted(n) \in 0..n /\ delivered \in Nat /\ max \in Nat
         /\ max > 0 => delivered < max /\ delivered + Wanted(n) <= max
         /\ Wanted(n) < n => max > 0 /\ delivered + Wanted(n) = max
<1>1. max \in Nat /\ delivered \in Nat /\ (max > 0 => delivered < max)
  BY ConsumerAssumption DEF ConsumerInv, ConsumerTypeOK, LoopInv
<1>2. ASSUME NEW a \in Nat, NEW b \in Nat
      PROVE  Min({a, b}) = IF a <= b THEN a ELSE b
  <2>1. \A x \in {a, b} : (\A y \in {a, b} : x <= y) <=> x = IF a <= b THEN a ELSE b
    OBVIOUS
  <2>2. (IF a <= b THEN a ELSE b) \in {a, b}
    OBVIOUS
  <2> QED
    BY <2>1, <2>2 DEF Min
<1>3. CASE max = 0
  BY <1>1, <1>3 DEF Wanted
<1>4. CASE max > 0
  <2>1. max - delivered \in Nat
    BY <1>1, <1>4
  <2>2. Wanted(n) = IF n <= max - delivered THEN n ELSE max - delivered
    BY <1>1, <1>2, <1>4, <2>1 DEF Wanted
  <2> QED
    BY <1>1, <1>4, <2>1, <2>2
<1> QED
  BY <1>1, <1>3, <1>4

\* A sequence put behind another.
LEMMA Concatenated ==
  ASSUME NEW S, NEW s \in Seq(S), NEW t \in Seq(S)
  PROVE  /\ s \o t \in Seq(S) /\ DOMAIN (s \o t) = 1..(Len(s) + Len(t))
         /\ Len(s \o t) = Len(s) + Len(t)
         /\ \A i \in 1..Len(s) : (s \o t)[i] = s[i]
         /\ \A i \in 1..Len(t) : (s \o t)[Len(s) + i] = t[i]
  OBVIOUS

LEMMA ConsecutiveLines ==
  ASSUME NEW f \in Nat, NEW j \in Nat, NEW k \in Nat
  PROVE  /\ [i \in 1..k |-> <<f, j + i>>] \in Seq(Nat \X Nat)
         /\ Len([i \in 1..k |-> <<f, j + i>>]) = k
         /\ \A i \in 1..k : [x \in 1..k |-> <<f, j + x>>][i] = <<f, j + i>>
  OBVIOUS

LEMMA ElementsOfSeq ==
  ASSUME NEW S, NEW s \in Seq(S)
  PROVE  DOMAIN s = 1..Len(s) /\ \A i \in DOMAIN s : s[i] \in S
  OBVIOUS

\* The next lines of a frame are put behind those that are there already.
LEMMA LinesEmitted ==
  ASSUME ConsumerInv, NEW h \in 0..fetched, NEW j \in Nat, Written(h, j), h < fetched,
         NEW k \in Nat, j + k <= sent[h + 1].lines,
         stdout' = stdout \o [i \in 1..k |-> <<h + 1, j + i>>],
         delivered' = delivered + k, UNCHANGED <<sent, fetched, max>>,
         max > 0 => delivered + k <= max
  PROVE  /\ OutputIsAPrefix' /\ stdout' \in Seq(Nat \X Nat)
         /\ Written(h, j + k)'
         /\ j + k = sent[h + 1].lines => Written(h + 1, 0)'
<1>1. /\ fetched \in Nat /\ h \in Nat /\ k \in Nat /\ stdout \in Seq(Nat \X Nat)
      /\ delivered = Len(stdout) /\ Len(stdout) \in Nat
      /\ h + 1 \in 1..fetched /\ h + 1 \in 1..Len(sent)
      /\ sent[h + 1].lines \in Nat
  BY FrameTypes DEF ConsumerInv, ReaderInv, OutputIsAPrefix
<1> DEFINE L == Len(stdout)
<1>2. /\ stdout' \in Seq(Nat \X Nat) /\ Len(stdout') = L + k
      /\ DOMAIN stdout' = 1..(L + k) /\ DOMAIN stdout = 1..L
      /\ \A i \in 1..L : stdout'[i] = stdout[i]
      /\ \A i \in 1..k : stdout'[L + i] = <<h + 1, j + i>>
  <2> DEFINE new == [i \in 1..k |-> <<h + 1, j + i>>]
  <2>1. new \in Seq(Nat \X Nat) /\ Len(new) = k /\ \A i \in 1..k : new[i] = <<h + 1, j + i>>
    <3>1. h + 1 \in Nat /\ j \in Nat /\ k \in Nat
      BY <1>1
    <3>2. ASSUME NEW f \in Nat
          PROVE  /\ [i \in 1..k |-> <<f, j + i>>] \in Seq(Nat \X Nat)
                 /\ Len([i \in 1..k |-> <<f, j + i>>]) = k
                 /\ \A i \in 1..k : [x \in 1..k |-> <<f, j + x>>][i] = <<f, j + i>>
      BY ONLY <3>1, <3>2, ConsecutiveLines
    <3> QED
      BY ONLY <3>1, <3>2
  <2>2. stdout' = stdout \o new
    OBVIOUS
  <2>3. DOMAIN stdout = 1..L
    BY <1>1, ElementsOfSeq, Zenon
  <2> HIDE DEF new
  <2>4. /\ stdout \o new \in Seq(Nat \X Nat) /\ DOMAIN (stdout \o new) = 1..(L + Len(new))
        /\ Len(stdout \o new) = L + Len(new)
        /\ \A i \in 1..L : (stdout \o new)[i] = stdout[i]
        /\ \A i \in 1..Len(new) : (stdout \o new)[L + i] = new[i]
    <3> DEFINE Pairs == Nat \X Nat
    <3>1. stdout \in Seq(Pairs) /\ new \in Seq(Pairs)
      BY <1>1, <2>1, Zenon
    <3> HIDE DEF Pairs
    <3>2. /\ stdout \o new \in Seq(Pairs) /\ DOMAIN (stdout \o new) = 1..(Len(stdout) + Len(new))
          /\ Len(stdout \o new) = Len(stdout) + Len(new)
          /\ \A i \in 1..Len(stdout) : (stdout \o new)[i] = stdout[i]
          /\ \A i \in 1..Len(new) : (stdout \o new)[Len(stdout) + i] = new[i]
      BY ONLY <3>1, Concatenated
    <3> QED
      BY <3>2, Zenon DEF Pairs
  <2> QED
    BY <2>1, <2>2, <2>3, <2>4, Zenon
<1>3. ASSUME NEW i \in DOMAIN stdout'
       PROVE  stdout'[i][1] \in Nat /\ stdout'[i][2] \in Nat
  <2>1. stdout'[i] \in Nat \X Nat
    BY <1>2, ElementsOfSeq, Zenon
  <2> QED
    BY <2>1
<1>4. ASSUME NEW i \in DOMAIN stdout', i > L
      PROVE  /\ i - L \in 1..k /\ stdout'[i] = <<h + 1, j + (i - L)>>
             /\ stdout'[i][1] = h + 1 /\ stdout'[i][2] = j + (i - L)
  <2>1. i \in 1..(L + k) /\ L \in Nat
    BY <1>1, <1>2
  <2>2. i - L \in 1..k /\ L + (i - L) = i
    BY <1>1, <1>4, <2>1
  <2>3. stdout'[L + (i - L)] = <<h + 1, j + (i - L)>>
    BY <1>2, <2>2, Zenon
  <2>4. stdout'[i] = <<h + 1, j + (i - L)>>
    BY <2>2, <2>3, Zenon
  <2>5. stdout'[i][1] = h + 1 /\ stdout'[i][2] = j + (i - L)
    BY ONLY <2>4
  <2> QED
    BY <2>2, <2>4, <2>5, Zenon
<1>5. ASSUME NEW i \in DOMAIN stdout', ~(i > L)
      PROVE  /\ i \in DOMAIN stdout /\ stdout'[i] = stdout[i]
             /\ stdout'[i][1] <= h \/ (stdout'[i][1] = h + 1 /\ stdout'[i][2] <= j)
             /\ stdout[i] \in LinesRead
  <2>1. i \in 1..L
    BY <1>1, <1>2, <1>5
  <2> QED
    BY <1>1, <1>2, <2>1 DEF Written, ConsumerInv, OutputIsAPrefix, Range
<1> HIDE DEF L
<1>6. Range(stdout) \subseteq Range(stdout')
  BY <1>1, <1>2 DEF Range, L
<1>7. \A x \in 1..(j + k) : <<h + 1, x>> \in Range(stdout')
  <2> SUFFICES ASSUME NEW x \in 1..(j + k)
               PROVE  <<h + 1, x>> \in Range(stdout')
    OBVIOUS
  <2>1. CASE x \in 1..j
    BY <1>6, <2>1 DEF Written
  <2>2. CASE x \notin 1..j
    <3> DEFINE i == x - j
    <3>1. i \in 1..k /\ j + i = x
      BY <1>1, <2>2
    <3>2. L + i \in DOMAIN stdout'
      <4>1. L \in Nat /\ k \in Nat
        BY <1>1 DEF L
      <4>2. L + i \in 1..(L + k)
        BY ONLY <4>1, <3>1
      <4> QED
        BY <1>2, <4>2, Zenon
    <3>3. stdout'[L + i] = <<h + 1, x>>
      BY <1>2, <3>1
    <3> QED
      BY <3>2, <3>3 DEF Range
  <2> QED
    BY <2>1, <2>2
<1>8. LinesRead' = LinesRead
  BY DEF LinesRead
<1>9. Range(stdout') \subseteq LinesRead'
  <2> SUFFICES ASSUME NEW i \in DOMAIN stdout'
               PROVE  stdout'[i] \in LinesRead
    BY <1>8 DEF Range
  <2>1. CASE i > L
    <3>1. j + (i - L) \in 1..sent[h + 1].lines
      BY <1>1, <1>4, <2>1 DEF L
    <3> QED
      BY <1>1, <1>4, <2>1, <3>1, LineOf
  <2> QED
    BY <1>5, <2>1
<1>10. ASSUME NEW i \in DOMAIN stdout', NEW m \in DOMAIN stdout', i < m
       PROVE  ComesBefore(stdout'[i], stdout'[m])
  <2>0. i \in Nat /\ m \in Nat /\ L \in Nat
    BY <1>1, <1>2 DEF L
  <2>1. CASE i > L
    <3>1. m > L /\ j + (i - L) < j + (m - L)
      BY <1>10, <2>0, <2>1
    <3>2. /\ stdout'[i][1] = h + 1 /\ stdout'[i][2] = j + (i - L)
          /\ stdout'[m][1] = h + 1 /\ stdout'[m][2] = j + (m - L)
      BY <1>4, <2>1, <3>1
    <3> QED
      BY <3>1, <3>2 DEF ComesBefore
  <2>2. CASE ~(i > L) /\ m > L
    <3>1. /\ stdout'[i][1] <= h \/ (stdout'[i][1] = h + 1 /\ stdout'[i][2] <= j)
          /\ stdout'[m][1] = h + 1 /\ stdout'[m][2] = j + (m - L) /\ m - L \in 1..k
      BY <1>4, <1>5, <2>2
    <3>2. stdout'[i][1] \in Nat /\ stdout'[i][2] \in Nat
      BY <1>3
    <3>3. \A a, b, x, y \in Nat : (a <= x => a < x + 1) /\ (a <= y /\ 1 <= b => a < y + b)
      OBVIOUS
    <3>4. m - L \in Nat /\ 1 <= m - L /\ h \in Nat
      BY <1>1, <3>1
    <3> QED
      BY <3>1, <3>2, <3>3, <3>4 DEF ComesBefore
  <2>3. CASE ~(m > L)
    <3>1. ~(i > L)
      BY <1>10, <2>0, <2>3
    <3> QED
      BY <1>5, <1>10, <2>3, <3>1 DEF ConsumerInv, OutputIsAPrefix
  <2> QED
    BY <2>1, <2>2, <2>3
<1>11. ASSUME NEW line \in LinesRead, NEW i \in DOMAIN stdout', ComesBefore(line, stdout'[i])
       PROVE  line \in Range(stdout')
  <2>1. CASE i > L
    <3> PICK n \in 1..fetched : \E x \in 1..sent[n].lines : line = <<n, x>>
      BY LineOf
    <3> PICK x \in 1..sent[n].lines : line = <<n, x>>
      OBVIOUS
    <3>0. n \in Nat /\ x \in Nat /\ x >= 1
      <4>1. n \in 1..Len(sent) /\ n \in Nat
        BY <1>1, FrameTypes DEF ConsumerInv
      <4> QED
        BY <4>1, FrameTypes DEF ConsumerInv
    <3>1. n < h + 1 \/ (n = h + 1 /\ x < j + (i - L))
      BY <1>4, <1>11, <2>1 DEF ComesBefore
    <3>2. CASE n < h + 1
      BY <1>1, <1>6, <3>0, <3>2 DEF Written
    <3>3. CASE n = h + 1 /\ x < j + (i - L)
      <4>1. i - L \in 1..k
        BY <1>4, <2>1
      <4>2. x \in 1..(j + k)
        BY <1>1, <3>0, <3>3, <4>1
      <4> QED
        BY <1>7, <3>3, <4>2
    <3> QED
      BY <3>1, <3>2, <3>3
  <2>2. CASE ~(i > L)
    BY <1>5, <1>6, <1>11, <2>2 DEF ConsumerInv, OutputIsAPrefix
  <2> QED
    BY <2>1, <2>2
<1>12. OutputIsAPrefix'
  BY <1>1, <1>2, <1>8, <1>9, <1>10, <1>11 DEF OutputIsAPrefix, L
<1>13. ASSUME NEW i \in DOMAIN stdout'
       PROVE  stdout'[i][1] <= h \/ (stdout'[i][1] = h + 1 /\ stdout'[i][2] <= j + k)
  <2>1. stdout'[i][1] \in Nat /\ stdout'[i][2] \in Nat
    BY <1>3
  <2>2. CASE i > L
    <3>1. \A a \in 1..k : j + a <= j + k
      OBVIOUS
    <3>2. i - L \in 1..k /\ stdout'[i][1] = h + 1 /\ stdout'[i][2] = j + (i - L)
      BY <1>4, <2>2
    <3> QED
      BY <3>1, <3>2
  <2>3. CASE ~(i > L)
    <3>1. stdout'[i][1] <= h \/ (stdout'[i][1] = h + 1 /\ stdout'[i][2] <= j)
      BY <1>5, <2>3
    <3>2. \A a \in Nat : a <= j => a <= j + k
      BY <1>1
    <3> QED
      BY <2>1, <3>1, <3>2
  <2> QED
    BY <2>2, <2>3
<1>14. ASSUME NEW n \in 1..h, NEW x \in 1..sent[n].lines
       PROVE  <<n, x>> \in Range(stdout')
  BY <1>6 DEF Written
<1>15. Written(h, j + k)'
  BY <1>7, <1>13, <1>14 DEF Written
<1>16. ASSUME j + k = sent[h + 1].lines
       PROVE  Written(h + 1, 0)'
  <2>1. ASSUME NEW n \in 1..(h + 1), NEW x \in 1..sent[n].lines
        PROVE  <<n, x>> \in Range(stdout')
    <3>1. n = h + 1 \/ n \in 1..h
      BY <1>1
    <3> QED
      BY <1>7, <1>14, <1>16, <2>1, <3>1
  <2>2. ASSUME NEW i \in DOMAIN stdout'
        PROVE  stdout'[i][1] <= h + 1
    <3>1. stdout'[i][1] \in Nat
      BY <1>3
    <3>2. \A a \in Nat : a <= h \/ a = h + 1 => a <= h + 1
      BY <1>1
    <3> QED
      BY <1>13, <3>1, <3>2
  <2>3. 1..0 = {}
    OBVIOUS
  <2> QED
    BY <2>1, <2>2, <2>3 DEF Written
<1> QED
  BY <1>2, <1>12, <1>15, <1>16

\* What a step of the main loop may have changed besides what it wrote.
LoopStep ==
  /\ stage = "loop"
  /\ UNCHANGED <<max, sent, fetched, reader, signalled, timer, loopDone>>
  /\ UNCHANGED frameCh \/ (frameCh # <<>> /\ frameCh' = Tail(frameCh))

\* The types of what the loop writes.
WritesTyped ==
  /\ stdout \in Seq(Nat \X Nat) /\ delivered \in Nat
  /\ pipe \in {"ok", "epipe", "error"} /\ writing \in [frame : Nat, from : Nat, to : Nat]

LEMMA LoopTypes ==
  ASSUME ConsumerInv, LoopStep, WritesTyped', stage' \in {"loop", "leave", "exit"},
         link' \in {"none", "open", "eof", "reset", "closed"},
         outcome' \in [code : {0, 1, 141, 143}, reason : ExitReasons]
  PROVE  ConsumerTypeOK' /\ ReaderInv'
<1>1. /\ frameCh' \in Seq(Packets) /\ Len(frameCh') <= FrameChCap
      /\ \A i \in 1..Len(frameCh') : \E j \in 1..Len(frameCh) : frameCh'[i] = frameCh[j]
  <2>1. frameCh \in Seq(Packets) /\ Len(frameCh) <= FrameChCap /\ FrameChCap \in Nat
    BY ConsumerAssumption DEF ConsumerInv, ConsumerTypeOK
  <2>2. CASE frameCh # <<>> /\ frameCh' = Tail(frameCh)
    BY <2>1, <2>2
  <2> QED
    BY <2>1, <2>2 DEF LoopStep
<1>2. ConsumerTypeOK'
  BY <1>1 DEF ConsumerInv, ConsumerTypeOK, Packets, LoopStep, WritesTyped
<1>3. ASSUME NEW i \in 1..Len(frameCh')
      PROVE  /\ frameCh'[i].is # "frame" => reader'.at = "done"
             /\ frameCh'[i].is = "frame" => frameCh'[i].n \in 1..fetched'
  <2> PICK j \in 1..Len(frameCh) : frameCh'[i] = frameCh[j]
    BY <1>1
  <2> QED
    BY DEF ConsumerInv, ReaderInv, LoopStep
<1> QED
  BY <1>2, <1>3 DEF ConsumerInv, ReaderInv, LoopStep, WritesTyped

\* What the loop knows of the outcome, the connection and the cancelled context.
LEMMA LoopKnows ==
  ASSUME ConsumerInv, stage = "loop"
  PROVE  /\ outcome.code = 0 /\ outcome.reason = "none"
         /\ outcome \in [code : {0, 1, 141, 143}, reason : ExitReasons]
         /\ reader.at # "off" /\ (loopDone => signalled = "seen" \/ timer = "fired")
         /\ link \in {"none", "open", "eof", "reset", "closed"}
BY DEF ConsumerInv, EndInv, LoopInv, ConsumerTypeOK

\* A step that breaks out of the loop.
LEMMA LeavingFits ==
  ASSUME ConsumerInv, LoopStep, WritesTyped', ~Stalled', OutputIsAPrefix',
         NEW r \in CleanEnds, Leave(r),
         r = "timeout" => TimeoutFired,
         r = "signal" => pipe' = "epipe",
         r = "limit" => delivered' = max,
         r = "shutdown" => (\E i \in 1..fetched : sent[i].kind = "bye") \/ reader.at = "done"
  PROVE  ConsumerInv'
<1>1. /\ stage' = "leave" /\ outcome'.code = 0 /\ outcome'.reason = r /\ UNCHANGED link
      /\ outcome' \in [code : {0, 1, 141, 143}, reason : ExitReasons]
  BY LoopKnows DEF Leave, CleanEnds, ExitReasons, LoopStep
<1>2. EndInv'
  BY <1>1, LoopKnows DEF EndInv, CleanEnds, TimeoutFired, LoopStep
<1>3. LoopInv'
  BY <1>1 DEF LoopInv
<1> QED
  BY <1>1, <1>2, <1>3, LoopTypes, LoopKnows DEF ConsumerInv, LoopStep

\* A step that ends the process: an error, or the death by SIGPIPE.
LEMMA EndingFits ==
  ASSUME ConsumerInv, LoopStep, WritesTyped', ~Stalled', OutputIsAPrefix', link' = "closed",
         NEW c \in {1, 141}, NEW r \in {"handle_error", "read_error", "killed"}, Exit(c, r)
  PROVE  ConsumerInv'
<1>1. /\ stage' = "exit" /\ outcome'.code = c /\ outcome'.reason = r
      /\ outcome' \in [code : {0, 1, 141, 143}, reason : ExitReasons]
  BY DEF Exit, ExitReasons
<1>2. EndInv'
  BY <1>1, LoopKnows DEF EndInv, CleanEnds, LoopStep
<1>3. LoopInv'
  BY <1>1 DEF LoopInv
<1> QED
  BY <1>1, <1>2, <1>3, LoopTypes DEF ConsumerInv

\* A step after which the loop goes on.
LEMMA GoingOnFits ==
  ASSUME ConsumerInv, LoopStep, WritesTyped', OutputIsAPrefix', GoOn,
         max > 0 => delivered' < max,
         NEW h \in 0..fetched, Handled(h)'
  PROVE  ConsumerInv'
<1>1. UNCHANGED <<stage, outcome, link>>
  BY DEF GoOn
<1>2. LoopInv'
  BY <1>1, LoopKnows DEF LoopInv, LoopStep
<1>3. EndInv'
  BY <1>1, LoopKnows DEF EndInv, CleanEnds, LoopStep
<1> QED
  BY <1>1, <1>2, <1>3, LoopTypes, LoopKnows DEF ConsumerInv, LoopStep

\* The lines of a frame: those before from are written, those up to to wanted.
LEMMA WritingFits ==
  ASSUME ConsumerInv, LoopStep, NEW h \in 0..fetched, NEW from \in Nat, NEW to \in Nat,
         Written(h, from), StillWanted(h, from, to), Taken(h + 1)', WriteLines(h + 1, from, to)
  PROVE  ConsumerInv'
<1>1. /\ max \in Nat /\ delivered \in Nat /\ (max > 0 => delivered < max)
      /\ fetched \in Nat /\ h \in Nat /\ h < fetched /\ h + 1 \in 0..fetched
      /\ sent[h + 1].lines \in Nat /\ pipe \in {"ok", "epipe", "error"}
      /\ UNCHANGED <<max, sent, fetched>>
  <2>1. max \in Nat /\ delivered \in Nat /\ (max > 0 => delivered < max) /\ pipe \in {"ok", "epipe", "error"}
    BY ConsumerAssumption DEF ConsumerInv, ConsumerTypeOK, LoopInv, LoopStep
  <2>2. fetched \in Nat /\ h \in Nat /\ h < fetched /\ fetched <= Len(sent) /\ Len(sent) \in Nat
    BY FrameTypes DEF ConsumerInv, StillWanted
  <2>3. h + 1 \in 1..Len(sent) /\ h + 1 \in 0..fetched
    BY <2>2
  <2> QED
    BY <2>1, <2>2, <2>3, FrameTypes DEF ConsumerInv, LoopStep
<1>2. /\ from <= to /\ to <= sent[h + 1].lines
      /\ max > 0 => delivered + (to - from) <= max
      /\ to < sent[h + 1].lines => max > 0 /\ delivered + (to - from) = max
  BY DEF StillWanted
<1>3. PICK k \in 0..(to - from) :
        /\ stdout' = stdout \o [i \in 1..k |-> <<h + 1, from + i>>]
        /\ delivered' = delivered + k
        /\ \/ /\ k = to - from
              /\ writing' = NoWrite /\ UNCHANGED pipe
              /\ IF k > 0 /\ max > 0 /\ delivered' >= max THEN Leave("limit") ELSE GoOn
           \/ /\ k < to - from
              /\ writing' = NoWrite
              /\ \/ pipe' = "epipe" /\ Leave("signal")
                 \/ pipe' = "epipe" /\ Exit(141, "killed") /\ link' = "closed"
                 \/ pipe' = "error" /\ Fail("handle_error")
           \/ /\ k < to - from
              /\ writing' = [frame |-> h + 1, from |-> from + k, to |-> to]
              /\ GoOn /\ UNCHANGED pipe
  BY DEF WriteLines
<1>4. /\ k \in Nat /\ from + k \in Nat /\ from + k <= to /\ from + k <= sent[h + 1].lines
      /\ max > 0 => delivered + k <= max
      /\ delivered' \in Nat
  <2>1. k \in 0..(to - from) /\ delivered' = delivered + k
    BY <1>3
  <2> QED
    BY ONLY <1>1, <1>2, <2>1, from \in Nat, to \in Nat
<1>5. /\ OutputIsAPrefix' /\ stdout' \in Seq(Nat \X Nat)
      /\ Written(h, from + k)'
      /\ from + k = sent[h + 1].lines => Written(h + 1, 0)'
  BY ZenonT(60), <1>1, <1>3, <1>4, LinesEmitted
<1>6. WritesTyped'
  <2>1. writing' \in [frame : Nat, from : Nat, to : Nat]
    <3>1. CASE writing' = NoWrite
      BY ONLY <3>1 DEF NoWrite
    <3>2. CASE writing' = [frame |-> h + 1, from |-> from + k, to |-> to]
      <4>1. h + 1 \in Nat /\ from + k \in Nat
        BY ONLY <1>1, <1>4
      <4> QED
        BY ONLY <3>2, <4>1, to \in Nat
    <3> QED
      BY <1>3, <3>1, <3>2, Zenon
  <2>2. pipe' \in {"ok", "epipe", "error"}
    BY ONLY <1>1, <1>3
  <2> QED
    BY <1>4, <1>5, <2>1, <2>2, Zenon DEF WritesTyped
<1>7. writing' = NoWrite => ~Stalled'
  BY DEF NoWrite, Stalled
<1>8. CASE k = to - from /\ k > 0 /\ max > 0 /\ delivered' >= max /\ Leave("limit") /\ writing' = NoWrite
  <2>1. delivered' = max
    BY <1>1, <1>3, <1>4, <1>8
  <2> QED
    BY <1>5, <1>6, <1>7, <1>8, <2>1, LeavingFits DEF CleanEnds
<1>9. CASE /\ k = to - from /\ ~(k > 0 /\ max > 0 /\ delivered' >= max) /\ GoOn
           /\ writing' = NoWrite
  <2>1. (max > 0 => delivered' < max) /\ from + k = sent[h + 1].lines
    BY <1>1, <1>2, <1>3, <1>4, <1>9
  <2>2. Handled(h + 1)'
    BY <1>5, <1>7, <1>9, <2>1 DEF Handled
  <2> QED
    BY <1>1, <1>5, <1>6, <1>9, <2>1, <2>2, GoingOnFits
<1>10. CASE writing' = NoWrite /\ pipe' = "epipe" /\ Leave("signal")
  BY <1>5, <1>6, <1>7, <1>10, LeavingFits DEF CleanEnds
<1>11. CASE writing' = NoWrite /\ Exit(141, "killed") /\ link' = "closed"
  BY <1>5, <1>6, <1>7, <1>11, EndingFits
<1>12. CASE writing' = NoWrite /\ Fail("handle_error")
  BY <1>5, <1>6, <1>7, <1>12, EndingFits DEF Fail
<1>13. CASE k < to - from /\ GoOn /\ writing' = [frame |-> h + 1, from |-> from + k, to |-> to]
  <2>1. /\ writing'.from = from + k /\ writing'.to = to /\ writing'.frame = h + 1
        /\ from + k < to
    BY <1>1, <1>4, <1>13
  <2>2. (max > 0 => delivered' < max) /\ StillWanted(h, from + k, to)'
    BY <1>1, <1>2, <1>3, <1>4, <2>1 DEF StillWanted
  <2>3. Handled(h)'
    BY <1>5, <2>1, <2>2 DEF Handled, Stalled
  <2> QED
    BY <1>5, <1>6, <1>13, <2>2, <2>3, GoingOnFits
<1> QED
  BY <1>3, <1>8, <1>9, <1>10, <1>11, <1>12, <1>13

LEMMA HandleFrameFits ==
  ASSUME ConsumerInv, HandleFrame
  PROVE  ConsumerInv'
<1> DEFINE pkt == Head(frameCh)
           kind == IF pkt.is = "frame" THEN sent[pkt.n].kind ELSE pkt.is
<1>1. /\ LoopStep /\ stage = "loop" /\ ~Stalled /\ frameCh # <<>> /\ frameCh' = Tail(frameCh)
      /\ UNCHANGED <<max, sent, fetched, reader>>
      /\ max \in Nat /\ delivered \in Nat /\ (max > 0 => delivered < max) /\ WritesTyped
  BY ConsumerAssumption
     DEF HandleFrame, stopVars, LoopStep, WritesTyped, ConsumerInv, LoopInv, ReaderInv, ConsumerTypeOK
<1>2. PICK h \in 0..fetched : Written(h, 0) /\ Taken(h)
  BY <1>1 DEF ConsumerInv, LoopInv, Handled
<1>3. /\ frameCh \in Seq(Packets) /\ Len(frameCh) \in Nat \ {0} /\ Len(frameCh) <= FrameChCap
      /\ frameCh' \in Seq(Packets) /\ Len(frameCh') = Len(frameCh) - 1
      /\ \A i \in 1..Len(frameCh') : i + 1 \in 1..Len(frameCh) /\ frameCh'[i] = frameCh[i + 1]
      /\ pkt = frameCh[1] /\ pkt \in Packets
  BY <1>1 DEF ConsumerInv, ConsumerTypeOK
<1>4. /\ fetched \in Nat /\ h \in Nat /\ fetched <= Len(sent)
      /\ \A n \in 1..fetched : sent[n].lines \in Nat /\ (sent[n].kind # "event" => sent[n].lines = 0)
                               /\ sent[n].kind \in Kinds
  BY FrameTypes DEF ConsumerInv
<1>5. /\ pkt.is \in {"frame", "clean_end", "broken"}
      /\ pkt.is = "frame" => pkt.n = h + 1 /\ h + 1 \in 1..fetched
      /\ pkt.is # "frame" => reader.at = "done"
  <2>1. pkt.is \in {"frame", "clean_end", "broken"}
    BY <1>3 DEF Packets, CleanEnd, Broken
  <2>2. pkt.is = "frame" => pkt.n \in 1..fetched
    BY <1>3 DEF ConsumerInv, ReaderInv
  <2>3. pkt.is # "frame" => reader.at = "done"
    BY <1>3 DEF ConsumerInv, ReaderInv
  <2>4. pkt.is = "frame" => pkt.n = h + 1
    BY <1>2, <1>3 DEF Taken
  <2> QED
    BY <2>1, <2>2, <2>3, <2>4
<1> HIDE DEF pkt
<1>6. Taken(h + 1)'
  <2>1. ASSUME NEW i \in 1..Len(frameCh'), frameCh'[i].is = "frame"
        PROVE  frameCh'[i].n = (h + 1) + i
    <3>1. frameCh'[i].n = h + (i + 1)
      BY <1>2, <1>3, <2>1 DEF Taken
    <3> QED
      BY <1>3, <1>4, <3>1
  <2>2. (h + 1) + Len(frameCh') = h + Len(frameCh) /\ (h + 1) + Len(frameCh') + 1 = h + Len(frameCh) + 1
    BY <1>3, <1>4
  <2> QED
    BY <1>1, <1>2, <2>1, <2>2 DEF Taken
<1>7. ASSUME UNCHANGED outputVars
      PROVE  OutputIsAPrefix' /\ WritesTyped' /\ ~Stalled'
  BY <1>1, <1>4, <1>7, OutputStays DEF outputVars, WritesTyped, Stalled
<1>8. CASE kind = "event" /\ EmitEvent(pkt.n)
  <2> DEFINE w == Wanted(sent[h + 1].lines)
  <2>1. pkt.n = h + 1 /\ h < fetched /\ sent[h + 1].lines \in Nat
    BY <1>4, <1>5, <1>8
  <2>2. WriteLines(h + 1, 0, w)
    BY <1>8, <2>1 DEF EmitEvent
  <2>3. /\ w \in 0..sent[h + 1].lines
        /\ max > 0 => delivered + w <= max
        /\ w < sent[h + 1].lines => max > 0 /\ delivered + w = max
    BY <1>1, <2>1, WantedIs
  <2> HIDE DEF w
  <2>4. w \in Nat /\ StillWanted(h, 0, w)
    BY <1>1, <2>1, <2>3 DEF StillWanted
  <2> QED
    BY <1>1, <1>2, <1>6, <2>2, <2>4, WritingFits
<1>9. CASE kind \in Ignored /\ GoOn /\ UNCHANGED outputVars
  <2>1. h + 1 \in 1..fetched /\ sent[h + 1].lines = 0
    BY <1>4, <1>5, <1>9 DEF Ignored
  <2>2. stdout' = stdout /\ delivered' = delivered
    BY <1>9 DEF outputVars
  <2>3. ASSUME NEW i \in DOMAIN stdout
        PROVE  stdout[i][1] <= h + 1
    <3>1. stdout[i] \in Nat \X Nat
      BY <1>1 DEF WritesTyped
    <3> QED
      BY <1>2, <1>4, <3>1 DEF Written
  <2>4. ASSUME NEW n \in 1..(h + 1), NEW x \in 1..sent[n].lines
        PROVE  <<n, x>> \in Range(stdout)
    <3>1. n \in 1..h
      BY <1>4, <2>1
    <3> QED
      BY <1>2, <3>1 DEF Written
  <2>5. Written(h + 1, 0)'
    BY <1>1, <2>2, <2>3, <2>4 DEF Written
  <2>6. Handled(h + 1)'
    BY <1>6, <1>7, <1>9, <2>5 DEF Handled
  <2>7. (max > 0 => delivered' < max) /\ h + 1 \in 0..fetched
    BY <1>1, <1>4, <2>1, <2>2
  <2> QED
    BY <1>1, <1>7, <1>9, <2>6, <2>7, GoingOnFits
<1>10. CASE Fail("handle_error") /\ UNCHANGED outputVars
  BY <1>1, <1>7, <1>10, EndingFits DEF Fail
<1>11. CASE Fail("read_error") /\ UNCHANGED outputVars
  BY <1>1, <1>7, <1>11, EndingFits DEF Fail
<1>12. CASE kind \in {"bye", "clean_end"} /\ Leave("shutdown") /\ UNCHANGED outputVars
  <2>1. (\E i \in 1..fetched : sent[i].kind = "bye") \/ reader.at = "done"
    <3>1. CASE pkt.is = "frame"
      BY <1>4, <1>5, <1>12, <3>1, ConsumerAssumption
    <3> QED
      BY <1>5, <3>1
  <2> QED
    BY <1>1, <1>7, <1>12, <2>1, LeavingFits DEF CleanEnds
<1> QED
  BY <1>8, <1>9, <1>10, <1>11, <1>12 DEF HandleFrame, pkt

\* A write that blocked goes on.
LEMMA WriteGoesOnFits ==
  ASSUME ConsumerInv, WriteGoesOn
  PROVE  ConsumerInv'
<1>1. /\ LoopStep /\ stage = "loop" /\ Stalled /\ UNCHANGED <<frameCh, reader, fetched>>
      /\ WriteLines(writing.frame, writing.from, writing.to)
      /\ writing.from \in Nat /\ writing.to \in Nat
  BY DEF WriteGoesOn, readerVars, stopVars, LoopStep, ConsumerInv, ConsumerTypeOK
<1>2. PICK h \in 0..fetched : Handled(h)
  BY <1>1 DEF ConsumerInv, LoopInv
<1>3. /\ Written(h, writing.from) /\ Taken(h + 1) /\ writing.frame = h + 1
      /\ StillWanted(h, writing.from, writing.to)
  BY <1>1, <1>2 DEF Handled
<1>4. Taken(h + 1)'
  BY <1>1, <1>3 DEF Taken
<1> DEFINE from == writing.from
           to == writing.to
<1>5. /\ from \in Nat /\ to \in Nat /\ Written(h, from) /\ StillWanted(h, from, to)
      /\ WriteLines(h + 1, from, to)
  BY <1>1, <1>3
<1> HIDE DEF from, to
<1>6. ASSUME NEW a \in Nat, NEW b \in Nat, Written(h, a), StillWanted(h, a, b), WriteLines(h + 1, a, b)
      PROVE  ConsumerInv'
  BY <1>1, <1>4, <1>6, WritingFits
<1> QED
  BY <1>5, <1>6

\* The way out of the loop, and a step of nobody.
LEMMA EndOfConsumerFits ==
  ASSUME ConsumerInv, LoopCancelled \/ GoodbyeAndClose \/ Drain \/ UNCHANGED consumerVars
  PROVE  ConsumerInv'
<1> USE DEF busEndVars, readerVars, stopVars, outputVars
<1>1. /\ UNCHANGED <<max, sent, fetched, reader, signalled, timer, loopDone, stdout, pipe, writing, delivered>>
      /\ UNCHANGED frameCh \/ (stage = "drain" /\ frameCh # <<>> /\ frameCh' = Tail(frameCh))
  BY DEF LoopCancelled, GoodbyeAndClose, Drain, consumerVars
<1>2. /\ link' \in {"none", "open", "eof", "reset", "closed"}
      /\ outcome' \in [code : {0, 1, 141, 143}, reason : ExitReasons]
      /\ \/ UNCHANGED <<stage, outcome>>
         \/ /\ stage = "loop" /\ stage' = "leave" /\ loopDone /\ outcome'.code = outcome.code
            /\ outcome'.reason = IF TimeoutFired THEN "timeout" ELSE "signal"
         \/ stage = "leave" /\ stage' = "drain" /\ UNCHANGED outcome
         \/ stage = "drain" /\ stage' = "exit" /\ UNCHANGED outcome /\ reader.at = "done"
  <2>0. /\ outcome \in [code : {0, 1, 141, 143}, reason : ExitReasons]
        /\ link \in {"none", "open", "eof", "reset", "closed"}
    BY DEF ConsumerInv, ConsumerTypeOK
  <2>1. CASE LoopCancelled
    <3> DEFINE r == IF TimeoutFired THEN "timeout" ELSE "signal"
    <3>1. /\ stage = "loop" /\ stage' = "leave" /\ loopDone /\ UNCHANGED link
          /\ outcome' = [outcome EXCEPT !.reason = r] /\ r \in ExitReasons
      BY <2>1 DEF LoopCancelled, Leave, ExitReasons
    <3> HIDE DEF r
    <3>2. /\ outcome'.code = outcome.code /\ outcome'.reason = r
          /\ outcome' \in [code : {0, 1, 141, 143}, reason : ExitReasons]
      BY <2>0, <3>1
    <3> QED
      BY <2>0, <3>1, <3>2 DEF r
  <2>2. CASE GoodbyeAndClose
    BY <2>0, <2>2 DEF GoodbyeAndClose
  <2>3. CASE Drain
    BY <2>0, <2>3 DEF Drain
  <2>4. CASE UNCHANGED consumerVars
    BY <2>0, <2>4 DEF consumerVars
  <2> QED
    BY <2>1, <2>2, <2>3, <2>4
<1>3. /\ frameCh' \in Seq(Packets) /\ Len(frameCh') <= FrameChCap
      /\ \A i \in 1..Len(frameCh') : \E j \in 1..Len(frameCh) : frameCh'[i] = frameCh[j]
  <2>1. frameCh \in Seq(Packets) /\ Len(frameCh) <= FrameChCap /\ FrameChCap \in Nat
    BY ConsumerAssumption DEF ConsumerInv, ConsumerTypeOK
  <2>2. CASE frameCh # <<>> /\ frameCh' = Tail(frameCh)
    BY <2>1, <2>2
  <2> QED
    BY <1>1, <2>1, <2>2
<1>4. stage' \in {"idle", "dial", "ack", "ready", "loop", "leave", "drain", "exit"}
  BY <1>2 DEF ConsumerInv, ConsumerTypeOK
<1>5. ConsumerTypeOK'
  BY <1>1, <1>2, <1>3, <1>4 DEF ConsumerInv, ConsumerTypeOK, Packets
<1>6. stage' \in Untold => UNCHANGED <<stage, outcome, frameCh>>
  BY <1>1, <1>2 DEF Untold
<1>7. ReaderInv'
  <2>1. ASSUME NEW i \in 1..Len(frameCh')
        PROVE  /\ frameCh'[i].is # "frame" => reader'.at = "done"
               /\ frameCh'[i].is = "frame" => frameCh'[i].n \in 1..fetched'
    <3> PICK j \in 1..Len(frameCh) : frameCh'[i] = frameCh[j]
      BY <1>3
    <3> QED
      BY <1>1 DEF ConsumerInv, ReaderInv
  <2>2. stage' = "idle" => max' = 0
    BY <1>1, <1>6 DEF ConsumerInv, ReaderInv, Untold
  <2>3. stage' \in {"idle", "dial", "ack", "ready"} =>
          reader'.at = "off" /\ frameCh' = <<>> /\ fetched' = 0 /\ stdout' = <<>> /\ delivered' = 0
    BY <1>1, <1>6 DEF ConsumerInv, ReaderInv, Untold
  <2> QED
    BY <1>1, <2>1, <2>2, <2>3 DEF ConsumerInv, ReaderInv
<1>8. LoopInv'
  <2>0. UNCHANGED Stalled /\ (stage' # "loop" => ~Stalled)
    <3>1. stage' # "loop" /\ stage = "loop" => ~Stalled
      BY DEF LoopCancelled, GoodbyeAndClose, Drain, consumerVars
    <3> QED
      BY <1>1, <3>1 DEF Stalled, ConsumerInv, LoopInv
  <2>1. CASE stage' = "loop"
    BY <1>1, <1>6, <2>0, <2>1 DEF ConsumerInv, LoopInv, Handled, Written, Taken, StillWanted, Untold
  <2>2. CASE stage' # "loop"
    BY <1>1, <1>6, <2>0, <2>2 DEF ConsumerInv, LoopInv, Untold
  <2> QED
    BY <2>1, <2>2
<1>9. EndInv'
  BY <1>1, <1>2 DEF ConsumerInv, EndInv, CleanEnds, TimeoutFired
<1>10. OutputIsAPrefix'
  BY <1>1, OutputStays, FrameTypes DEF ConsumerInv
<1> QED
  BY <1>5, <1>7, <1>8, <1>9, <1>10 DEF ConsumerInv

LEMMA ConsumerInitFits == ConsumerInit => ConsumerInv
<1> SUFFICES ASSUME ConsumerInit
             PROVE  ConsumerInv
  OBVIOUS
<1> USE DEF ConsumerInit
<1>1. ConsumerTypeOK
  <2>1. CleanEnd \in Packets
    BY DEF Packets
  <2>2. outcome \in [code : {0, 1, 141, 143}, reason : ExitReasons]
    BY DEF ExitReasons
  <2>3. reader \in [at : {"off", "read", "send", "done"}, pkt : Packets]
    BY <2>1
  <2>4. /\ sent \in Seq(Frames) /\ Len(sent) <= MaxFrames /\ fetched \in 0..Len(sent)
        /\ frameCh \in Seq(Packets) /\ Len(frameCh) <= FrameChCap
    BY ConsumerAssumption
  <2>5. writing \in [frame : Nat, from : Nat, to : Nat]
    BY DEF NoWrite
  <2> QED
    BY <2>2, <2>3, <2>4, <2>5 DEF ConsumerTypeOK
<1>2. ReaderInv /\ LoopInv
  BY DEF ReaderInv, LoopInv, Stalled, NoWrite
<1>3. EndInv
  BY DEF EndInv, CleanEnds, TimeoutFired
<1>4. OutputIsAPrefix
  BY DEF OutputIsAPrefix, Range
<1> QED
  BY <1>1, <1>2, <1>3, <1>4 DEF ConsumerInv

LEMMA ConsumerStepFits == ConsumerInv /\ [ConsumerNext]_consumerVars => ConsumerInv'
BY StartOfConsumerFits, SurroundingsFit, ReaderFits, HandleFrameFits, WriteGoesOnFits, EndOfConsumerFits
   DEF ConsumerNext, MainNext

\* The inductive invariant of the consumer.
THEOREM ConsumerInvariant == ConsumerSpec => []ConsumerInv
<1> QED
  BY ConsumerInitFits, ConsumerStepFits, PTL DEF ConsumerSpec

\* The consumer keeps to its types, frameCh to its capacity.
THEOREM ConsumerTyped == ConsumerSpec => []ConsumerTypeOK
<1>1. ConsumerInv => ConsumerTypeOK
  BY DEF ConsumerInv
<1> QED
  BY <1>1, ConsumerInvariant, PTL

\* However the reader, the main loop, the signals and the timer interleave,
\* stdout is the first lines of what the bus wrote, in order and complete, and
\* never more than --max-events of them (handleFrame, emitEventViaJQ).
THEOREM OutputStaysAPrefix == ConsumerSpec => []OutputIsAPrefix
<1>1. ConsumerInv => OutputIsAPrefix
  BY DEF ConsumerInv
<1> QED
  BY <1>1, ConsumerInvariant, PTL

\* The reason on the exit line is true and the exit code fits it (runLoop).
THEOREM ExitLineIsTrue == ConsumerSpec => []ExitSaysWhy
<1>1. ConsumerInv => ExitSaysWhy
  BY DEF ConsumerInv, EndInv, CleanEnds, ExitSaysWhy
<1> QED
  BY <1>1, ConsumerInvariant, PTL

-----------------------------------------------------------------------------
\* While the loop runs, a reader that has ended has left the error it ended
\* with in the channel; the socket is closed before the channel is drained.
WaitInv ==
  /\ stage = "loop" /\ reader.at = "done" =>
       frameCh # <<>> /\ frameCh[Len(frameCh)].is # "frame"
  /\ stage \in {"loop", "leave", "drain"} => reader.at # "off"
  /\ stage = "drain" => link = "closed"

\* What the theorems about the end of the consumer rest on.
StoppingInv == ConsumerInv /\ WaitInv

\* Told to stop, or on the way out.
Stopping ==
  \/ stage = "loop" /\ (loopDone \/ link # "open")
  \/ stage \in {"leave", "drain"}

\* The guards of the steps of the main and the reader goroutine that need
\* neither the bus nor a signal, nor the reader of stdout.
MainCanStep ==
  \/ stage = "loop" /\ ~Stalled /\ (loopDone \/ frameCh # <<>>)
  \/ stage = "leave"
  \/ stage = "drain" /\ (frameCh # <<>> \/ reader.at = "done")
ReaderCanStep ==
  \/ reader.at = "send" /\ Len(frameCh) < FrameChCap
  \/ /\ reader.at = "read"
     /\ fetched < Len(sent) \/ (link # "open" /\ (link = "eof" => fetched = Len(sent)))

\* A consumer told to stop is never left with two goroutines that wait for each
\* other or for the bus: what can keep it is a blocked write to stdout, and that
\* only inside the loop.
StoppingWaitsOnlyForStdout ==
  Stopping => MainCanStep \/ ReaderCanStep \/ (stage = "loop" /\ Stalled)

\* What a packet still takes of the two goroutines: three steps for a frame to
\* be read, two for the packet in hand, one for a packet in the channel; and
\* two for the error packet a reader ends with.
ReaderLeft ==
  IF reader.at = "done" THEN 0
  ELSE IF reader.at = "send" THEN IF reader.pkt.is = "frame" THEN 5 ELSE 2
  ELSE 3
\* The stages left: the loop, the goodbye, the draining.
StageLeft ==
  IF stage = "loop" THEN 3 ELSE IF stage = "leave" THEN 2 ELSE IF stage = "drain" THEN 1 ELSE 0
\* The lines a blocked write has left.
LinesLeft == IF Stalled THEN writing.to - writing.from ELSE 0
\* What is left of both goroutines.
StopStepsLeft == 3 * (Len(sent) - fetched) + ReaderLeft + Len(frameCh) + StageLeft

\* Once nothing more comes, every step of the two goroutines brings the end
\* nearer, and so does every line that stdout's reader takes of a blocked write,
\* nothing else delays it; and what told the loop to stop stays.
StoppingAdvances ==
  /\ stage = "loop" /\ loopDone => loopDone' /\ stage' \in {"loop", "leave", "exit"}
  /\ stage = "loop" /\ link # "open" => link' # "open" /\ stage' \in {"loop", "leave", "exit"}
  /\ (stage = "loop" /\ link # "open") \/ stage \in {"leave", "drain"} =>
       /\ StopStepsLeft \in Nat /\ LinesLeft \in Nat
       /\ MainNext \/ ReaderNext => StopStepsLeft' < StopStepsLeft
       /\ WriteGoesOn => \/ StopStepsLeft' < StopStepsLeft
                         \/ StopStepsLeft' = StopStepsLeft /\ LinesLeft' < LinesLeft
       /\ ~(MainNext \/ ReaderNext \/ WriteGoesOn) =>
            StopStepsLeft' = StopStepsLeft /\ LinesLeft' = LinesLeft /\ stage' = stage
  /\ stage = "leave" => stage' \in {"leave", "drain"}
  /\ stage = "drain" => stage' \in {"drain", "exit"}
  /\ stage = "exit" => stage' = "exit"

\* Appending to the channel and taking from it.
LEMMA ChannelSizes ==
  ASSUME NEW q \in Seq(Packets)
  PROVE  /\ Len(q) \in Nat /\ (q # <<>> => Len(Tail(q)) = Len(q) - 1 /\ Len(q) > 0)
         /\ \A p \in Packets : /\ Len(Append(q, p)) = Len(q) + 1
                               /\ Append(q, p) # <<>>
                               /\ Append(q, p)[Len(Append(q, p))] = p
         /\ q # <<>> /\ Tail(q) # <<>> => Tail(q)[Len(Tail(q))] = q[Len(q)]
<1>1. Len(q) \in Nat /\ (q # <<>> => Len(Tail(q)) = Len(q) - 1 /\ Len(q) > 0)
  OBVIOUS
<1>2. ASSUME NEW p \in Packets
      PROVE  /\ Len(Append(q, p)) = Len(q) + 1 /\ Append(q, p) # <<>>
             /\ Append(q, p)[Len(Append(q, p))] = p
  OBVIOUS
<1>3. ASSUME q # <<>>, Tail(q) # <<>>
      PROVE  Tail(q)[Len(Tail(q))] = q[Len(q)]
  <2>1. Tail(q) \in Seq(Packets) /\ Len(Tail(q)) = Len(q) - 1 /\ Len(Tail(q)) > 0
    BY <1>3
  <2>2. \A k \in 1..Len(Tail(q)) : Tail(q)[k] = q[k + 1]
    BY <1>3
  <2> QED
    BY <1>1, <2>1, <2>2
<1> QED
  BY <1>1, <1>2, <1>3

\* The types that the arguments about steps need.
LEMMA StopTypes ==
  ASSUME ConsumerInv
  PROVE  /\ Len(sent) \in Nat /\ fetched \in Nat /\ fetched <= Len(sent)
         /\ frameCh \in Seq(Packets) /\ Len(frameCh) \in Nat /\ Len(frameCh) <= FrameChCap
         /\ reader \in [at : {"off", "read", "send", "done"}, pkt : Packets]
         /\ FrameChCap \in Nat \ {0}
         /\ link \in {"none", "open", "eof", "reset", "closed"}
         /\ stage \in {"idle", "dial", "ack", "ready", "loop", "leave", "drain", "exit"}
BY ConsumerAssumption, FrameTypes DEF ConsumerInv, ConsumerTypeOK

\* The main goroutine's steps before the loop, and those of signals, timer and
\* bus, leave reader and channel alone.
LEMMA AroundStays ==
  ASSUME StoppingInv,
         \/ \E m \in MaxEvents, bad \in SUBSET Range(Checks) : Run(m, bad)
         \/ SendHello \/ ReadHelloAck \/ Arm
         \/ TimerFires \/ WatcherCancels \/ Signal
         \/ \E f \in Frames : BusWrites(f)
         \/ \E how \in {"eof", "reset"} : BusCloses(how)
  PROVE  WaitInv'
<1> USE DEF WaitInv, readerVars, busEndVars, stopVars
<1>1. stage \in {"idle", "dial", "ack", "ready"} => reader.at = "off"
  BY DEF StoppingInv, ConsumerInv, ReaderInv
<1>2. CASE \/ \E m \in MaxEvents, bad \in SUBSET Range(Checks) : Run(m, bad)
           \/ SendHello \/ ReadHelloAck
  BY <1>1, <1>2 DEF StoppingInv, Run, SendHello, ReadHelloAck, Exit
<1>3. CASE Arm
  BY <1>3, StopTypes DEF StoppingInv, Arm
<1>4. CASE TimerFires \/ WatcherCancels \/ Signal
  BY <1>4 DEF StoppingInv, TimerFires, WatcherCancels, Signal, Exit
<1>5. CASE \/ \E f \in Frames : BusWrites(f)
           \/ \E how \in {"eof", "reset"} : BusCloses(how)
  BY <1>5 DEF StoppingInv, BusWrites, BusCloses
<1> QED
  BY <1>2, <1>3, <1>4, <1>5

\* The reader puts its last packet into the channel before it is done.
LEMMA ReaderWaits ==
  ASSUME StoppingInv, ReaderNext
  PROVE  WaitInv'
<1> USE DEF WaitInv, stopVars, busEndVars
<1>1. CASE ReaderReads
  <2>1. UNCHANGED <<stage, link, frameCh>> /\ reader'.at = "send"
    BY <1>1 DEF ReaderReads
  <2> QED
    BY <2>1 DEF StoppingInv
<1>2. CASE ReaderSends
  <2>1. /\ UNCHANGED <<stage, link>> /\ frameCh' = Append(frameCh, reader.pkt)
        /\ reader'.at = IF reader.pkt.is = "frame" THEN "read" ELSE "done"
        /\ reader.pkt \in Packets /\ frameCh \in Seq(Packets)
    BY <1>2, StopTypes DEF StoppingInv, ReaderSends
  <2>2. frameCh' # <<>> /\ frameCh'[Len(frameCh')] = reader.pkt
    BY <2>1, ChannelSizes
  <2> QED
    BY <2>1, <2>2 DEF StoppingInv
<1> QED
  BY <1>1, <1>2 DEF ReaderNext

\* Where the loop goes from a write.
LEMMA WriteMoves ==
  ASSUME stage = "loop", NEW n, NEW from, NEW to, WriteLines(n, from, to)
  PROVE  /\ stage' \in {"loop", "leave", "exit"} /\ link' \in {link, "closed"}
         /\ stage' = "loop" => link' = link /\ outcome' = outcome
<1>1. \/ GoOn \/ Leave("limit") \/ Leave("signal") \/ Fail("handle_error")
      \/ Exit(141, "killed") /\ link' = "closed"
  BY DEF WriteLines
<1> QED
  BY <1>1 DEF GoOn, Leave, Fail, Exit

\* Where the loop goes from one packet: to the next one, if it was a frame.
LEMMA HandledStays ==
  ASSUME StoppingInv, HandleFrame
  PROVE  /\ stage = "loop" /\ frameCh # <<>> /\ frameCh' = Tail(frameCh)
         /\ UNCHANGED <<sent, fetched, reader, signalled, timer, loopDone>>
         /\ stage' \in {"loop", "leave", "exit"}
         /\ stage' = "loop" => Head(frameCh).is = "frame" /\ link' = link
         /\ link' \in {link, "closed"}
<1>1. /\ stage = "loop" /\ frameCh # <<>> /\ frameCh' = Tail(frameCh)
      /\ UNCHANGED <<sent, fetched, reader, signalled, timer, loopDone>>
  BY DEF HandleFrame, stopVars
<1> DEFINE pkt == Head(frameCh)
           kind == IF pkt.is = "frame" THEN sent[pkt.n].kind ELSE pkt.is
<1>2. \/ kind = "event" /\ EmitEvent(pkt.n)
      \/ kind \in Ignored /\ GoOn
      \/ kind \in Fatal /\ Fail("handle_error")
      \/ kind = "broken" /\ Fail("read_error")
      \/ kind \in {"bye", "clean_end"} /\ Leave("shutdown")
  BY DEF HandleFrame
<1>3. pkt \in Packets
  BY <1>1, StopTypes DEF StoppingInv
<1>4. pkt.is # "frame" => kind \in {"clean_end", "broken"}
  BY <1>3 DEF Packets, CleanEnd, Broken
<1>5. ASSUME kind = "event", EmitEvent(pkt.n)
      PROVE  /\ stage' \in {"loop", "leave", "exit"} /\ link' \in {link, "closed"}
             /\ stage' = "loop" => pkt.is = "frame" /\ link' = link
  <2>1. pkt.is = "frame"
    BY <1>4, <1>5
  <2> HIDE DEF kind, pkt
  <2>2. WriteLines(pkt.n, 0, Wanted(sent[pkt.n].lines))
    BY <1>5 DEF EmitEvent
  <2> QED
    BY <1>1, <2>1, <2>2, WriteMoves
<1> HIDE DEF kind, pkt
<1>6. /\ stage' \in {"loop", "leave", "exit"} /\ link' \in {link, "closed"}
      /\ stage' = "loop" => pkt.is = "frame" /\ link' = link
  BY <1>1, <1>2, <1>4, <1>5 DEF GoOn, Leave, Fail, Exit, Ignored
<1> QED
  BY <1>1, <1>6 DEF pkt

\* The main goroutine takes that packet only to leave the loop.
LEMMA MainWaits ==
  ASSUME StoppingInv, LoopCancelled \/ HandleFrame \/ WriteGoesOn \/ GoodbyeAndClose \/ Drain
  PROVE  WaitInv'
<1> USE DEF WaitInv, readerVars, busEndVars, stopVars
<1>1. CASE LoopCancelled \/ GoodbyeAndClose \/ Drain
  BY <1>1 DEF StoppingInv, LoopCancelled, GoodbyeAndClose, Drain, Leave
<1>2. CASE HandleFrame
  <2>1. stage' # "exit" => reader'.at # "off"
    BY <1>2, HandledStays DEF StoppingInv
  <2>2. ASSUME stage' = "loop", reader'.at = "done"
        PROVE  frameCh' # <<>> /\ frameCh'[Len(frameCh')].is # "frame"
    <3>1. /\ frameCh # <<>> /\ frameCh[Len(frameCh)].is # "frame"
          /\ frameCh' = Tail(frameCh) /\ frameCh[1].is = "frame" /\ frameCh \in Seq(Packets)
      BY <1>2, <2>2, HandledStays, StopTypes DEF StoppingInv
    <3>2. Tail(frameCh) # <<>>
      <4>1. Len(frameCh) # 1 /\ Len(frameCh) \in Nat /\ Len(frameCh) > 0
        BY <3>1, ChannelSizes
      <4>2. Len(Tail(frameCh)) # 0
        BY <3>1, <4>1, ChannelSizes
      <4> QED
        BY <4>2
    <3> QED
      BY <3>1, <3>2, ChannelSizes
  <2>3. stage' # "drain"
    BY <1>2, HandledStays
  <2> QED
    BY <2>1, <2>2, <2>3
<1>3. CASE WriteGoesOn
  <2>1. stage = "loop" /\ UNCHANGED <<frameCh, reader>> /\ stage' \in {"loop", "leave", "exit"}
    BY <1>3, WriteMoves DEF WriteGoesOn
  <2> QED
    BY <2>1 DEF StoppingInv
<1> QED
  BY <1>1, <1>2, <1>3

\* The reader goroutine of consume_runner.go sends the error it ends on: as long
\* as the loop runs and the reader is done, the last packet in frameCh is that
\* error.
THEOREM StoppingInvariant == ConsumerSpec => []StoppingInv
<1>1. ConsumerInit => StoppingInv
  BY ConsumerInitFits DEF StoppingInv, WaitInv, ConsumerInit
<1>2. StoppingInv /\ [ConsumerNext]_consumerVars => StoppingInv'
  <2> SUFFICES ASSUME StoppingInv, [ConsumerNext]_consumerVars
               PROVE  WaitInv'
    BY ConsumerStepFits DEF StoppingInv
  <2>1. CASE UNCHANGED consumerVars
    BY <2>1 DEF consumerVars, WaitInv, StoppingInv
  <2> QED
    BY <2>1, AroundStays, ReaderWaits, MainWaits DEF ConsumerNext, MainNext
<1> QED
  BY <1>1, <1>2, PTL DEF ConsumerSpec

\* A consumer whose loop was cancelled or whose bus has gone, and one that is on its way
\* out, waits for nobody but the reader of stdout: unless the loop is inside a write
\* that blocks (writeEventToStdout, emitEventViaJQ), either the main goroutine can take
\* a packet, say goodbye or leave, or the reader can read or send (a reader stuck on a
\* full frameCh is released by the draining that follows the Close).
THEOREM ConsumerStopWaitsOnlyForStdout == ConsumerSpec => []StoppingWaitsOnlyForStdout
<1>1. StoppingInv => StoppingWaitsOnlyForStdout
  <2> SUFFICES ASSUME StoppingInv, Stopping, ~MainCanStep, ~(stage = "loop" /\ Stalled)
               PROVE  ReaderCanStep
    BY DEF StoppingWaitsOnlyForStdout
  <2>1. frameCh = <<>> /\ link # "open" /\ reader.at \in {"read", "send"}
    BY StopTypes DEF StoppingInv, WaitInv, Stopping, MainCanStep
  <2>2. Len(frameCh) < FrameChCap
    BY <2>1, StopTypes DEF StoppingInv
  <2>3. fetched < Len(sent) \/ fetched = Len(sent)
    BY StopTypes DEF StoppingInv
  <2> QED
    BY <2>1, <2>2, <2>3 DEF ReaderCanStep
<1> QED
  BY <1>1, StoppingInvariant, PTL

\* What is left is a number.
LEMMA RanksAreNumbers ==
  ASSUME StoppingInv
  PROVE  StopStepsLeft \in Nat /\ ReaderLeft \in Nat /\ StageLeft \in 0..3 /\ LinesLeft \in Nat
<1>1. ReaderLeft \in Nat /\ StageLeft \in 0..3
  BY DEF ReaderLeft, StageLeft
<1>2. LinesLeft \in Nat
  <2>1. writing.from \in Nat /\ writing.to \in Nat
    BY DEF StoppingInv, ConsumerInv, ConsumerTypeOK
  <2> QED
    BY <2>1 DEF LinesLeft, Stalled
<1>3. StopStepsLeft \in Nat
  BY <1>1, StopTypes DEF StopStepsLeft, StoppingInv
<1> QED
  BY <1>1, <1>2, <1>3

\* The reader: a frame read is one less to read, a packet sent one more to
\* handle.
LEMMA ReaderAdvances ==
  ASSUME StoppingInv, ReaderNext
  PROVE  StopStepsLeft' < StopStepsLeft /\ UNCHANGED <<stage, link, loopDone>>
<1>0. UNCHANGED <<stage, link, loopDone, sent>>
  BY DEF ReaderNext, ReaderReads, ReaderSends, busEndVars, stopVars
<1>1. StageLeft' = StageLeft
  BY <1>0 DEF StageLeft
<1>7. /\ Len(sent) \in Nat /\ fetched \in Nat /\ Len(frameCh) \in Nat
      /\ ReaderLeft \in Nat /\ StageLeft \in 0..3
  BY StopTypes, RanksAreNumbers DEF StoppingInv
<1>2. CASE ReaderReads
  <2>1. frameCh' = frameCh /\ reader.at = "read" /\ reader'.at = "send"
    BY <1>2 DEF ReaderReads
  <2>2. ReaderLeft = 3 /\ ReaderLeft' \in {2, 5}
    BY <2>1 DEF ReaderLeft
  <2>3. CASE fetched' = fetched + 1
    BY <1>0, <1>1, <1>7, <2>1, <2>2, <2>3 DEF StopStepsLeft
  <2>4. CASE fetched' = fetched /\ reader'.pkt.is # "frame"
    <3>1. ReaderLeft' = 2
      BY <2>1, <2>4 DEF ReaderLeft
    <3> QED
      BY <1>0, <1>1, <1>7, <2>1, <2>2, <2>4, <3>1 DEF StopStepsLeft
  <2>5. fetched' = fetched + 1 \/ (fetched' = fetched /\ reader'.pkt.is # "frame")
    BY <1>2 DEF ReaderReads, CleanEnd, Broken
  <2> QED
    BY <2>3, <2>4, <2>5
<1>3. CASE ReaderSends
  <2>1. /\ reader.at = "send" /\ fetched' = fetched /\ Len(frameCh') = Len(frameCh) + 1
        /\ reader'.at = IF reader.pkt.is = "frame" THEN "read" ELSE "done"
    BY <1>3, StopTypes, ChannelSizes DEF ReaderSends, StoppingInv
  <2>2. /\ ReaderLeft = IF reader.pkt.is = "frame" THEN 5 ELSE 2
        /\ ReaderLeft' = IF reader.pkt.is = "frame" THEN 3 ELSE 0
    BY <2>1 DEF ReaderLeft
  <2>3. ReaderLeft' \in Nat /\ ReaderLeft' + 2 <= ReaderLeft
    BY <2>2
  <2>4. Len(sent') = Len(sent)
    BY <1>0
  <2>5. Len(frameCh') = Len(frameCh) + 1 /\ fetched' = fetched
    BY <2>1
  <2>6. StopStepsLeft' = 3 * (Len(sent) - fetched) + ReaderLeft' + (Len(frameCh) + 1) + StageLeft
    BY <1>1, <2>4, <2>5 DEF StopStepsLeft
  <2>7. 3 * (Len(sent) - fetched) \in Int
    BY <1>7
  <2>8. StopStepsLeft = 3 * (Len(sent) - fetched) + ReaderLeft + Len(frameCh) + StageLeft
    BY DEF StopStepsLeft
  <2>9. \A a, r, s, n, g \in Int : s + 2 <= r => a + s + (n + 1) + g < a + r + n + g
    OBVIOUS
  <2>10. ReaderLeft \in Int /\ ReaderLeft' \in Int /\ Len(frameCh) \in Int /\ StageLeft \in Int
    BY <1>7, <2>3
  <2>11. StopStepsLeft' < StopStepsLeft
    BY <2>3, <2>6, <2>7, <2>8, <2>9, <2>10
  <2> QED
    BY <1>0, <2>11
<1> QED
  BY <1>0, <1>2, <1>3 DEF ReaderNext

\* The main goroutine: a packet taken, or the next stage of the way out.
LEMMA MainAdvances ==
  ASSUME StoppingInv, MainNext, stage \in {"loop", "leave", "drain"}
  PROVE  /\ StopStepsLeft' < StopStepsLeft /\ loopDone' = loopDone
         /\ stage = "loop" => stage' \in {"loop", "leave", "exit"} /\ link' \in {link, "closed"}
         /\ stage = "leave" => stage' = "drain"
         /\ stage = "drain" => stage' \in {"drain", "exit"}
<1>1. LoopCancelled \/ HandleFrame \/ GoodbyeAndClose \/ Drain
  BY DEF MainNext, SendHello, ReadHelloAck, Arm
<1>2. UNCHANGED <<sent, fetched, reader, loopDone>>
  BY <1>1, HandledStays DEF LoopCancelled, GoodbyeAndClose, Drain, readerVars, busEndVars, stopVars
<1>3. ReaderLeft' = ReaderLeft /\ StageLeft' \in 0..3
  BY <1>2 DEF ReaderLeft, StageLeft
<1>7. /\ Len(sent) \in Nat /\ fetched \in Nat /\ Len(frameCh) \in Nat
      /\ ReaderLeft \in Nat /\ StageLeft \in 0..3
  BY StopTypes, RanksAreNumbers DEF StoppingInv
<1>4. CASE HandleFrame
  <2>1. Len(frameCh') = Len(frameCh) - 1 /\ stage = "loop" /\ StageLeft' <= StageLeft
    BY <1>4, HandledStays, StopTypes, ChannelSizes DEF StoppingInv, StageLeft
  <2>2. /\ stage = "loop" /\ stage' \in {"loop", "leave", "exit"} /\ link' \in {link, "closed"}
    BY <1>4, HandledStays
  <2> QED
    BY <1>2, <1>3, <1>7, <2>1, <2>2 DEF StopStepsLeft
<1>5. CASE LoopCancelled \/ GoodbyeAndClose
  <2>1. /\ frameCh' = frameCh
        /\ \/ stage = "loop" /\ stage' = "leave" /\ link' = link
           \/ stage = "leave" /\ stage' = "drain"
    BY <1>5 DEF LoopCancelled, GoodbyeAndClose, Leave, readerVars
  <2>2. StageLeft' < StageLeft
    BY <2>1 DEF StageLeft
  <2> QED
    BY <1>2, <1>3, <1>7, <2>1, <2>2 DEF StopStepsLeft
<1>6. CASE Drain
  <2>1. /\ stage = "drain"
        /\ \/ frameCh # <<>> /\ frameCh' = Tail(frameCh) /\ stage' = stage
           \/ frameCh' = frameCh /\ stage' = "exit"
    BY <1>6 DEF Drain
  <2>2. \/ Len(frameCh') = Len(frameCh) - 1 /\ StageLeft' = StageLeft
        \/ Len(frameCh') = Len(frameCh) /\ StageLeft' < StageLeft
    BY <2>1, StopTypes, ChannelSizes DEF StageLeft, StoppingInv
  <2> QED
    BY <1>2, <1>3, <1>7, <2>1, <2>2 DEF StopStepsLeft
<1> QED
  BY <1>1, <1>2, <1>4, <1>5, <1>6

\* A blocked write: fewer lines are left of it, or it ends.
LEMMA WriteAdvances ==
  ASSUME StoppingInv, WriteGoesOn, consumerVars' # consumerVars
  PROVE  /\ stage = "loop" /\ stage' \in {"loop", "leave", "exit"} /\ link' \in {link, "closed"}
         /\ loopDone' = loopDone
         /\ \/ StopStepsLeft' < StopStepsLeft
            \/ StopStepsLeft' = StopStepsLeft /\ LinesLeft' < LinesLeft
<1> DEFINE n == writing.frame
           from == writing.from
           to == writing.to
<1>1. /\ stage = "loop" /\ Stalled /\ from < to /\ WriteLines(n, from, to)
      /\ writing = [frame |-> n, from |-> from, to |-> to]
      /\ n \in Nat /\ from \in Nat /\ to \in Nat /\ stdout \in Seq(Nat \X Nat) /\ delivered \in Nat
      /\ UNCHANGED <<max, sent, fetched, reader, frameCh, signalled, timer, loopDone>>
  BY DEF WriteGoesOn, readerVars, stopVars, Stalled, StoppingInv, ConsumerInv, ReaderInv, ConsumerTypeOK
<1> HIDE DEF n, from, to
<1>2. stage' \in {"loop", "leave", "exit"} /\ link' \in {link, "closed"}
  BY <1>1, WriteMoves
<1>3. ReaderLeft' = ReaderLeft /\ StageLeft = 3
  BY <1>1 DEF ReaderLeft, StageLeft
<1>4. /\ 3 * (Len(sent) - fetched) \in Int /\ ReaderLeft \in Int /\ Len(frameCh) \in Int
      /\ LinesLeft = to - from
  BY <1>1, StopTypes, RanksAreNumbers DEF StoppingInv, LinesLeft, from, to
<1>5. CASE stage' # "loop"
  <2>1. StageLeft' \in {0, 2}
    BY <1>2, <1>5 DEF StageLeft
  <2>2. StopStepsLeft' < StopStepsLeft
    BY <1>1, <1>3, <1>4, <2>1 DEF StopStepsLeft
  <2> QED
    BY <1>1, <1>2, <2>2
<1>6. CASE stage' = "loop"
  <2>1. StopStepsLeft' = StopStepsLeft
    BY <1>1, <1>3, <1>6 DEF StopStepsLeft, StageLeft
  <2>2. PICK k \in 0..(to - from) :
          /\ stdout' = stdout \o [i \in 1..k |-> <<n, from + i>>] /\ delivered' = delivered + k
          /\ \/ writing' = NoWrite
             \/ /\ k < to - from /\ writing' = [frame |-> n, from |-> from + k, to |-> to]
                /\ GoOn /\ UNCHANGED pipe
    BY <1>1 DEF WriteLines
  <2>3. CASE writing' = NoWrite
    <3>1. LinesLeft' = 0
      BY <2>3 DEF LinesLeft, Stalled, NoWrite
    <3> QED
      BY <1>1, <1>2, <1>4, <2>1, <3>1
  <2>4. CASE /\ k < to - from /\ writing' = [frame |-> n, from |-> from + k, to |-> to]
             /\ GoOn /\ UNCHANGED pipe
    <3>1. k # 0
      <4> SUFFICES ASSUME k = 0
                   PROVE  consumerVars' = consumerVars
        OBVIOUS
      <4>1. from + k = from /\ delivered' = delivered
        BY <1>1, <2>2
      <4>2. stdout' = stdout
        <5>1. [i \in 1..k |-> <<n, from + i>>] = <<>>
          OBVIOUS
        <5> QED
          BY <1>1, <2>2, <5>1
      <4> QED
        BY <1>1, <2>4, <4>1, <4>2 DEF consumerVars, GoOn
    <3>2. LinesLeft' = to - (from + k)
      BY <1>1, <2>2, <2>4 DEF LinesLeft, Stalled
    <3> QED
      BY <1>1, <1>2, <1>4, <2>1, <2>2, <3>1, <3>2
  <2> QED
    BY <2>2, <2>3, <2>4
<1> QED
  BY <1>5, <1>6

\* A consumer that has exited does nothing more.
LEMMA StageAfterStart == MainNext /\ stage = "exit" => FALSE
BY DEF MainNext, SendHello, ReadHelloAck, Arm, LoopCancelled, HandleFrame, GoodbyeAndClose, Drain

\* Nobody else disturbs the two.
LEMMA BesidesAdvances ==
  ASSUME StoppingInv, ConsumerNext, ~MainNext, ~ReaderNext, ~WriteGoesOn,
         stage \in {"loop", "leave", "drain", "exit"}
  PROVE  /\ stage' = stage /\ (loopDone => loopDone') /\ (link # "open" => link' # "open")
         /\ LinesLeft' = LinesLeft
         /\ link # "open" \/ stage # "loop" => StopStepsLeft' = StopStepsLeft
<1>1. \/ TimerFires \/ WatcherCancels \/ Signal
      \/ \E f \in Frames : BusWrites(f)
      \/ \E how \in {"eof", "reset"} : BusCloses(how)
  BY DEF ConsumerNext, Run
<1>2. stage' = stage /\ UNCHANGED <<fetched, reader, frameCh>>
  BY <1>1 DEF TimerFires, WatcherCancels, Signal, BusWrites, BusCloses, readerVars, Exit
<1>3. loopDone => loopDone'
  BY <1>1 DEF TimerFires, WatcherCancels, Signal, BusWrites, BusCloses, stopVars
<1>4. link # "open" \/ stage # "loop" => UNCHANGED <<sent, link>>
  BY <1>1 DEF TimerFires, WatcherCancels, Signal, BusWrites, BusCloses, busEndVars
<1>5. LinesLeft' = LinesLeft
  BY <1>1 DEF TimerFires, WatcherCancels, Signal, BusWrites, BusCloses, outputVars, LinesLeft, Stalled
<1> QED
  BY <1>2, <1>3, <1>4, <1>5 DEF StopStepsLeft, ReaderLeft, StageLeft

\* The cancellation and the end of the link are not forgotten; once nothing more comes
\* from the bus, each step of the main goroutine or the reader leaves one less of a
\* natural number, each step of a blocked write one less of it or of the lines that
\* write has left, nothing else changes either, and the stages follow one another to
\* the exit: with weak fairness of the two goroutines, and a reader of stdout that comes
\* back, the command ends (ConsumerStops).
THEOREM ConsumerStopMovesOn == ConsumerSpec => [][StoppingAdvances]_consumerVars
<1>1. StoppingInv /\ [ConsumerNext]_consumerVars => [StoppingAdvances]_consumerVars
  <2> SUFFICES ASSUME StoppingInv, ConsumerNext, consumerVars' # consumerVars
               PROVE  StoppingAdvances
    OBVIOUS
  <2>0. WriteGoesOn => ~MainNext /\ ~ReaderNext
    <3>1. WriteGoesOn => stage = "loop" /\ Stalled /\ UNCHANGED <<frameCh, fetched, reader>>
      BY DEF WriteGoesOn, readerVars
    <3>2. Stalled /\ stage = "loop" => ~MainNext
      BY DEF MainNext, SendHello, ReadHelloAck, Arm, LoopCancelled, HandleFrame, GoodbyeAndClose, Drain
    <3>3. ReaderNext => reader' # reader
      <4>1. ReaderReads => reader.at = "read" /\ reader'.at = "send"
        BY DEF ReaderReads
      <4>2. ReaderSends => reader.at = "send" /\ reader'.at # "send"
        BY StopTypes DEF ReaderSends, StoppingInv
      <4> QED
        BY <4>1, <4>2 DEF ReaderNext
    <3> QED
      BY <3>1, <3>2, <3>3
  <2>1. CASE MainNext
    BY <2>0, <2>1, MainAdvances, RanksAreNumbers, StageAfterStart DEF StoppingAdvances
  <2>2. CASE ReaderNext
    BY <2>0, <2>2, ReaderAdvances, RanksAreNumbers DEF StoppingAdvances
  <2>3. CASE WriteGoesOn
    BY <2>0, <2>3, WriteAdvances, RanksAreNumbers DEF StoppingAdvances
  <2>4. ASSUME ~MainNext, ~ReaderNext, ~WriteGoesOn
        PROVE  StoppingAdvances
    BY <2>4, BesidesAdvances, RanksAreNumbers DEF StoppingAdvances
  <2> QED
    BY <2>1, <2>2, <2>3, <2>4
<1> QED
  BY <1>1, StoppingInvariant, PTL DEF ConsumerSpec

-----------------------------------------------------------------------------
(***************************************************************************)
(* The order of versions.  Lists are compared at the first place where     *)
(* they differ, so what holds at each place (Chained) carries over to the  *)
(* lists, and from the lists to the pair of them that a version is.        *)
(***************************************************************************)

Segments == [num : BOOLEAN, val : Int]
VersionRecords == [release : Seq(Segments), pre : Seq(Segments)]

Signs == {-1, 0, 1}
Positions == Nat \ {0}

\* The results of comparing a with b, b with c and a with c are those of an order.
Chained(ab, bc, ac) ==
  /\ ab <= 0 /\ bc <= 0 => ac <= 0 /\ (ac = 0 => ab = 0 /\ bc = 0)
  /\ ab = 0 /\ bc = 0 => ac = 0

\* v is the first sign of s that is not 0, if there is one.
Decides(s, v) ==
  \/ v = 0 /\ \A i \in Positions : s[i] = 0
  \/ \E i \in Positions : v # 0 /\ v = s[i] /\ \A j \in Positions : j < i => s[j] = 0

LEMMA FirstOfThem ==
  ASSUME NEW n \in Nat, NEW at \in SUBSET (1..n), at # {}
  PROVE  \E i \in at : \A j \in at : i <= j
<1> DEFINE upTo == {1..i : i \in at}
<1>1. \A i \in at : i \in 1..n /\ IsFiniteSet(1..i)
  BY FS_Interval
<1>2. upTo \subseteq FiniteSubsetsOf(1..n) /\ upTo # {}
  <2>1. ASSUME NEW i \in at
        PROVE  1..i \in FiniteSubsetsOf(1..n)
    BY <1>1 DEF FiniteSubsetsOf
  <2> QED
    BY <2>1
<1>3. IsWellFoundedOn(StrictSubsetOrdering(1..n), FiniteSubsetsOf(1..n))
  BY FS_StrictSubsetOrderingWellFounded
<1>4. PICK x \in upTo : \A y \in upTo : <<y, x>> \notin StrictSubsetOrdering(1..n)
  <2> HIDE DEF upTo
  <2> QED
    BY <1>2, <1>3, WFMin
<1>5. PICK i \in at : x = 1..i
  BY <1>4
<1>6. ASSUME NEW j \in at, ~(i <= j)
      PROVE  FALSE
  <2>1. i \in 1..n /\ j \in 1..n /\ j < i
    BY <1>6
  <2>2. /\ 1..j \subseteq 1..i /\ i \in 1..i /\ i \notin 1..j
        /\ 1..j \subseteq 1..n /\ 1..i \subseteq 1..n
    BY <2>1
  <2>3. <<1..j, 1..i>> \in StrictSubsetOrdering(1..n)
    BY <2>2 DEF StrictSubsetOrdering
  <2> QED
    BY <1>4, <1>5, <2>3
<1> QED
  BY <1>6

\* FirstSign does that for a list that goes on with zeros.
LEMMA FirstSignDecides ==
  ASSUME NEW n \in Nat, NEW s \in [Positions -> Signs], \A i \in Positions : i > n => s[i] = 0
  PROVE  LET v == FirstSign([i \in 1..n |-> s[i]]) IN v \in Signs /\ Decides(s, v)
<1>1. PICK signs : signs = [i \in 1..n |-> s[i]]
  OBVIOUS
<1>2. PICK at : at = {i \in DOMAIN signs : signs[i] # 0}
  OBVIOUS
<1>3. /\ at \in SUBSET (1..n) /\ \A i \in 1..n : i \in Positions /\ signs[i] = s[i]
      /\ \A i \in 1..n : i \in at <=> s[i] # 0
  BY <1>1, <1>2 DEF Positions
<1>4. FirstSign(signs) = IF at = {} THEN 0 ELSE signs[CHOOSE i \in at : \A j \in at : i <= j]
  BY <1>2 DEF FirstSign
<1>5. CASE at = {}
  <2>1. ASSUME NEW i \in Positions
        PROVE  s[i] = 0
    <3>1. i > n \/ i \in 1..n
      BY DEF Positions
    <3> QED
      BY <1>3, <1>5, <3>1
  <2> QED
    BY <1>1, <1>4, <1>5, <2>1 DEF Decides, Signs
<1>6. CASE at # {}
  <2>1. PICK i \in at : i = CHOOSE k \in at : \A j \in at : k <= j
    BY <1>3, <1>6, FirstOfThem
  <2>2. \A j \in at : i <= j
    BY <1>3, <1>6, <2>1, FirstOfThem
  <2>3. i \in Positions /\ s[i] # 0 /\ s[i] \in Signs /\ FirstSign(signs) = s[i] /\ i \in 1..n
    BY <1>3, <1>4, <1>6, <2>1
  <2>4. ASSUME NEW j \in Positions, j < i
        PROVE  s[j] = 0
    <3>1. j \in 1..n /\ ~(i <= j)
      BY <2>3, <2>4 DEF Positions
    <3> QED
      BY <1>3, <2>2, <3>1
  <2> QED
    BY <1>1, <2>3, <2>4 DEF Decides
<1> QED
  BY <1>5, <1>6

\* Comparing the other way round finds the same place.
LEMMA DecidesBack ==
  ASSUME NEW s \in [Positions -> Signs], NEW t \in [Positions -> Signs],
         \A i \in Positions : t[i] = -s[i],
         NEW v \in Signs, NEW w \in Signs, Decides(s, v), Decides(t, w)
  PROVE  w = -v
<1>1. \A i \in Positions : s[i] \in Signs /\ t[i] \in Signs /\ (s[i] = 0 <=> t[i] = 0)
  BY DEF Signs
<1>2. CASE v = 0
  BY <1>1, <1>2 DEF Decides
<1>3. CASE v # 0
  <2>1. PICK i \in Positions : v = s[i] /\ \A j \in Positions : j < i => s[j] = 0
    BY <1>3 DEF Decides
  <2>2. w # 0
    BY <1>1, <1>3, <2>1 DEF Decides
  <2>3. PICK k \in Positions : w = t[k] /\ \A j \in Positions : j < k => t[j] = 0
    BY <2>2 DEF Decides
  <2>4. k = i
    <3>1. ~(i < k) /\ ~(k < i)
      BY <1>1, <1>3, <2>1, <2>2, <2>3
    <3> QED
      BY <3>1 DEF Positions
  <2> QED
    BY <2>1, <2>3, <2>4
<1> QED
  BY <1>2, <1>3

\* What is ordered at each position is ordered by the first that decides.
LEMMA DecidesInOrder ==
  ASSUME NEW ab \in [Positions -> Signs], NEW bc \in [Positions -> Signs], NEW ac \in [Positions -> Signs],
         \A i \in Positions : Chained(ab[i], bc[i], ac[i]),
         NEW x \in Signs, NEW y \in Signs, NEW z \in Signs,
         Decides(ab, x), Decides(bc, y), Decides(ac, z)
  PROVE  Chained(x, y, z)
<1>1. \A i \in Positions : ab[i] \in Signs /\ bc[i] \in Signs /\ ac[i] \in Signs
  OBVIOUS
<1>2. CASE x = 0 /\ y = 0
  <2>1. \A i \in Positions : ac[i] = 0
    BY <1>2 DEF Decides, Chained
  <2> QED
    BY <1>2, <2>1 DEF Decides, Chained
<1>3. CASE x <= 0 /\ y <= 0 /\ ~(x = 0 /\ y = 0)
  <2>1. \E m \in Positions : ac[m] < 0 /\ \A j \in Positions : j < m => ac[j] = 0
    <3>1. CASE x # 0 /\ y = 0
      <4>1. PICK i \in Positions : x = ab[i] /\ \A j \in Positions : j < i => ab[j] = 0
        BY <3>1 DEF Decides
      <4>2. \A j \in Positions : bc[j] = 0
        BY <3>1 DEF Decides
      <4> QED
        BY <1>1, <1>3, <3>1, <4>1, <4>2 DEF Chained, Signs
    <3>2. CASE x = 0 /\ y # 0
      <4>1. PICK i \in Positions : y = bc[i] /\ \A j \in Positions : j < i => bc[j] = 0
        BY <3>2 DEF Decides
      <4>2. \A j \in Positions : ab[j] = 0
        BY <3>2 DEF Decides
      <4> QED
        BY <1>1, <1>3, <3>2, <4>1, <4>2 DEF Chained, Signs
    <3>3. CASE x # 0 /\ y # 0
      <4>1. PICK i \in Positions : x = ab[i] /\ \A j \in Positions : j < i => ab[j] = 0
        BY <3>3 DEF Decides
      <4>2. PICK k \in Positions : y = bc[k] /\ \A j \in Positions : j < k => bc[j] = 0
        BY <3>3 DEF Decides
      <4>3. PICK m \in Positions : m = IF i < k THEN i ELSE k
        OBVIOUS
      <4>4. \A j \in Positions : j < m => j < i /\ j < k
        BY <4>3 DEF Positions
      <4>5. \A j \in Positions : j < m => ac[j] = 0
        BY <4>1, <4>2, <4>4 DEF Chained
      <4>6. ab[m] <= 0 /\ bc[m] <= 0 /\ (ab[m] # 0 \/ bc[m] # 0)
        <5>1. i < k \/ k < i \/ i = k
          BY DEF Positions
        <5>2. CASE i < k
          BY <1>3, <3>3, <4>1, <4>2, <4>3, <5>2
        <5>3. CASE k < i
          <6>1. m = k /\ ab[k] = 0
            BY <4>1, <4>3, <5>3 DEF Positions
          <6> QED
            BY <1>3, <3>3, <4>2, <6>1
        <5>4. CASE i = k
          <6>1. m = k
            BY <4>3, <5>4
          <6> QED
            BY <1>3, <3>3, <4>1, <4>2, <5>4, <6>1
        <5> QED
          BY <5>1, <5>2, <5>3, <5>4
      <4>7. Chained(ab[m], bc[m], ac[m]) /\ ac[m] \in Signs
        BY <1>1
      <4> QED
        BY <4>5, <4>6, <4>7 DEF Chained, Signs
    <3> QED
      BY <1>3, <3>1, <3>2, <3>3
  <2>2. PICK m \in Positions : ac[m] < 0 /\ \A j \in Positions : j < m => ac[j] = 0
    BY <2>1
  <2>3. z # 0
    BY <2>2 DEF Decides
  <2>4. PICK k \in Positions : z = ac[k] /\ \A j \in Positions : j < k => ac[j] = 0
    BY <2>3 DEF Decides
  <2>5. ~(k < m) /\ ~(m < k)
    BY <2>2, <2>3, <2>4
  <2>6. k = m
    BY <2>5 DEF Positions
  <2> QED
    BY <1>3, <2>2, <2>4, <2>6 DEF Chained, Signs
<1> QED
  BY <1>2, <1>3 DEF Chained, Signs

LEMMA SignIsOrdered ==
  /\ \A x, y \in Int : Sign(x, y) \in Signs /\ Sign(y, x) = -Sign(x, y)
  /\ \A x, y, z \in Int : Chained(Sign(x, y), Sign(y, z), Sign(x, z))
BY DEF Sign, Signs, Chained

LEMMA SegIntIsAnInt ==
  ASSUME NEW segs \in Seq(Segments), NEW i \in Positions
  PROVE  SegInt(segs, i) \in Int
<1>1. CASE i <= Len(segs)
  <2>1. segs[i] \in Segments
    BY <1>1 DEF Positions
  <2> QED
    BY <2>1 DEF SegInt, Segments
<1>2. CASE ~(i <= Len(segs))
  BY <1>2 DEF SegInt
<1> QED
  BY <1>1, <1>2

ReleaseSigns(a, b) == [i \in Positions |-> Sign(SegInt(a, i), SegInt(b, i))]

LEMMA ReleaseDecided ==
  ASSUME NEW a \in Seq(Segments), NEW b \in Seq(Segments)
  PROVE  /\ ReleaseSigns(a, b) \in [Positions -> Signs]
         /\ CompareRelease(a, b) \in Signs /\ Decides(ReleaseSigns(a, b), CompareRelease(a, b))
<1>1. PICK n \in Nat : n = Longer(a, b)
  BY DEF Longer
<1>2. PICK s : s = ReleaseSigns(a, b)
  OBVIOUS
<1>3. s \in [Positions -> Signs]
  BY <1>2, SegIntIsAnInt, SignIsOrdered DEF ReleaseSigns
<1>4. ASSUME NEW i \in Positions, i > n
      PROVE  s[i] = 0
  <2>1. ~(i <= Len(a)) /\ ~(i <= Len(b))
    BY <1>1, <1>4 DEF Longer, Positions
  <2> QED
    BY <1>2, <2>1 DEF ReleaseSigns, SegInt, Sign
<1>5. CompareRelease(a, b) = FirstSign([i \in 1..n |-> s[i]])
  <2>1. [i \in 1..n |-> s[i]] = [i \in 1..Longer(a, b) |-> Sign(SegInt(a, i), SegInt(b, i))]
    BY <1>1, <1>2 DEF ReleaseSigns, Positions
  <2> QED
    BY <2>1 DEF CompareRelease
<1> QED
  BY <1>2, <1>3, <1>4, <1>5, FirstSignDecides

LEMMA ReleasesAreOrdered ==
  ASSUME NEW a \in Seq(Segments), NEW b \in Seq(Segments), NEW c \in Seq(Segments)
  PROVE  /\ CompareRelease(a, b) \in Signs
         /\ CompareRelease(b, a) = -CompareRelease(a, b)
         /\ Chained(CompareRelease(a, b), CompareRelease(b, c), CompareRelease(a, c))
<1>1. \A i \in Positions : ReleaseSigns(b, a)[i] = -ReleaseSigns(a, b)[i]
  BY SegIntIsAnInt, SignIsOrdered DEF ReleaseSigns
<1>2. \A i \in Positions : Chained(ReleaseSigns(a, b)[i], ReleaseSigns(b, c)[i], ReleaseSigns(a, c)[i])
  BY SegIntIsAnInt, SignIsOrdered DEF ReleaseSigns
<1>3. /\ CompareRelease(a, b) \in Signs
      /\ CompareRelease(b, a) = -CompareRelease(a, b)
  BY <1>1, ReleaseDecided, DecidesBack
<1>4. Chained(CompareRelease(a, b), CompareRelease(b, c), CompareRelease(a, c))
  BY <1>2, ReleaseDecided, DecidesInOrder
<1> QED
  BY <1>3, <1>4

\* A place behind the end of both lists differs nowhere.
PreSign(a, b, i) ==
  IF i > Len(a) /\ i > Len(b) THEN 0
  ELSE IF i > Len(a) THEN -1 ELSE IF i > Len(b) THEN 1 ELSE CompareSegments(a[i], b[i])

PreSigns(a, b) == [i \in Positions |-> PreSign(a, b, i)]

LEMMA SegmentsAreOrdered ==
  /\ \A x, y \in Segments : /\ CompareSegments(x, y) \in Signs
                            /\ CompareSegments(y, x) = -CompareSegments(x, y)
  /\ \A x, y, z \in Segments :
       Chained(CompareSegments(x, y), CompareSegments(y, z), CompareSegments(x, z))
<1>1. \A x \in Segments : x.num \in BOOLEAN /\ x.val \in Int
  BY DEF Segments
<1>2. ASSUME NEW x \in Segments, NEW y \in Segments
      PROVE  CompareSegments(x, y) \in Signs /\ CompareSegments(y, x) = -CompareSegments(x, y)
  BY <1>1 DEF CompareSegments, Sign, Signs
<1>3. ASSUME NEW x \in Segments, NEW y \in Segments, NEW z \in Segments
      PROVE  Chained(CompareSegments(x, y), CompareSegments(y, z), CompareSegments(x, z))
  BY <1>1 DEF CompareSegments, Sign, Chained
<1> QED
  BY <1>2, <1>3

LEMMA PlacesAreOrdered ==
  ASSUME NEW a \in Seq(Segments), NEW b \in Seq(Segments), NEW c \in Seq(Segments), NEW i \in Positions
  PROVE  /\ PreSign(a, b, i) \in Signs /\ PreSign(b, a, i) = -PreSign(a, b, i)
         /\ Chained(PreSign(a, b, i), PreSign(b, c, i), PreSign(a, c, i))
<1>1. \A s \in Seq(Segments) : ~(i > Len(s)) => s[i] \in Segments
  BY DEF Positions
<1>2. /\ PreSign(a, b, i) \in Signs /\ PreSign(b, a, i) = -PreSign(a, b, i)
  BY <1>1, SegmentsAreOrdered DEF PreSign, Signs
<1>3. CASE ~(i > Len(a)) /\ ~(i > Len(b)) /\ ~(i > Len(c))
  BY <1>1, <1>3, SegmentsAreOrdered DEF PreSign
<1>4. CASE i > Len(a) \/ i > Len(b) \/ i > Len(c)
  BY <1>1, <1>4, SegmentsAreOrdered DEF PreSign, Chained, Signs
<1> QED
  BY <1>2, <1>3, <1>4

LEMMA PreReleaseDecided ==
  ASSUME NEW a \in Seq(Segments), NEW b \in Seq(Segments)
  PROVE  /\ PreSigns(a, b) \in [Positions -> Signs]
         /\ ComparePreRelease(a, b) \in Signs /\ Decides(PreSigns(a, b), ComparePreRelease(a, b))
<1>1. PICK n \in Nat : n = Longer(a, b)
  BY DEF Longer
<1>2. PICK s : s = PreSigns(a, b)
  OBVIOUS
<1>3. s \in [Positions -> Signs]
  BY <1>2, PlacesAreOrdered DEF PreSigns
<1>4. ASSUME NEW i \in Positions
      PROVE  /\ i > n => s[i] = 0
             /\ i <= n => s[i] = IF i > Len(a) THEN -1 ELSE IF i > Len(b) THEN 1
                                 ELSE CompareSegments(a[i], b[i])
  <2>1. i > n <=> i > Len(a) /\ i > Len(b)
    BY <1>1 DEF Longer, Positions
  <2>2. i > n <=> ~(i <= n)
    BY DEF Positions
  <2> QED
    BY <1>2, <2>1, <2>2 DEF PreSigns, PreSign
<1>5. ComparePreRelease(a, b) = FirstSign([i \in 1..n |-> s[i]])
  <2>1. [i \in 1..n |-> s[i]] =
          [i \in 1..Longer(a, b) |->
             IF i > Len(a) THEN -1 ELSE IF i > Len(b) THEN 1 ELSE CompareSegments(a[i], b[i])]
    BY <1>1, <1>4 DEF Positions
  <2> QED
    BY <2>1 DEF ComparePreRelease
<1> QED
  BY <1>2, <1>3, <1>4, <1>5, FirstSignDecides

\* What decides between two versions of one release.
PreCompare(a, b) ==
  IF a = <<>> \/ b = <<>> THEN Sign(IF a = <<>> THEN 1 ELSE 0, IF b = <<>> THEN 1 ELSE 0)
                          ELSE ComparePreRelease(a, b)

LEMMA PreReleasesAreOrdered ==
  ASSUME NEW a \in Seq(Segments), NEW b \in Seq(Segments), NEW c \in Seq(Segments)
  PROVE  /\ PreCompare(a, b) \in Signs
         /\ PreCompare(b, a) = -PreCompare(a, b)
         /\ Chained(PreCompare(a, b), PreCompare(b, c), PreCompare(a, c))
<1>1. \A i \in Positions : PreSigns(b, a)[i] = -PreSigns(a, b)[i]
  BY PlacesAreOrdered DEF PreSigns
<1>2. \A i \in Positions : Chained(PreSigns(a, b)[i], PreSigns(b, c)[i], PreSigns(a, c)[i])
  BY PlacesAreOrdered DEF PreSigns
<1>3. /\ ComparePreRelease(a, b) \in Signs /\ ComparePreRelease(b, c) \in Signs
      /\ ComparePreRelease(a, c) \in Signs
      /\ ComparePreRelease(b, a) = -ComparePreRelease(a, b)
  BY <1>1, PreReleaseDecided, DecidesBack
<1>4. Chained(ComparePreRelease(a, b), ComparePreRelease(b, c), ComparePreRelease(a, c))
  BY <1>2, PreReleaseDecided, DecidesInOrder
<1>5. /\ PreCompare(a, b) \in Signs /\ PreCompare(b, a) = -PreCompare(a, b)
  BY <1>3 DEF PreCompare, Sign, Signs
<1>6. Chained(PreCompare(a, b), PreCompare(b, c), PreCompare(a, c))
  BY <1>3, <1>4 DEF PreCompare, Sign, Signs, Chained
<1> QED
  BY <1>5, <1>6

LEMMA CompareInTwoParts ==
  ASSUME NEW a, NEW b
  PROVE  Compare(a, b) = IF CompareRelease(a.release, b.release) # 0
                         THEN CompareRelease(a.release, b.release)
                         ELSE PreCompare(a.pre, b.pre)
BY DEF Compare, PreCompare

\* Versions of any length are ordered by Compare (internal/notice/compare.go):
\* it is antisymmetric and transitive, so updates never lead back.
THEOREM VersionsAreOrdered ==
  \A a, b, c \in VersionRecords : OrderAgrees(a, b, c)
<1> SUFFICES ASSUME NEW a \in VersionRecords, NEW b \in VersionRecords, NEW c \in VersionRecords
             PROVE  OrderAgrees(a, b, c)
  OBVIOUS
<1> DEFINE r(x, y) == CompareRelease(x.release, y.release)
           p(x, y) == PreCompare(x.pre, y.pre)
<1>1. \A x \in {a, b, c} : x.release \in Seq(Segments) /\ x.pre \in Seq(Segments)
  BY DEF VersionRecords
<1>2. \A x, y \in {a, b, c} : Compare(x, y) = IF r(x, y) # 0 THEN r(x, y) ELSE p(x, y)
  BY CompareInTwoParts
<1>3. /\ \A x, y \in {a, b, c} : r(x, y) \in Signs /\ r(y, x) = -r(x, y)
      /\ Chained(r(a, b), r(b, c), r(a, c))
  BY <1>1, ReleasesAreOrdered
<1>4. /\ \A x, y \in {a, b, c} : p(x, y) \in Signs /\ p(y, x) = -p(x, y)
      /\ Chained(p(a, b), p(b, c), p(a, c))
  BY <1>1, PreReleasesAreOrdered
<1> HIDE DEF r, p
<1>5. Compare(a, b) = -Compare(b, a)
  BY <1>2, <1>3, <1>4 DEF Signs
<1>6. Chained(Compare(a, b), Compare(b, c), Compare(a, c))
  BY <1>2, <1>3, <1>4 DEF Signs, Chained
<1> QED
  BY <1>5, <1>6 DEF OrderAgrees, Chained

=============================================================================
