---------------------------- MODULE StoreProofs ----------------------------
(***************************************************************************)
(* Theorems about the stores that the processes of the client share: the   *)
(* file cache, the key store, the credentials and the log directory, for   *)
(* any number of processes, accounts, writes, keys, tokens, days and lines.*)
(***************************************************************************)
EXTENDS FileCache, KeyStore, Credentials, Logging, FiniteSetTheorems, TLAPS

-----------------------------------------------------------------------------
(***************************************************************************)
(* The file cache.  Neither lock nor lock file is part of the argument:    *)
(* what it needs is that a writer that is about to rename has a payload    *)
(* of its own, and that the file is only ever replaced as a whole.         *)
(***************************************************************************)

CallRecords ==
  [op : {"none", "set", "delete", "failed"},
   at : {"off", "open", "wait", "create", "rename", "remove", "unlock", "unlink"},
   inode : 0..MaxInodes, payload : 0..MaxWrites]

\* A Set that has not renamed yet carries a payload.
CallFits(r) ==
  /\ r.at \in {"create", "rename"} => r.op = "set"
  /\ r.op = "set" /\ r.at \in {"open", "wait", "create", "rename"} => r.payload # 0

Calls == {r \in CallRecords : CallFits(r)}

CacheInv ==
  /\ file \in [payload : 0..MaxWrites, whole : {TRUE}, fresh : BOOLEAN]
  /\ lockFile \in 0..MaxInodes /\ inodes \in 0..MaxInodes /\ writes \in 0..MaxWrites
  /\ user \in [CacheUsers -> Calls]

LEMMA ZeroFits == 0 \in 0..MaxInodes /\ 0 \in 0..MaxWrites
BY FileCacheAssumption

LEMMA RestingIsACall == Resting \in Calls
BY FileCacheAssumption DEF Resting, Calls, CallRecords, CallFits

LEMMA AbsentIsAFile == Absent \in [payload : 0..MaxWrites, whole : {TRUE}, fresh : BOOLEAN]
BY FileCacheAssumption DEF Absent

LEMMA CacheInitFits == CacheInit => CacheInv
BY ZeroFits, RestingIsACall, AbsentIsAFile DEF CacheInit, CacheInv

\* A process goes on with its call, at another place.
LEMMA CallMoves ==
  ASSUME NEW r \in Calls,
         NEW where \in {"wait", "create", "rename", "remove", "unlock"},
         where \in {"create", "rename"} => r.op = "set",
         where \in {"wait", "create", "rename"} => r.at \in {"open", "wait", "create", "rename"},
         NEW inode \in 0..MaxInodes
  PROVE  [r EXCEPT !.at = where, !.inode = inode] \in Calls
BY DEF Calls, CallRecords, CallFits

\* Its payload is on disk, or given up.
LEMMA CallIsOver ==
  ASSUME NEW r \in Calls
  PROVE  [r EXCEPT !.at = "unlock", !.payload = 0] \in Calls
BY ZeroFits DEF Calls, CallRecords, CallFits

\* Every step of a process keeps the types, and the file whole.
LEMMA CacheStepFits == CacheInv /\ [CacheNext]_cacheVars => CacheInv'
<1> SUFFICES ASSUME CacheInv, [CacheNext]_cacheVars PROVE CacheInv'
  OBVIOUS
<1> USE DEF CacheInv
<1>0. ASSUME NEW p \in CacheUsers, NEW r \in Calls, user' = [user EXCEPT ![p] = r]
      PROVE  user' \in [CacheUsers -> Calls]
  BY <1>0
<1>1. CASE Outlive
  BY <1>1 DEF Outlive
<1>2. ASSUME NEW p \in CacheUsers, Get(p) PROVE CacheInv'
  BY <1>2 DEF Get, cacheDisk
<1>3. ASSUME NEW p \in CacheUsers, NEW op \in {"set", "delete"}, BeginWrite(p, op)
      PROVE  CacheInv'
  <2> DEFINE r == [op |-> op, at |-> "open", inode |-> 0,
                   payload |-> IF op = "set" THEN writes' ELSE 0]
  <2>1. user' = [user EXCEPT ![p] = r]
    BY <1>3 DEF BeginWrite
  <2>2. writes' \in 0..MaxWrites /\ (op = "set" => writes' # 0)
    BY <1>3, FileCacheAssumption DEF BeginWrite
  <2>3. r \in Calls
    BY <2>2, FileCacheAssumption DEF Calls, CallRecords, CallFits
  <2>4. user' \in [CacheUsers -> Calls]
    BY <1>0, <2>1, <2>3
  <2> QED
    BY <1>3, <2>2, <2>4 DEF BeginWrite, cacheDisk
<1>4. ASSUME NEW p \in CacheUsers, OpenLock(p) PROVE CacheInv'
  <2> DEFINE r == [user[p] EXCEPT !.at = "wait", !.inode = lockFile']
  <2>1. lockFile' \in 0..MaxInodes /\ inodes' \in 0..MaxInodes
    BY <1>4, FileCacheAssumption DEF OpenLock
  <2>2. r \in Calls
    BY <1>4, <2>1, CallMoves DEF OpenLock
  <2>3. user' = [user EXCEPT ![p] = r]
    BY <1>4 DEF OpenLock
  <2> QED
    BY <1>0, <1>4, <2>1, <2>2, <2>3 DEF OpenLock
<1>5. ASSUME NEW p \in CacheUsers, Lock(p) PROVE CacheInv'
  <2> DEFINE r == [user[p] EXCEPT !.at = IF user[p].op = "set" THEN "create" ELSE "remove"]
  <2>1. r \in Calls
    BY <1>5 DEF Lock, Calls, CallRecords, CallFits
  <2>2. user' = [user EXCEPT ![p] = r]
    BY <1>5 DEF Lock
  <2> QED
    BY <1>0, <1>5, <2>1, <2>2 DEF Lock
<1>6. ASSUME NEW p \in CacheUsers, LockGivesUp(p) PROVE CacheInv'
  BY <1>6, RestingIsACall DEF LockGivesUp, cacheDisk
<1>7. ASSUME NEW p \in CacheUsers, WriteTemp(p) PROVE CacheInv'
  <2>1. PICK next \in {"rename", "unlock"} : user' = [user EXCEPT ![p].at = next]
    BY <1>7 DEF WriteTemp
  <2>2. [user[p] EXCEPT !.at = next] \in Calls
    BY <1>7 DEF WriteTemp, Calls, CallRecords, CallFits
  <2>3. user' = [user EXCEPT ![p] = [user[p] EXCEPT !.at = next]]
    BY <2>1
  <2> QED
    BY <1>0, <1>7, <2>2, <2>3 DEF WriteTemp, cacheDisk
<1>8. ASSUME NEW p \in CacheUsers, RenameTemp(p) PROVE CacheInv'
  <2>1. [user[p] EXCEPT !.at = "unlock", !.payload = 0] \in Calls
    BY CallIsOver
  <2>2. user' = [user EXCEPT ![p] = [user[p] EXCEPT !.at = "unlock", !.payload = 0]]
    BY <1>8 DEF RenameTemp
  <2>3. user[p].payload \in 0..MaxWrites
    BY DEF Calls, CallRecords
  <2> QED
    BY <1>0, <1>8, <2>1, <2>2, <2>3 DEF RenameTemp
<1>9. ASSUME NEW p \in CacheUsers, RemoveData(p) PROVE CacheInv'
  <2>1. \A op \in {user[p].op, "failed"} :
          [user[p] EXCEPT !.op = op, !.at = "unlock"] \in Calls
    BY DEF Calls, CallRecords, CallFits
  <2>2. \E op \in {user[p].op, "failed"} :
          user' = [user EXCEPT ![p] = [user[p] EXCEPT !.op = op, !.at = "unlock"]]
    BY <1>9 DEF RemoveData, Calls, CallRecords
  <2>3. user' \in [CacheUsers -> Calls]
    BY <1>0, <2>1, <2>2
  <2> QED
    BY <1>9, <2>3, AbsentIsAFile DEF RemoveData
<1>10. ASSUME NEW p \in CacheUsers, Release(p) PROVE CacheInv'
  <2>1. [Resting EXCEPT !.op = "delete", !.at = "unlink"] \in Calls
    BY ZeroFits DEF Resting, Calls, CallRecords, CallFits
  <2> QED
    BY <1>10, <2>1, RestingIsACall DEF Release
<1>11. ASSUME NEW p \in CacheUsers, UnlinkLock(p) PROVE CacheInv'
  BY <1>11, RestingIsACall, ZeroFits DEF UnlinkLock
<1>12. ASSUME NEW p \in CacheUsers, Purge(p) PROVE CacheInv'
  <2>1. user' \in [CacheUsers -> Calls]
    <3>1. CASE UNCHANGED user
      BY <3>1
    <3>2. ASSUME NEW q \in CacheUsers, user' = [user EXCEPT ![q].at = "unlock", ![q].payload = 0]
          PROVE  user' \in [CacheUsers -> Calls]
      <4>1. [user[q] EXCEPT !.at = "unlock", !.payload = 0] \in Calls
        BY CallIsOver
      <4>2. user' = [user EXCEPT ![q] = [user[q] EXCEPT !.at = "unlock", !.payload = 0]]
        BY <3>2
      <4> QED
        BY <1>0, <4>1, <4>2
    <3> QED
      BY <1>12, <3>1, <3>2 DEF Purge
  <2> QED
    BY <1>12, <2>1, AbsentIsAFile, ZeroFits DEF Purge
<1>13. ASSUME NEW p \in CacheUsers, Die(p) PROVE CacheInv'
  BY <1>13, RestingIsACall DEF Die
<1>14. CASE UNCHANGED cacheVars
  BY <1>14 DEF cacheVars, cacheDisk
<1> QED
  BY <1>1, <1>2, <1>3, <1>4, <1>5, <1>6, <1>7, <1>8, <1>9, <1>10, <1>11, <1>12,
     <1>13, <1>14 DEF CacheNext

\* A step of the disk is a step of the register, or none: a rename is the Put,
\* a removal the Remove, whatever became of the locks.
LEMMA CacheStepRefines ==
  CacheInv /\ [CacheNext]_cacheVars => [Promised!RegisterNext]_(Promised!registerVars)
<1> SUFFICES ASSUME CacheInv, [CacheNext]_cacheVars
             PROVE  [Promised!RegisterNext]_(Promised!registerVars)
  OBVIOUS
<1> DEFINE value == [payload |-> file.payload, fresh |-> file.fresh]
<1> USE DEF CacheInv, Promised!RegisterNext, Promised!registerVars, cacheDisk
<1>1. CASE Outlive
  <2>1. file'.payload = file.payload /\ file'.fresh = FALSE
    BY <1>1 DEF Outlive
  <2>2. UNCHANGED got
    BY <1>1 DEF Outlive
  <2>3. Promised!Lapse
    BY <2>1, <2>2 DEF Promised!Lapse
  <2> QED
    BY <2>3
<1>2. ASSUME NEW p \in CacheUsers, Get(p) PROVE Promised!Read(p)
  BY <1>2 DEF Get, Promised!Read
<1>3. ASSUME NEW p \in CacheUsers, RenameTemp(p)
      PROVE  \E v \in 1..MaxWrites : Promised!Put(v)
  <2>1. user[p].payload \in 1..MaxWrites
    BY <1>3, FileCacheAssumption DEF RenameTemp, Calls, CallRecords, CallFits
  <2>2. value' = [payload |-> user[p].payload, fresh |-> TRUE]
    BY <1>3 DEF RenameTemp
  <2>3. Promised!Put(user[p].payload)
    BY <1>3, <2>2 DEF RenameTemp, Promised!Put
  <2> QED
    BY <2>1, <2>3
<1>4. ASSUME NEW p \in CacheUsers, RemoveData(p) \/ Purge(p)
      PROVE  Promised!Remove \/ UNCHANGED Promised!registerVars
  <2>1. file' = Absent \/ UNCHANGED file
    BY <1>4 DEF RemoveData, Purge
  <2>2. UNCHANGED got
    BY <1>4 DEF RemoveData, Purge
  <2>3. ASSUME file' = Absent PROVE Promised!Remove
    BY <2>2, <2>3 DEF Promised!Remove, Promised!Nothing, Absent
  <2> QED
    BY <2>1, <2>2, <2>3
<1>5. ASSUME UNCHANGED <<file, got>> PROVE UNCHANGED Promised!registerVars
  BY <1>5
<1>6. ASSUME NEW p \in CacheUsers,
             \/ \E op \in {"set", "delete"} : BeginWrite(p, op)
             \/ OpenLock(p) \/ Lock(p) \/ LockGivesUp(p) \/ WriteTemp(p)
             \/ Release(p) \/ UnlinkLock(p) \/ Die(p)
      PROVE  UNCHANGED Promised!registerVars
  BY <1>5, <1>6 DEF BeginWrite, OpenLock, Lock, LockGivesUp, WriteTemp, Release, UnlinkLock, Die
<1>7. CASE UNCHANGED cacheVars
  BY <1>5, <1>7 DEF cacheVars
<1> QED
  BY <1>1, <1>2, <1>3, <1>4, <1>6, <1>7 DEF CacheNext

\* The cache is one register, for any number of processes, lock files and
\* writes: this is the property CacheIsARegister of the run `client`.
THEOREM CacheRefinesRegister == CacheSpec => CacheIsARegister
<1>1. CacheInit => Promised!RegisterInit
  BY DEF CacheInit, Absent, Promised!RegisterInit, Promised!Nothing
<1> QED
  BY <1>1, CacheInitFits, CacheStepFits, CacheStepRefines, PTL
     DEF CacheSpec, CacheIsARegister, Promised!RegisterSpec

-----------------------------------------------------------------------------
(***************************************************************************)
(* The flocks.  A call past WithLock holds the inode it opened, and no     *)
(* inode is held by anything else, so a wait for a lock always has a       *)
(* process at work behind it.                                              *)
(***************************************************************************)

AtWork == {"create", "rename", "remove", "unlock"}

Opened(p) == user[p].at \in AtWork \union {"wait"} => user[p].inode \in Inodes

\* An inode is locked by the one call at work under it.
LocksAreHeld ==
  \A p \in CacheUsers, i \in Inodes :
    lockedBy[i] = p <=> user[p].at \in AtWork /\ user[p].inode = i

LockInv ==
  /\ lockedBy \in [Inodes -> CacheUsers \union {Nobody}]
  /\ got \in [CacheUsers -> 0..MaxWrites]
  /\ \A p \in CacheUsers : Opened(p)
  /\ LocksAreHeld

LEMMA LockInitFits == CacheInit => LockInv
BY FileCacheAssumption DEF CacheInit, LockInv, Opened, LocksAreHeld, AtWork, Resting

\* One call moves on and no flock changes hands.
LEMMA LocksStay ==
  ASSUME CacheInv, LockInv, NEW p \in CacheUsers, NEW r \in Calls,
         user' = [user EXCEPT ![p] = r], UNCHANGED lockedBy,
         got' \in [CacheUsers -> 0..MaxWrites],
         r.at \in AtWork <=> user[p].at \in AtWork,
         r.at \in AtWork => r.inode = user[p].inode,
         r.at = "wait" => r.inode \in Inodes
  PROVE  LockInv'
<1>1. \A q \in CacheUsers : user'[q] = IF q = p THEN r ELSE user[q]
  BY DEF CacheInv
<1>2. \A q \in CacheUsers : Opened(q)'
  BY <1>1 DEF LockInv, Opened, AtWork
<1>3. LocksAreHeld'
  BY <1>1 DEF LockInv, LocksAreHeld
<1> QED
  BY <1>2, <1>3 DEF LockInv

LEMMA LockStepFits == CacheInv /\ LockInv /\ [CacheNext]_cacheVars => LockInv'
<1> SUFFICES ASSUME CacheInv, LockInv, [CacheNext]_cacheVars PROVE LockInv'
  OBVIOUS
<1>0. /\ \A p \in CacheUsers : user[p] \in Calls /\ user[p] \in CallRecords /\ p # Nobody
      /\ CacheInv' /\ user' \in [CacheUsers -> Calls]
  BY CacheStepFits, FileCacheAssumption DEF CacheInv, Calls
<1>1. ASSUME UNCHANGED <<user, lockedBy>>, got' \in [CacheUsers -> 0..MaxWrites]
      PROVE  LockInv'
  BY <1>1 DEF LockInv, Opened, LocksAreHeld
<1>2. ASSUME NEW p \in CacheUsers, NEW r \in Calls, user' = [user EXCEPT ![p] = r],
             UNCHANGED <<lockedBy, got>>,
             r.at \in AtWork <=> user[p].at \in AtWork,
             r.at \in AtWork => r.inode = user[p].inode,
             r.at = "wait" => r.inode \in Inodes
      PROVE  LockInv'
  BY <1>2, LocksStay DEF LockInv
<1>3. CASE Outlive
  BY <1>1, <1>3 DEF Outlive, LockInv
<1>4. ASSUME NEW p \in CacheUsers, Get(p) PROVE LockInv'
  <2>1. got' \in [CacheUsers -> 0..MaxWrites]
    BY <1>4, ZeroFits DEF Get, LockInv, CacheInv
  <2> QED
    BY <1>1, <1>4, <2>1 DEF Get, cacheDisk
<1>5. ASSUME NEW p \in CacheUsers, NEW op \in {"set", "delete"}, BeginWrite(p, op)
      PROVE  LockInv'
  <2>1. /\ user'[p] \in Calls /\ user'[p].at = "open" /\ user[p].at = "off"
        /\ user' = [user EXCEPT ![p] = user'[p]] /\ UNCHANGED <<lockedBy, got>>
    BY <1>0, <1>5 DEF BeginWrite, cacheDisk, Resting, CacheInv
  <2> QED
    BY <1>2, <2>1 DEF AtWork
<1>6. ASSUME NEW p \in CacheUsers, OpenLock(p) PROVE LockInv'
  <2>1. lockFile' \in Inodes
    BY <1>6, FileCacheAssumption DEF OpenLock, CacheInv, Inodes
  <2>2. /\ user'[p] = [user[p] EXCEPT !.at = "wait", !.inode = lockFile']
        /\ user' = [user EXCEPT ![p] = user'[p]] /\ UNCHANGED <<lockedBy, got>>
        /\ user[p].at = "open"
    BY <1>0, <1>6 DEF OpenLock, CacheInv
  <2>3. user'[p] \in Calls /\ user'[p].at = "wait" /\ user'[p].inode = lockFile'
    BY <1>0, <2>2 DEF CallRecords
  <2> QED
    BY <1>2, <2>1, <2>2, <2>3 DEF AtWork
<1>7. ASSUME NEW p \in CacheUsers, Lock(p) PROVE LockInv'
  <2>1. /\ user'[p].at \in {"create", "remove"} /\ user'[p].inode = user[p].inode
        /\ \A q \in CacheUsers : q # p => user'[q] = user[q]
    BY <1>0, <1>7 DEF Lock, CacheInv, CallRecords
  <2>2. user[p].inode \in Inodes /\ user[p].at \notin AtWork
    BY <1>7 DEF Lock, LockInv, Opened, AtWork
  <2>3. \A i \in Inodes : lockedBy'[i] = IF i = user[p].inode THEN p ELSE lockedBy[i]
    BY <1>7 DEF Lock, LockInv
  <2>4. LocksAreHeld'
    BY <1>0, <1>7, <2>1, <2>2, <2>3 DEF Lock, LockInv, LocksAreHeld, AtWork
  <2>5. \A q \in CacheUsers : Opened(q)'
    BY <2>1, <2>2 DEF LockInv, Opened
  <2> QED
    BY <1>7, <2>4, <2>5 DEF Lock, LockInv
<1>8. ASSUME NEW p \in CacheUsers, LockGivesUp(p) \/ UnlinkLock(p) PROVE LockInv'
  <2>1. /\ user' = [user EXCEPT ![p] = Resting] /\ UNCHANGED <<lockedBy, got>>
        /\ user[p].at \notin AtWork
    BY <1>8 DEF LockGivesUp, UnlinkLock, cacheDisk, AtWork
  <2> QED
    BY <1>2, <2>1, RestingIsACall DEF AtWork, Resting
<1>9. ASSUME NEW p \in CacheUsers, WriteTemp(p) \/ RenameTemp(p) \/ RemoveData(p)
      PROVE  LockInv'
  <2>1. /\ user[p].at \in AtWork /\ UNCHANGED <<lockedBy, got>>
        /\ user' = [user EXCEPT ![p] = user'[p]] /\ user'[p] \in Calls
    BY <1>0, <1>9 DEF WriteTemp, RenameTemp, RemoveData, cacheDisk, AtWork, CacheInv
  <2>2. user'[p].at \in AtWork /\ user'[p].inode = user[p].inode
    BY <1>0, <1>9 DEF WriteTemp, RenameTemp, RemoveData, AtWork, CacheInv, CallRecords
  <2> QED
    BY <1>2, <2>1, <2>2 DEF AtWork
<1>10. ASSUME NEW p \in CacheUsers, Release(p) PROVE LockInv'
  <2>1. /\ user'[p].at \in {"off", "unlink"}
        /\ \A q \in CacheUsers : q # p => user'[q] = user[q]
    BY <1>0, <1>10 DEF Release, CacheInv, Resting
  <2>2. user[p].at \in AtWork /\ user[p].inode \in Inodes
    BY <1>10 DEF Release, LockInv, Opened, AtWork
  <2>3. \A i \in Inodes : lockedBy'[i] = IF i = user[p].inode THEN Nobody ELSE lockedBy[i]
    BY <1>10 DEF Release, LockInv
  <2>4. LocksAreHeld'
    BY <1>0, <2>1, <2>2, <2>3 DEF LockInv, LocksAreHeld, AtWork
  <2>5. \A q \in CacheUsers : Opened(q)'
    BY <2>1 DEF LockInv, Opened, AtWork
  <2> QED
    BY <1>10, <2>4, <2>5 DEF Release, LockInv
<1>11. ASSUME NEW p \in CacheUsers, Purge(p) PROVE LockInv'
  <2>1. UNCHANGED <<lockedBy, got>>
    BY <1>11 DEF Purge
  <2>2. ASSUME NEW q \in CacheUsers, user[q].at = "rename",
               user' = [user EXCEPT ![q].at = "unlock", ![q].payload = 0]
        PROVE  LockInv'
    <3>1. /\ user'[q] = [user[q] EXCEPT !.at = "unlock", !.payload = 0]
          /\ user' = [user EXCEPT ![q] = user'[q]] /\ user'[q] \in Calls
      BY <1>0, <2>2 DEF CacheInv
    <3>2. user'[q].at = "unlock" /\ user'[q].inode = user[q].inode
      BY <1>0, <3>1 DEF CallRecords
    <3> QED
      BY <1>2, <2>1, <2>2, <3>1, <3>2 DEF AtWork
  <2> QED
    BY <1>1, <1>11, <2>1, <2>2 DEF Purge, LockInv
<1>12. ASSUME NEW p \in CacheUsers, Die(p) PROVE LockInv'
  <2>1. /\ user'[p].at = "off"
        /\ \A q \in CacheUsers : q # p => user'[q] = user[q]
    BY <1>0, <1>12 DEF Die, CacheInv, Resting
  <2>2. \A i \in Inodes : lockedBy'[i] = IF lockedBy[i] = p THEN Nobody ELSE lockedBy[i]
    BY <1>12 DEF Die
  <2>3. LocksAreHeld'
    BY <1>0, <2>1, <2>2 DEF LockInv, LocksAreHeld, AtWork
  <2>4. \A q \in CacheUsers : Opened(q)'
    BY <2>1 DEF LockInv, Opened, AtWork
  <2> QED
    BY <1>12, <2>3, <2>4 DEF Die, LockInv
<1>13. CASE UNCHANGED cacheVars
  BY <1>1, <1>13 DEF cacheVars, cacheDisk, LockInv
<1> QED
  BY <1>3, <1>4, <1>5, <1>6, <1>7, <1>8, <1>9, <1>10, <1>11, <1>12, <1>13 DEF CacheNext

LEMMA CacheInvariant == CacheSpec => [](CacheInv /\ LockInv)
BY CacheInitFits, LockInitFits, CacheStepFits, LockStepFits, PTL DEF CacheSpec

\* The variables of the cache keep their types, for any numbers of processes,
\* lock files and writes.
THEOREM CacheTyped == CacheSpec => []CacheTypeOK
<1>1. CacheInv /\ LockInv => CacheTypeOK
  BY DEF CacheInv, LockInv, CacheTypeOK, Calls, CallRecords
<1> QED
  BY <1>1, CacheInvariant, PTL

\* WithLock (internal/core/filelock/filelock_unix.go): every flock is held by the one call
\* at work under it, wherever a process died and whatever was unlinked, so that
\* whoever waits for one waits for a process that can go on.
THEOREM LocksHaveAHolder == CacheSpec => []LocksAreHeld
<1>1. LockInv => LocksAreHeld
  BY DEF LockInv
<1> QED
  BY <1>1, CacheInvariant, PTL

-----------------------------------------------------------------------------
(***************************************************************************)
(* The key store.  That every entry can be decrypted is not inductive: it  *)
(* rests on token.lock, under which a client that creates a key is alone,  *)
(* and on config.json, which names an account only once there is a key.    *)
(***************************************************************************)

ClientRecords ==
  [call : {"none", "set", "get", "remove"},
   at : {"off", "key", "create", "work", "migrate", "list", "cascade", "name"},
   key : Keys, account : Accounts \union {NoAccount}]

\* What a client's progress says about the master key, while none was removed.
ClientFits(c) ==
  /\ client[c].call = "set" => saveLock = c
  /\ client[c].call = "get" => masterKey.key # 0
  /\ client[c].at = "key" => client[c].call \in {"set", "get"}
  /\ client[c].at = "create" => client[c].call = "set" /\ masterKey.key = 0
  /\ client[c].at = "migrate" => client[c].call = "get"
  /\ client[c].at \in {"list", "cascade"} => client[c].call = "remove"
  /\ client[c].call \in {"set", "get"} /\ client[c].at \in {"work", "migrate", "name"}
       => client[c].key = masterKey.key /\ masterKey.key # 0

KeysAgree ==
  /\ \A a \in Accounts : sealed[a].key \in {0, masterKey.key}
  /\ current # NoAccount => masterKey.key # 0
  /\ \A c \in Clients : ClientFits(c)

KeyStoreInv == KeyStoreTypeOK /\ (forsaken = {} => KeysAgree)

LEMMA KeyZero == 0 \in Keys /\ 1 \in Keys /\ \A k \in Keys : k \in Nat
BY KeyStoreAssumption DEF Keys

LEMMA NotRunningIsAClient == NotRunning \in ClientRecords /\ NoEntry \in [key : Keys, old : BOOLEAN]
BY KeyZero DEF NotRunning, NoEntry, ClientRecords

LEMMA KeyStoreInitFits == KeyStoreInit => KeyStoreInv
<1> SUFFICES ASSUME KeyStoreInit PROVE KeyStoreInv
  OBVIOUS
<1>1. client = [c \in Clients |-> NotRunning] /\ client \in [Clients -> ClientRecords]
  BY NotRunningIsAClient DEF KeyStoreInit
<1>2. PICK old \in BOOLEAN :
        /\ old => generated = 1
        /\ sealed = [a \in Accounts |-> IF a = current THEN [key |-> 1, old |-> old] ELSE NoEntry]
        /\ masterKey = [key |-> generated,
                        dpapi |-> IF old /\ platform = "registry" THEN "plain" ELSE "entropy"]
  BY DEF KeyStoreInit
<1>3. generated \in {0, 1} /\ (current # NoAccount => generated = 1)
        /\ current \in Accounts \union {NoAccount}
        /\ forsaken = {} /\ saveLock = NoClient /\ platform \in {"file", "registry"}
  BY DEF KeyStoreInit
<1>4. sealed \in [Accounts -> [key : Keys, old : BOOLEAN]]
  BY <1>2, KeyZero, NotRunningIsAClient
<1>5. masterKey \in [key : Keys, dpapi : {"plain", "entropy", "invalid"}] /\ masterKey.key = generated
  BY <1>2, <1>3, KeyZero
<1>6. KeyStoreTypeOK
  BY <1>1, <1>3, <1>4, <1>5, KeyZero DEF KeyStoreTypeOK, ClientRecords
<1>7. \A a \in Accounts : sealed[a].key \in {0, masterKey.key}
  BY <1>2, <1>3, <1>5, KeyStoreAssumption DEF NoEntry
<1>8. \A c \in Clients : ClientFits(c)
  BY <1>1 DEF ClientFits, NotRunning
<1> QED
  BY <1>3, <1>5, <1>6, <1>7, <1>8 DEF KeyStoreInv, KeysAgree

\* A client goes on at another place, with what it has.
LEMMA ClientGoes ==
  ASSUME KeyStoreTypeOK, NEW c \in Clients,
         NEW where \in {"off", "key", "create", "work", "migrate", "list", "cascade", "name"},
         Go(c, where)
  PROVE  /\ client' \in [Clients -> ClientRecords]
         /\ client'[c].at = where /\ client'[c].call = client[c].call
         /\ client'[c].key = client[c].key
         /\ \A d \in Clients \ {c} : client'[d] = client[d]
<1>1. [client[c] EXCEPT !.at = where] \in ClientRecords
  BY DEF KeyStoreTypeOK, ClientRecords
<1> QED
  BY <1>1 DEF Go, KeyStoreTypeOK, ClientRecords

\* A client that ends lets go of the lock, and only of its own.
LEMMA ClientEnds ==
  ASSUME KeyStoreTypeOK, NEW c \in Clients, Ends(c)
  PROVE  /\ client' \in [Clients -> ClientRecords]
         /\ client'[c] = NotRunning
         /\ \A d \in Clients \ {c} : client'[d] = client[d]
         /\ saveLock' \in Clients \union {NoClient}
         /\ \A d \in Clients \ {c} : saveLock = d => saveLock' = d
BY NotRunningIsAClient DEF Ends, KeyStoreTypeOK, ClientRecords

LEMMA SealedAnew ==
  ASSUME KeyStoreTypeOK, NEW a, NEW e \in [key : Keys, old : BOOLEAN],
         sealed' = [sealed EXCEPT ![a] = e]
  PROVE  /\ sealed' \in [Accounts -> [key : Keys, old : BOOLEAN]]
         /\ \A b \in Accounts : sealed'[b] = IF b = a THEN e ELSE sealed[b]
BY DEF KeyStoreTypeOK

\* Every step keeps the types, and the agreement until a key is removed.
LEMMA KeyStoreStepFits == KeyStoreInv /\ [KeyStoreNext]_keyVars => KeyStoreInv'
<1> SUFFICES ASSUME KeyStoreInv, [KeyStoreNext]_keyVars PROVE KeyStoreInv'
  OBVIOUS
<1> USE KeyZero, NotRunningIsAClient
    DEF KeyStoreInv, KeysAgree, ClientFits, KeyStoreTypeOK, ClientRecords
<1>1. CASE Invalidate
  BY <1>1 DEF Invalidate
<1>2. ASSUME NEW c \in Clients, NEW a \in Accounts, Saves(c, a) \/ Loads(c, a) \/ Clears(c, a)
      PROVE  KeyStoreInv'
  <2> DEFINE r(call, at) == [NotRunning EXCEPT !.call = call, !.at = at, !.account = a]
  <2>1. \A call \in {"set", "get", "remove"} : \A at \in {"key", "work"} :
          /\ r(call, at) \in ClientRecords
          /\ r(call, at).call = call /\ r(call, at).at = at
    BY DEF NotRunning
  <2>2. CASE Saves(c, a)
    BY <2>1, <2>2, KeyStoreAssumption DEF Saves
  <2>3. CASE Loads(c, a)
    BY <2>1, <2>3, KeyStoreAssumption DEF Loads
  <2>4. CASE Clears(c, a)
    BY <2>1, <2>4 DEF Clears
  <2> QED
    BY <1>2, <2>2, <2>3, <2>4
<1>3. ASSUME NEW c \in Clients, LoadKey(c) PROVE KeyStoreInv'
  <2>1. CASE masterKey.key # 0 /\ masterKey.dpapi # "invalid"
    <3> DEFINE r == [client[c] EXCEPT !.at = "work", !.key = masterKey.key]
    <3>1. client' = [client EXCEPT ![c] = r]
      BY <1>3, <2>1 DEF LoadKey
    <3>2. r \in ClientRecords /\ r.at = "work" /\ r.key = masterKey.key
            /\ r.call = client[c].call
      OBVIOUS
    <3>3. masterKey'.key = masterKey.key
            /\ masterKey' \in [key : Keys, dpapi : {"plain", "entropy", "invalid"}]
      BY <1>3, <2>1 DEF LoadKey
    <3>4. UNCHANGED <<platform, generated, sealed, current, saveLock, forsaken>>
      BY <1>3, <2>1 DEF LoadKey
    <3>5. /\ client' \in [Clients -> ClientRecords] /\ client'[c] = r
          /\ \A d \in Clients \ {c} : client'[d] = client[d]
      BY <3>1, <3>2
    <3> QED
      BY <1>3, <2>1, <3>2, <3>3, <3>4, <3>5 DEF LoadKey
  <2>2. CASE masterKey.key # 0 /\ masterKey.dpapi = "invalid"
    <3>1. Go(c, "create") /\ forsaken' # {}
            /\ forsaken' = forsaken \union ({masterKey.key} \ {0})
      BY <1>3, <2>2 DEF LoadKey, Forsake
    <3> QED
      BY <1>3, <2>2, <3>1, ClientGoes DEF LoadKey
  <2>3. CASE masterKey.key = 0
    BY <1>3, <2>3, ClientGoes DEF LoadKey
  <2> QED
    BY <1>3, <2>1, <2>2, <2>3 DEF LoadKey
<1>4. ASSUME NEW c \in Clients, CreateKey(c) PROVE KeyStoreInv'
  <2> DEFINE r == [client[c] EXCEPT !.at = "work", !.key = generated']
  <2>1. generated' \in Keys /\ generated' # 0
    BY <1>4, KeyStoreAssumption DEF CreateKey, Keys
  <2>2. r \in ClientRecords /\ r.at = "work" /\ r.key = generated' /\ r.call = client[c].call
    BY <2>1
  <2>3. client' = [client EXCEPT ![c] = r]
    BY <1>4 DEF CreateKey
  <2>4. /\ client' \in [Clients -> ClientRecords] /\ client'[c] = r
        /\ \A d \in Clients \ {c} : client'[d] = client[d]
    BY <2>2, <2>3
  <2> QED
    BY <1>4, <2>1, <2>2, <2>4 DEF CreateKey
<1>5. ASSUME NEW c \in Clients, Set(c) PROVE KeyStoreInv'
  <2> DEFINE e == [key |-> client[c].key, old |-> FALSE]
  <2>1. e \in [key : Keys, old : BOOLEAN]
    OBVIOUS
  <2>2. /\ sealed' \in [Accounts -> [key : Keys, old : BOOLEAN]]
        /\ \A b \in Accounts : sealed'[b] = IF b = client[c].account THEN e ELSE sealed[b]
    BY <1>5, <2>1, SealedAnew DEF Set
  <2>3. /\ client' \in [Clients -> ClientRecords]
        /\ client'[c].at = "name" /\ client'[c].call = client[c].call
        /\ client'[c].key = client[c].key
        /\ \A d \in Clients \ {c} : client'[d] = client[d]
    BY <1>5, ClientGoes DEF Set
  <2> QED
    BY <1>5, <2>2, <2>3 DEF Set
<1>6. ASSUME NEW c \in Clients, WriteMeta(c) PROVE KeyStoreInv'
  BY <1>6, ClientEnds, KeyStoreAssumption DEF WriteMeta, NotRunning
<1>7. ASSUME NEW c \in Clients, Decrypt(c) PROVE KeyStoreInv'
  <2>1. CASE Ends(c)
    BY <1>7, <2>1, ClientEnds DEF Decrypt, NotRunning
  <2>2. CASE Go(c, "migrate") /\ UNCHANGED saveLock
    BY <1>7, <2>2, ClientGoes DEF Decrypt
  <2> QED
    BY <1>7, <2>1, <2>2 DEF Decrypt
<1>8. ASSUME NEW c \in Clients, Migrate(c) PROVE KeyStoreInv'
  <2> DEFINE e == [key |-> client[c].key, old |-> FALSE]
  <2>1. e \in [key : Keys, old : BOOLEAN]
    OBVIOUS
  <2>2. /\ sealed' \in [Accounts -> [key : Keys, old : BOOLEAN]]
        /\ \A b \in Accounts : sealed'[b] \in {e, sealed[b]}
    <3>1. CASE sealed' = [sealed EXCEPT ![client[c].account] = e]
      BY <2>1, <3>1, SealedAnew
    <3>2. CASE UNCHANGED sealed
      BY <3>2
    <3> QED
      BY <1>8, <3>1, <3>2 DEF Migrate
  <2>3. client[c].at = "migrate" /\ Ends(c)
    BY <1>8 DEF Migrate
  <2> QED
    <3>1. KeyStoreTypeOK'
      BY <1>8, <2>2, <2>3, ClientEnds DEF Migrate
    <3>2. ASSUME forsaken' = {} PROVE KeysAgree'
      BY SMTT(30), <1>8, <2>2, <2>3, <3>2, ClientEnds DEF Migrate, NotRunning
    <3> QED
      BY <3>1, <3>2
<1>9. ASSUME NEW c \in Clients, RemoveEntry(c) PROVE KeyStoreInv'
  <2>1. /\ sealed' \in [Accounts -> [key : Keys, old : BOOLEAN]]
        /\ \A b \in Accounts : sealed'[b] \in {NoEntry, sealed[b]}
    BY <1>9, SealedAnew DEF RemoveEntry
  <2>2. \E where \in {"list", "name"} : Go(c, where)
    BY <1>9 DEF RemoveEntry
  <2>3. /\ client' \in [Clients -> ClientRecords]
        /\ client'[c].at \in {"list", "name"} /\ client'[c].call = "remove"
        /\ \A d \in Clients \ {c} : client'[d] = client[d]
    BY <1>9, <2>2, ClientGoes DEF RemoveEntry
  <2> QED
    <3>1. KeyStoreTypeOK'
      BY <1>9, <2>1, <2>3 DEF RemoveEntry
    <3>2. UNCHANGED <<masterKey, current, saveLock, forsaken>>
      BY <1>9 DEF RemoveEntry
    <3>3. ASSUME forsaken' = {} PROVE KeysAgree'
      BY <2>1, <2>3, <3>2, <3>3 DEF NoEntry
    <3> QED
      BY <3>1, <3>3
<1>10. ASSUME NEW c \in Clients, ListValues(c) PROVE KeyStoreInv'
  BY <1>10, ClientGoes DEF ListValues
<1>11. ASSUME NEW c \in Clients, Cascade(c) PROVE KeyStoreInv'
  BY <1>11, ClientGoes DEF Cascade, Forsake
<1>12. ASSUME NEW c \in Clients, Killed(c) PROVE KeyStoreInv'
  BY <1>12, ClientEnds DEF Killed, NotRunning
<1>13. CASE UNCHANGED keyVars
  BY <1>13 DEF keyVars
<1> QED
  BY <1>1, <1>2, <1>3, <1>4, <1>5, <1>6, <1>7, <1>8, <1>9, <1>10, <1>11, <1>12, <1>13
     DEF KeyStoreNext

\* An entry can be decrypted by whoever comes next, for any number of clients,
\* accounts and keys: this is the property EntriesReadable of the run `client`.
THEOREM StoredEntriesReadable == KeyStoreSpec => []EntriesReadable
<1>1. KeyStoreInv => EntriesReadable
  BY DEF KeyStoreInv, KeysAgree, EntriesReadable
<1> QED
  BY <1>1, KeyStoreInitFits, KeyStoreStepFits, PTL DEF KeyStoreSpec

\* The variables of the key store keep their types.
THEOREM KeyStoreTyped == KeyStoreSpec => []KeyStoreTypeOK
<1>1. KeyStoreInv => KeyStoreTypeOK
  BY DEF KeyStoreInv
<1> QED
  BY <1>1, KeyStoreInitFits, KeyStoreStepFits, PTL DEF KeyStoreSpec

-----------------------------------------------------------------------------
(***************************************************************************)
(* The credentials.  A process asks for a token only under token.lock and  *)
(* after a look at the store; only the holder of the lock writes a token   *)
(* there, time makes tokens older, and a logout, which takes no lock, only *)
(* removes: so what it saw stays true until it has its answer.             *)
(***************************************************************************)

ProcRecords ==
  [role : Roles, at : Places, mem : 0..MaxTokens,
   owner : Users \union {NoUser}, target : Users \union {NoUser}]

UnderLock == {"locked", "ask", "saveEntry", "saveMeta", "signedIn", "poll"}
WithToken == {"refresh", "locked", "ask", "saveEntry", "saveMeta"}

\* What a process at r has: the lock (mine), a token, a reason to ask (stale).
ProcFits(r, mine, stale) ==
  /\ r.at \in UnderLock => mine
  /\ r.at \in WithToken => r.mem # 0
  /\ r.at = "want" /\ r.role # "login" => r.mem # 0
  /\ r.at = "ask" => stale
  /\ r.at = "check" => r.role # "login"

StoreTypes ==
  /\ active \in Users \union {NoUser}
  /\ entry \in [Users -> 0..MaxTokens]
  /\ issued \in 0..MaxTokens
  /\ holder \in [Tokens -> Users \union {NoUser}]
  /\ age \in [Tokens -> Ages]
  /\ tokenLock \in Procs \union {NoProc}
  /\ loggedOut \subseteq Users \union {NoUser}

CredentialsInv ==
  /\ StoreTypes
  /\ proc \in [Procs -> ProcRecords]
  /\ \A p \in Procs : ProcFits(proc[p], tokenLock = p, ~Fresh(Stored))

LEMMA NoToken == 0 \in 0..MaxTokens /\ \A t \in Tokens : t \in 0..MaxTokens /\ t # 0
BY CredentialsAssumption DEF Tokens

LEMMA TokenInMemory == \A t \in 0..MaxTokens : t # 0 => t \in Tokens
BY CredentialsAssumption DEF Tokens

LEMMA OffIsARecord ==
  Off \in ProcRecords /\ Off.at = "off" /\ Off.role = "command"
BY NoToken DEF Off, ProcRecords, Roles, Places

LEMMA StoredIsAToken == StoreTypes => Stored \in 0..MaxTokens
BY NoToken DEF StoreTypes, Stored

LEMMA CredentialsInitFits == CredentialsInit => CredentialsInv
<1> SUFFICES ASSUME CredentialsInit PROVE CredentialsInv
  OBVIOUS
<1>1. issued \in 0..MaxTokens
  BY CredentialsAssumption DEF CredentialsInit
<1>2. entry \in [Users -> 0..MaxTokens]
  BY CredentialsAssumption DEF CredentialsInit
<1>3. holder \in [Tokens -> Users \union {NoUser}]
  BY DEF CredentialsInit
<1>4. proc = [p \in Procs |-> Off]
  BY DEF CredentialsInit
<1> QED
  BY <1>1, <1>2, <1>3, <1>4, OffIsARecord
     DEF CredentialsInit, CredentialsInv, StoreTypes, ProcFits, UnderLock, WithToken

\* A step of p leaves the others where they are.  What they need is theirs
\* unless p writes a fresh token without the lock or takes the lock away.
LEMMA ProcStep ==
  ASSUME CredentialsInv, NEW p \in Procs, NEW r \in ProcRecords,
         proc' = [proc EXCEPT ![p] = r],
         StoreTypes', ProcFits(r, tokenLock' = p, ~Fresh(Stored)'),
         \A q \in Procs \ {p} : tokenLock = q => tokenLock' = q,
         Fresh(Stored)' => Fresh(Stored) \/ tokenLock = p
  PROVE  CredentialsInv'
<1>1. proc' \in [Procs -> ProcRecords] /\ proc'[p] = r
        /\ \A q \in Procs \ {p} : proc'[q] = proc[q]
  BY DEF CredentialsInv
<1>2. ASSUME NEW q \in Procs \ {p}
      PROVE  ProcFits(proc'[q], tokenLock' = q, ~Fresh(Stored)')
  <2>1. ProcFits(proc[q], tokenLock = q, ~Fresh(Stored))
    BY DEF CredentialsInv
  <2>2. proc[q].at \in UnderLock => tokenLock = q /\ tokenLock' = q
    BY <2>1 DEF ProcFits
  <2>3. proc[q].at = "ask" => ~Fresh(Stored)'
    BY <2>1, <2>2 DEF ProcFits, UnderLock
  <2> QED
    BY <1>1, <2>1, <2>2, <2>3 DEF ProcFits
<1>3. \A q \in Procs : ProcFits(proc'[q], tokenLock' = q, ~Fresh(Stored)')
  BY <1>1, <1>2
<1> QED
  BY <1>1, <1>3 DEF CredentialsInv

\* A step that touches neither the store nor the server, and the lock only if
\* it is free or p's.
LEMMA LocalStep ==
  ASSUME CredentialsInv, NEW p \in Procs, NEW r \in ProcRecords,
         proc' = [proc EXCEPT ![p] = r],
         UNCHANGED <<storeVars, serverVars, loggedOut>>,
         \/ UNCHANGED tokenLock
         \/ tokenLock = NoProc /\ tokenLock' = p
         \/ tokenLock = p /\ tokenLock' = NoProc,
         ProcFits(r, tokenLock' = p, ~Fresh(Stored))
  PROVE  CredentialsInv'
<1>1. StoreTypes' /\ (Fresh(Stored)' <=> Fresh(Stored))
  BY DEF CredentialsInv, StoreTypes, storeVars, serverVars, Fresh, Stored
<1>2. \A q \in Procs \ {p} : tokenLock = q => tokenLock' = q
  BY CredentialsAssumption
<1>3. ProcFits(r, tokenLock' = p, ~Fresh(Stored)')
  BY <1>1 DEF ProcFits
<1> QED
  BY <1>1, <1>2, <1>3, ProcStep

LEMMA GivingUpFits ==
  ASSUME CredentialsInv, NEW p \in Procs, GiveUp(p),
         UNCHANGED <<storeVars, serverVars, loggedOut>>
  PROVE  CredentialsInv'
<1>1. proc' = [proc EXCEPT ![p] = Off]
  BY DEF GiveUp
<1>2. UNCHANGED tokenLock \/ (tokenLock = p /\ tokenLock' = NoProc)
  BY DEF GiveUp, Unlock, Holding
<1>3. ProcFits(Off, tokenLock' = p, ~Fresh(Stored))
  BY OffIsARecord DEF ProcFits, UnderLock, WithToken
<1> QED
  BY <1>1, <1>2, <1>3, OffIsARecord, LocalStep

\* Process p goes on, at a place for which it has what is needed.
LEMMA GoingFits ==
  ASSUME CredentialsInv, NEW p \in Procs, NEW where \in Places \ {"check"}, Goto(p, where),
         UNCHANGED <<storeVars, serverVars, loggedOut>>,
         \/ UNCHANGED tokenLock
         \/ tokenLock = NoProc /\ tokenLock' = p,
         where \in UnderLock => tokenLock' = p,
         where \in WithToken \union {"want"} => proc[p].mem # 0,
         where = "ask" => ~Fresh(Stored)
  PROVE  CredentialsInv'
<1> DEFINE r == [proc[p] EXCEPT !.at = where]
<1>1. proc[p] \in ProcRecords
  BY DEF CredentialsInv
<1>2. r \in ProcRecords /\ r.at = where /\ r.mem = proc[p].mem /\ r.role = proc[p].role
  BY <1>1 DEF ProcRecords
<1>3. proc' = [proc EXCEPT ![p] = r]
  BY DEF Goto
<1>4. ProcFits(r, tokenLock' = p, ~Fresh(Stored))
  BY <1>2 DEF ProcFits
<1> HIDE DEF r
<1> QED
  BY <1>2, <1>3, <1>4, LocalStep

LEMMA BeginningToClearFits ==
  ASSUME CredentialsInv, NEW p \in Procs, BeginClear(p),
         UNCHANGED <<storeVars, serverVars, loggedOut, tokenLock>>
  PROVE  CredentialsInv'
<1> DEFINE r == [proc[p] EXCEPT !.at = "clear", !.mem = 0]
<1>1. proc[p] \in ProcRecords
  BY DEF CredentialsInv
<1>2. r \in ProcRecords /\ r.at = "clear"
  BY <1>1, NoToken DEF ProcRecords, Places
<1>3. proc' = [proc EXCEPT ![p] = r]
  BY DEF BeginClear
<1>4. ProcFits(r, tokenLock' = p, ~Fresh(Stored))
  BY <1>2 DEF ProcFits, UnderLock, WithToken
<1> HIDE DEF r
<1> QED
  BY <1>2, <1>3, <1>4, LocalStep

\* A token from the store is taken over.
LEMMA AdoptingFits ==
  ASSUME CredentialsInv, NEW p \in Procs, NEW where \in {"reread", "request", "serve"},
         proc' = [proc EXCEPT ![p].mem = Stored, ![p].at = where],
         UNCHANGED <<storeVars, serverVars, loggedOut>>,
         UNCHANGED tokenLock \/ (tokenLock = p /\ tokenLock' = NoProc)
  PROVE  CredentialsInv'
<1> DEFINE r == [proc[p] EXCEPT !.mem = Stored, !.at = where]
<1>1. proc[p] \in ProcRecords /\ Stored \in 0..MaxTokens
  BY StoredIsAToken DEF CredentialsInv
<1>2. r \in ProcRecords /\ r.at = where
  BY <1>1 DEF ProcRecords, Places
<1>3. proc' = [proc EXCEPT ![p] = r]
  OBVIOUS
<1>4. ProcFits(r, tokenLock' = p, ~Fresh(Stored))
  BY <1>2 DEF ProcFits, UnderLock, WithToken
<1> HIDE DEF r
<1> QED
  BY <1>2, <1>3, <1>4, LocalStep

\* The steps of one process up to the answer of the server, and its end.
LEMMA OwnStepFits ==
  ASSUME CredentialsInv, NEW p \in Procs,
         \/ PreCheck(p) \/ ProvideToken(p) \/ CheckExpiry(p) \/ Acquire(p) \/ LockTimeout(p)
         \/ CompareStored(p) \/ RefreshFails(p) \/ AlreadySignedIn(p) \/ PollTimeout(p)
         \/ RequestAnswered(p) \/ TokenExpired(p) \/ RereadStore(p) \/ GatewayRefuses(p)
         \/ Crash(p) \/ \E r \in Roles : Start(p, r)
  PROVE  CredentialsInv'
<1>0. ProcFits(proc[p], tokenLock = p, ~Fresh(Stored)) /\ proc[p] \in ProcRecords
  BY DEF CredentialsInv
<1> USE DEF At
<1>1. CASE PreCheck(p)
  <2>1. CASE GiveUp(p)
    BY <1>1, <2>1, GivingUpFits DEF PreCheck
  <2>2. CASE BeginClear(p) /\ UNCHANGED tokenLock
    BY <1>1, <2>2, BeginningToClearFits DEF PreCheck
  <2>3. CASE /\ proc[p].role = "command" /\ proc[p].mem # 0
             /\ Goto(p, "refresh") /\ UNCHANGED tokenLock
    BY <1>1, <2>3, GoingFits DEF PreCheck, Places, UnderLock
  <2>4. CASE proc[p].role = "bus" /\ Goto(p, "serve") /\ UNCHANGED tokenLock
    BY <1>1, <2>4, GoingFits DEF PreCheck, Places, UnderLock, WithToken
  <2>5. proc[p].role \in {"command", "bus", "logout"}
    BY <1>0, <1>1 DEF PreCheck, ProcFits, ProcRecords, Roles
  <2> QED
    BY <1>0, <1>1, <2>1, <2>2, <2>3, <2>4, <2>5 DEF PreCheck
<1>2. CASE ProvideToken(p)
  BY <1>2, GoingFits DEF ProvideToken, Places, UnderLock
<1>3. CASE CheckExpiry(p)
  <2>1. proc[p].mem # 0
    BY <1>0, <1>3 DEF CheckExpiry, ProcFits, WithToken
  <2>2. CASE BeginClear(p)
    BY <1>3, <2>2, BeginningToClearFits DEF CheckExpiry
  <2>3. CASE \E where \in {"reread", "request", "want"} : Goto(p, where)
    BY <1>3, <2>1, <2>3, GoingFits DEF CheckExpiry, Places, UnderLock, WithToken
  <2>4. age[proc[p].mem] \in Ages
    BY <1>0, <2>1, TokenInMemory DEF ProcRecords, CredentialsInv, StoreTypes
  <2> QED
    BY <1>3, <2>2, <2>3, <2>4 DEF CheckExpiry, Refreshed, Ages
<1>4. CASE Acquire(p)
  <2>1. CASE proc[p].role = "login"
    BY <1>4, <2>1, GoingFits DEF Acquire, Places, WithToken
  <2>2. CASE proc[p].role # "login"
    <3>1. proc[p].mem # 0
      BY <1>0, <1>4, <2>2 DEF Acquire, ProcFits
    <3> QED
      BY <1>4, <2>2, <3>1, GoingFits DEF Acquire, Places
  <2> QED
    BY <2>1, <2>2
<1>5. CASE LockTimeout(p) \/ PollTimeout(p) \/ RequestAnswered(p) \/ Crash(p)
  BY <1>5, GivingUpFits DEF LockTimeout, PollTimeout, RequestAnswered, Crash
<1>6. CASE CompareStored(p)
  <2>1. tokenLock = p /\ proc[p].mem # 0
    BY <1>0, <1>6 DEF CompareStored, ProcFits, UnderLock, WithToken
  <2>2. CASE Fresh(Stored)
    <3>1. Refreshed(p) \in {"reread", "request", "serve"}
      BY DEF Refreshed
    <3>2. tokenLock' = NoProc
      BY <1>6, <2>1, <2>2 DEF CompareStored, Unlock, Holding
    <3> QED
      BY <1>6, <2>1, <2>2, <3>1, <3>2, AdoptingFits DEF CompareStored
  <2>3. CASE ~Fresh(Stored)
    BY <1>6, <2>1, <2>3, GoingFits DEF CompareStored, Places
  <2> QED
    BY <2>2, <2>3
<1>7. CASE RefreshFails(p) \/ TokenExpired(p) \/ GatewayRefuses(p)
  BY <1>7, BeginningToClearFits DEF RefreshFails, TokenExpired, GatewayRefuses
<1>8. CASE AlreadySignedIn(p)
  <2>1. tokenLock = p
    BY <1>0, <1>8 DEF AlreadySignedIn, ProcFits, UnderLock
  <2>2. CASE GiveUp(p)
    BY <1>8, <2>2, GivingUpFits DEF AlreadySignedIn
  <2>3. CASE Goto(p, "poll") /\ UNCHANGED tokenLock
    BY <1>8, <2>1, <2>3, GoingFits DEF AlreadySignedIn, Places, WithToken
  <2> QED
    BY <1>8, <2>2, <2>3 DEF AlreadySignedIn
<1>9. CASE RereadStore(p)
  <2>1. CASE Stored = 0
    BY <1>9, <2>1, GivingUpFits DEF RereadStore
  <2>2. CASE Stored # 0
    BY <1>9, <2>2, AdoptingFits DEF RereadStore
  <2> QED
    BY <2>1, <2>2
<1>10. ASSUME NEW role \in Roles, Start(p, role) PROVE CredentialsInv'
  <2> DEFINE r == [Off EXCEPT !.role = role, !.mem = Stored,
                     !.owner = IF role \in {"bus", "logout"} THEN active ELSE NoUser,
                     !.at = IF role = "login" THEN "want" ELSE "check"]
  <2>1. Stored \in 0..MaxTokens /\ active \in Users \union {NoUser}
    BY StoredIsAToken DEF CredentialsInv, StoreTypes
  <2>2. r \in ProcRecords /\ r.role = role /\ r.at = IF role = "login" THEN "want" ELSE "check"
    BY <2>1 DEF Off, ProcRecords, Places
  <2>3. proc' = [proc EXCEPT ![p] = r]
    BY <1>10 DEF Start
  <2>4. ProcFits(r, tokenLock' = p, ~Fresh(Stored))
    BY <2>2 DEF ProcFits, UnderLock, WithToken
  <2> HIDE DEF r
  <2> QED
    BY <1>10, <2>2, <2>3, <2>4, LocalStep DEF Start
<1> QED
  BY <1>1, <1>2, <1>3, <1>4, <1>5, <1>6, <1>7, <1>8, <1>9, <1>10

\* A new token is the holder of the lock's, and not in the store yet.
LEMMA IssuingFits ==
  ASSUME CredentialsInv, NEW p \in Procs, NEW u \in Users \union {NoUser}, Issue(p, u),
         tokenLock = p, UNCHANGED <<storeVars, tokenLock, loggedOut>>
  PROVE  CredentialsInv'
<1> DEFINE r == [proc[p] EXCEPT !.mem = issued', !.at = "saveEntry"]
<1>1. proc[p] \in ProcRecords
  BY DEF CredentialsInv
<1>2. issued' \in Tokens /\ issued' \in 0..MaxTokens /\ issued' # 0
  BY CredentialsAssumption DEF Issue, CredentialsInv, StoreTypes, Tokens
<1>3. r \in ProcRecords /\ r.at = "saveEntry" /\ r.mem # 0
  BY <1>1, <1>2 DEF ProcRecords, Places
<1>4. proc' = [proc EXCEPT ![p] = r]
  BY DEF Issue
<1>5. StoreTypes'
  <2>1. holder' \in [Tokens -> Users \union {NoUser}]
    BY <1>2 DEF Issue, CredentialsInv, StoreTypes
  <2> QED
    BY <1>2, <2>1 DEF Issue, CredentialsInv, StoreTypes, storeVars
<1>6. ProcFits(r, tokenLock' = p, ~Fresh(Stored)')
  BY <1>3 DEF ProcFits, WithToken
<1>7. \A q \in Procs \ {p} : tokenLock = q => tokenLock' = q
  OBVIOUS
<1> HIDE DEF r
<1> QED
  BY <1>3, <1>4, <1>5, <1>6, <1>7, ProcStep

\* The holder of the lock saves its token, or fails.
LEMMA SavingFits ==
  ASSUME CredentialsInv, NEW p \in Procs, SaveEntry(p) \/ SaveMeta(p)
  PROVE  CredentialsInv'
<1>0. ProcFits(proc[p], tokenLock = p, ~Fresh(Stored)) /\ proc[p] \in ProcRecords
  BY DEF CredentialsInv
<1>1. proc[p].at \in {"saveEntry", "saveMeta"}
  BY DEF SaveEntry, SaveMeta, At
<1>2. tokenLock = p /\ proc[p].mem \in Tokens
  BY <1>0, <1>1, TokenInMemory DEF ProcFits, UnderLock, WithToken, ProcRecords
<1>3. holder[proc[p].mem] \in Users \union {NoUser}
  BY <1>2 DEF CredentialsInv, StoreTypes
<1>4. CASE GiveUp(p) /\ UNCHANGED <<storeVars, serverVars, loggedOut>>
  BY <1>4, GivingUpFits
<1>5. ASSUME NEW where \in {"saveMeta", "reread", "request", "off"}, NEW r \in ProcRecords,
             r.at = where, r.mem = proc[p].mem \/ where = "off",
             proc' = [proc EXCEPT ![p] = r],
             tokenLock' = (IF where = "saveMeta" THEN p ELSE NoProc), StoreTypes'
      PROVE  CredentialsInv'
  <2>1. ProcFits(r, tokenLock' = p, ~Fresh(Stored)')
    BY <1>2, <1>5, NoToken DEF ProcFits, UnderLock, WithToken
  <2>2. \A q \in Procs \ {p} : tokenLock = q => tokenLock' = q
    BY <1>2
  <2> QED
    BY <1>2, <1>5, <2>1, <2>2, ProcStep
<1>6. CASE SaveEntry(p) /\ Goto(p, "saveMeta") /\ UNCHANGED tokenLock
  <2> DEFINE r == [proc[p] EXCEPT !.at = "saveMeta"]
  <2>1. r \in ProcRecords /\ r.at = "saveMeta" /\ r.mem = proc[p].mem
    BY <1>0 DEF ProcRecords, Places
  <2>2. proc' = [proc EXCEPT ![p] = r] /\ UNCHANGED tokenLock
    BY <1>6 DEF SaveEntry, Goto
  <2>3. entry' \in [Users -> 0..MaxTokens]
    BY <1>2, <1>6, NoToken DEF SaveEntry, CredentialsInv, StoreTypes
  <2>4. StoreTypes'
    BY <1>6, <2>2, <2>3 DEF SaveEntry, CredentialsInv, StoreTypes, serverVars
  <2> HIDE DEF r
  <2> QED
    BY <1>2, <1>5, <2>1, <2>2, <2>4
<1>7. CASE SaveMeta(p) /\ active' = holder[proc[p].mem]
  <2>1. tokenLock' = NoProc \/ tokenLock' \in Procs \union {NoProc}
    BY <1>2, <1>7 DEF SaveMeta, GiveUp, Unlock, Holding
  <2>2. tokenLock' = NoProc
    BY <1>2, <1>7 DEF SaveMeta, GiveUp, Unlock, Holding
  <2>3. StoreTypes'
    BY <1>3, <1>7, <2>2 DEF SaveMeta, CredentialsInv, StoreTypes, serverVars
  <2>4. CASE proc' = [proc EXCEPT ![p] = Off]
    BY <1>5, <2>2, <2>3, <2>4, OffIsARecord
  <2>5. CASE Goto(p, Refreshed(p))
    <3> DEFINE r == [proc[p] EXCEPT !.at = Refreshed(p)]
    <3>1. Refreshed(p) \in {"reread", "request"}
      BY DEF Refreshed
    <3>2. r \in ProcRecords /\ r.at = Refreshed(p) /\ r.mem = proc[p].mem
      BY <1>0, <3>1 DEF ProcRecords, Places
    <3>3. proc' = [proc EXCEPT ![p] = r]
      BY <2>5 DEF Goto
    <3> HIDE DEF r
    <3> QED
      BY <1>5, <2>2, <2>3, <3>1, <3>2, <3>3
  <2> QED
    BY <1>7, <2>4, <2>5 DEF SaveMeta, GiveUp
<1>8. CASE SaveEntry(p)
  BY <1>4, <1>6, <1>8 DEF SaveEntry, storeVars
<1>9. CASE SaveMeta(p)
  BY <1>4, <1>7, <1>9 DEF SaveMeta, storeVars
<1> QED
  BY <1>8, <1>9

\* A process that clears the store holds no lock and leaves no token behind.
LEMMA ClearingFits ==
  ASSUME CredentialsInv, NEW p \in Procs, ClearRead(p) \/ ClearEntry(p) \/ ClearMeta(p)
  PROVE  CredentialsInv'
<1>0. proc[p] \in ProcRecords
  BY DEF CredentialsInv
<1>1. ASSUME NEW r \in ProcRecords, r.at \in {"clear", "hooks", "clearEntry", "clearMeta", "off"},
             proc' = [proc EXCEPT ![p] = r], StoreTypes',
             Fresh(Stored)' => Fresh(Stored),
             UNCHANGED tokenLock \/ tokenLock = p
      PROVE  CredentialsInv'
  <2>1. ProcFits(r, tokenLock' = p, ~Fresh(Stored)')
    BY <1>1 DEF ProcFits, UnderLock, WithToken
  <2>2. \A q \in Procs \ {p} : tokenLock = q => tokenLock' = q
    BY <1>1
  <2> QED
    BY <1>1, <2>1, <2>2, ProcStep
<1>2. CASE ClearRead(p)
  <2> DEFINE where == IF active = NoUser THEN "clearMeta"
                      ELSE IF proc[p].role = "bus" THEN "clearEntry" ELSE "hooks"
             r == [proc[p] EXCEPT !.target = active, !.at = where]
  <2>1. r \in ProcRecords /\ r.at = where /\ where \in {"hooks", "clearEntry", "clearMeta"}
    BY <1>0 DEF ProcRecords, Places, CredentialsInv, StoreTypes
  <2>2. proc' = [proc EXCEPT ![p] = r]
    BY <1>2 DEF ClearRead
  <2>3. StoreTypes' /\ (Fresh(Stored)' <=> Fresh(Stored)) /\ UNCHANGED tokenLock
    BY <1>2 DEF ClearRead, CredentialsInv, StoreTypes, storeVars, serverVars, Fresh, Stored
  <2> HIDE DEF r, where
  <2> QED
    BY <1>1, <2>1, <2>2, <2>3
<1>3. CASE ClearEntry(p)
  <2>1. UNCHANGED <<active, serverVars, tokenLock, loggedOut>>
    BY <1>3 DEF ClearEntry
  <2>2. /\ entry' \in [Users -> 0..MaxTokens]
        /\ \A u \in Users : entry'[u] \in {0, entry[u]}
    BY <1>3, NoToken DEF ClearEntry, CredentialsInv, StoreTypes
  <2>3. StoreTypes'
    BY <2>1, <2>2 DEF CredentialsInv, StoreTypes, serverVars
  <2>4. Stored' \in {0, Stored}
    BY <2>1, <2>2 DEF Stored, CredentialsInv, StoreTypes
  <2>5. Fresh(Stored)' => Fresh(Stored)
    BY <2>1, <2>4 DEF Fresh, serverVars
  <2>6. PICK target \in Users \union {NoUser} :
          proc' = [proc EXCEPT ![p].at = "clearMeta", ![p].target = target]
    <3>1. CASE Goto(p, "clearMeta")
      <4>1. [proc[p] EXCEPT !.at = "clearMeta"]
              = [proc[p] EXCEPT !.at = "clearMeta", !.target = proc[p].target]
        BY <1>0 DEF ProcRecords
      <4> QED
        BY ZenonT(60), <1>0, <3>1, <4>1 DEF Goto, ProcRecords
    <3>2. CASE proc' = [proc EXCEPT ![p].at = "clearMeta", ![p].target = NoUser]
      BY <3>2
    <3> QED
      BY <1>3, <3>1, <3>2 DEF ClearEntry
  <2> DEFINE r == [proc[p] EXCEPT !.at = "clearMeta", !.target = target]
  <2>7. r \in ProcRecords /\ r.at = "clearMeta"
    BY <1>0 DEF ProcRecords, Places
  <2>8. proc' = [proc EXCEPT ![p] = r]
    BY <2>6
  <2> HIDE DEF r
  <2> QED
    BY <1>1, <2>1, <2>3, <2>5, <2>7, <2>8
<1>4. CASE ClearMeta(p)
  <2>1. active' = NoUser /\ UNCHANGED <<entry, serverVars>>
    BY <1>4 DEF ClearMeta
  <2>2. loggedOut' \subseteq Users \union {NoUser}
    BY <1>0, <1>4 DEF ClearMeta, CredentialsInv, StoreTypes, ProcRecords
  <2>3. UNCHANGED tokenLock \/ (tokenLock = p /\ tokenLock' = NoProc)
    BY <1>4 DEF ClearMeta, GiveUp, Unlock, Holding
  <2>4. StoreTypes'
    BY <2>1, <2>2, <2>3 DEF CredentialsInv, StoreTypes, serverVars
  <2>5. Fresh(Stored)' => Fresh(Stored)
    BY <2>1 DEF Fresh, Stored
  <2>6. CASE GiveUp(p)
    BY <1>1, <2>3, <2>4, <2>5, <2>6, OffIsARecord DEF GiveUp
  <2>7. CASE Goto(p, "clear")
    <3> DEFINE r == [proc[p] EXCEPT !.at = "clear"]
    <3>1. r \in ProcRecords /\ r.at = "clear"
      BY <1>0 DEF ProcRecords, Places
    <3>2. proc' = [proc EXCEPT ![p] = r]
      BY <2>7 DEF Goto
    <3> HIDE DEF r
    <3> QED
      BY <1>1, <2>3, <2>4, <2>5, <3>1, <3>2
  <2> QED
    BY <1>4, <2>6, <2>7 DEF ClearMeta
<1> QED
  BY <1>2, <1>3, <1>4

\* Hooks end the bus of an account, and with it its hold on the lock.
LEMMA HooksFit == ASSUME CredentialsInv, NEW p \in Procs, RunHooks(p) PROVE CredentialsInv'
<1>0. ProcFits(proc[p], tokenLock = p, ~Fresh(Stored)) /\ proc[p] \in ProcRecords
  BY DEF CredentialsInv
<1>1. UNCHANGED <<storeVars, serverVars, loggedOut>> /\ proc[p].at = "hooks"
  BY DEF RunHooks, At
<1>2. CASE GiveUp(p)
  BY <1>1, <1>2, GivingUpFits
<1>3. CASE Goto(p, "clear") /\ UNCHANGED tokenLock
  BY <1>1, <1>3, GoingFits DEF Places, UnderLock, WithToken
<1>4. ASSUME NEW owned \in SUBSET Procs,
             proc' = [q \in Procs |-> IF q = p THEN [proc[q] EXCEPT !.at = "clearEntry"]
                                      ELSE IF q \in owned THEN Off
                                      ELSE proc[q]],
             tokenLock' = IF tokenLock \in owned THEN NoProc ELSE tokenLock
      PROVE  CredentialsInv'
  <2>1. StoreTypes' /\ (Fresh(Stored)' <=> Fresh(Stored))
    BY <1>1, <1>4 DEF CredentialsInv, StoreTypes, storeVars, serverVars, Fresh, Stored
  <2>2. [proc[p] EXCEPT !.at = "clearEntry"] \in ProcRecords
    BY <1>0 DEF ProcRecords, Places
  <2>3. proc' \in [Procs -> ProcRecords]
    BY <1>4, <2>2, OffIsARecord DEF CredentialsInv
  <2>4. ASSUME NEW q \in Procs PROVE ProcFits(proc'[q], tokenLock' = q, ~Fresh(Stored)')
    <3>1. CASE q = p
      <4>1. proc'[q].at = "clearEntry"
        BY <1>0, <1>4, <3>1 DEF ProcRecords
      <4> QED
        BY <4>1 DEF ProcFits, UnderLock, WithToken
    <3>2. CASE q # p /\ q \in owned
      BY <1>4, <3>2, OffIsARecord DEF ProcFits, UnderLock, WithToken
    <3>3. CASE q # p /\ q \notin owned
      <4>1. proc'[q] = proc[q] /\ (tokenLock = q => tokenLock' = q)
        BY <1>4, <3>3
      <4>2. ProcFits(proc[q], tokenLock = q, ~Fresh(Stored))
        BY DEF CredentialsInv
      <4> QED
        BY <2>1, <4>1, <4>2 DEF ProcFits
    <3> QED
      BY <3>1, <3>2, <3>3
  <2> QED
    BY <2>1, <2>3, <2>4 DEF CredentialsInv
<1> QED
  BY <1>2, <1>3, <1>4 DEF RunHooks

\* Tokens only get older.
LEMMA ExpiringFits == ASSUME CredentialsInv, NEW t \in Tokens, Expire(t) PROVE CredentialsInv'
<1>1. age' \in [Tokens -> Ages]
  BY DEF Expire, CredentialsInv, StoreTypes, Ages
<1>2. StoreTypes'
  BY <1>1 DEF Expire, CredentialsInv, StoreTypes, storeVars
<1>3. Stored' = Stored /\ Stored \in 0..MaxTokens
  BY StoredIsAToken DEF Expire, Stored, storeVars, CredentialsInv
<1>4. Fresh(Stored)' => Fresh(Stored)
  <2>1. \A u \in Tokens : age'[u] = "fresh" => age[u] = "fresh"
    BY DEF Expire, CredentialsInv, StoreTypes
  <2> QED
    BY <1>3, <2>1, TokenInMemory DEF Fresh
<1> QED
  BY <1>2, <1>4 DEF Expire, CredentialsInv, ProcFits

\* Every step keeps what the processes rely on.
LEMMA CredentialsStepFits == CredentialsInv /\ [CredentialsNext]_credVars => CredentialsInv'
<1> SUFFICES ASSUME CredentialsInv, [CredentialsNext]_credVars PROVE CredentialsInv'
  OBVIOUS
<1>1. ASSUME NEW p \in Procs, NEW r \in RolesOf[p], Start(p, r) PROVE CredentialsInv'
  <2>1. r \in Roles
    BY CredentialsAssumption
  <2> QED
    BY <1>1, <2>1, OwnStepFits
<1>2. ASSUME NEW p \in Procs, Step(p) PROVE CredentialsInv'
  <2>0. ProcFits(proc[p], tokenLock = p, ~Fresh(Stored)) /\ proc[p] \in ProcRecords
    BY DEF CredentialsInv
  <2>1. CASE RefreshAccepted(p)
    <3>1. tokenLock = p /\ proc[p].mem \in Tokens
      BY <2>0, <2>1, TokenInMemory
         DEF RefreshAccepted, At, ProcFits, UnderLock, WithToken, ProcRecords
    <3>2. holder[proc[p].mem] \in Users \union {NoUser}
      BY <3>1 DEF CredentialsInv, StoreTypes
    <3> QED
      BY <2>1, <3>1, <3>2, IssuingFits DEF RefreshAccepted
  <2>2. ASSUME NEW u \in Users, Authorized(p, u) PROVE CredentialsInv'
    <3>1. tokenLock = p
      BY <2>0, <2>2 DEF Authorized, At, ProcFits, UnderLock
    <3> QED
      BY <2>2, <3>1, IssuingFits DEF Authorized
  <2>3. CASE SaveEntry(p) \/ SaveMeta(p)
    BY <2>3, SavingFits
  <2>4. CASE ClearRead(p) \/ ClearEntry(p) \/ ClearMeta(p)
    BY <2>4, ClearingFits
  <2>5. CASE RunHooks(p)
    BY <2>5, HooksFit
  <2>6. CASE \/ PreCheck(p) \/ ProvideToken(p) \/ CheckExpiry(p) \/ Acquire(p) \/ LockTimeout(p)
             \/ CompareStored(p) \/ RefreshFails(p) \/ AlreadySignedIn(p) \/ PollTimeout(p)
             \/ RequestAnswered(p) \/ TokenExpired(p) \/ RereadStore(p)
    BY <2>6, OwnStepFits
  <2> QED
    BY <1>2, <2>1, <2>2, <2>3, <2>4, <2>5, <2>6 DEF Step
<1>3. ASSUME NEW p \in Procs, GatewayRefuses(p) \/ Crash(p) PROVE CredentialsInv'
  BY <1>3, OwnStepFits
<1>4. ASSUME NEW t \in Tokens, Expire(t) PROVE CredentialsInv'
  BY <1>4, ExpiringFits
<1>5. CASE UNCHANGED credVars
  BY <1>5 DEF credVars, storeVars, serverVars, CredentialsInv, StoreTypes, Fresh, Stored
<1> QED
  BY <1>1, <1>2, <1>3, <1>4, <1>5 DEF CredentialsNext

\* The types, for any number of processes, accounts and tokens.
THEOREM CredentialsAreTyped == CredentialsSpec => []CredentialsTypeOK
<1>1. CredentialsInv => CredentialsTypeOK
  BY DEF CredentialsInv, StoreTypes, CredentialsTypeOK, ProcRecords
<1> QED
  BY <1>1, CredentialsInitFits, CredentialsStepFits, PTL DEF CredentialsSpec

\* One process at a time asks for a new token, and only while the store has
\* none that would do, however refreshes, logins, logouts and kills interleave:
\* this is the property AsksOnlyIfStale of the run `client`.
THEOREM OneRefreshAtATime == CredentialsSpec => []AsksOnlyIfStale
<1>1. CredentialsInv => AsksOnlyIfStale
  BY DEF CredentialsInv, ProcFits, UnderLock, AsksOnlyIfStale, At, Holding
<1> QED
  BY <1>1, CredentialsInitFits, CredentialsStepFits, PTL DEF CredentialsSpec

-----------------------------------------------------------------------------
\* Nobody keeps token.lock, and no bus outlives a logout for long: the safety
\* half of the liveness of the credentials.  Each process moves forward
\* through the places of its role and no other process takes it back.

\* The places of a process inside ClearUserConfig.
Clearing == {"clear", "hooks", "clearEntry", "clearMeta"}

\* Where a process of each role can be, and where the holder of token.lock is.
PlaceFits(p) ==
  /\ proc[p].role = "bus" => proc[p].at \notin {"off", "signedIn", "poll", "request", "hooks"}
  /\ proc[p].role = "logout" => proc[p].at \in {"check"} \union Clearing
  /\ tokenLock = p => proc[p].at \in UnderLock \union Clearing /\ proc[p].role # "logout"

\* The invariant of the credentials, and the places.
PlacesInv == CredentialsInv /\ \A p \in Procs : PlaceFits(p)

\* token.lock is never left behind: whoever holds it is running, inside
\* WithLock.
TokenLockIsHeld ==
  tokenLock # NoProc => proc[tokenLock].at \in UnderLock \union Clearing

\* How far the holder of the lock is from letting go of it.
HoldLeft(at) ==
  IF at = "signedIn" THEN 9 ELSE IF at \in {"poll", "locked"} THEN 8 ELSE IF at = "ask" THEN 7
  ELSE IF at = "saveEntry" THEN 6 ELSE IF at = "saveMeta" THEN 5 ELSE IF at = "clear" THEN 4
  ELSE IF at = "hooks" THEN 3 ELSE IF at = "clearEntry" THEN 2 ELSE IF at = "clearMeta" THEN 1
  ELSE 0

\* What a step may do to the hold of process p.
HoldAdvances ==
  \A p \in Procs : tokenLock = p =>
    /\ Step(p) => tokenLock' # p \/ HoldLeft(proc'[p].at) < HoldLeft(proc[p].at)
    /\ ~Step(p) => tokenLock' # p \/ proc'[p] = proc[p]

\* How far a bus is from its next look at the store, and from its end.
NoticeLeft(at) ==
  IF at = "check" THEN 14 ELSE IF at = "serve" THEN 13 ELSE IF at = "refresh" THEN 12
  ELSE IF at = "want" THEN 11 ELSE IF at = "locked" THEN 10 ELSE IF at = "ask" THEN 9
  ELSE IF at = "saveEntry" THEN 8 ELSE IF at = "saveMeta" THEN 7 ELSE IF at = "reread" THEN 6
  ELSE IF at = "clear" THEN 5 ELSE IF at = "clearEntry" THEN 2 ELSE IF at = "clearMeta" THEN 1
  ELSE 0

\* What a step may do to a bus whose user has logged out.
NoticeAdvances ==
  \A p \in Procs : proc[p].role = "bus" /\ Stored = 0 =>
    /\ Step(p) => \/ proc'[p] = Off
                  \/ NoticeLeft(proc'[p].at) < NoticeLeft(proc[p].at)
    /\ ~Step(p) => proc'[p] = Off \/ NoticeLeft(proc'[p].at) <= NoticeLeft(proc[p].at)

\* Where a process of a role goes from a place of its own accord, unless it
\* ends.
Move(role, at, to) ==
  \/ at = "check" /\ \/ role = "bus" /\ to = "serve"
                     \/ role = "command" /\ to = "refresh"
                     \/ role = "logout" /\ to = "clear"
  \/ at = "serve" /\ to = "refresh"
  \/ at = "refresh" /\ to \in {"want", "clear"}
  \/ at \in {"refresh", "locked", "saveMeta"} /\ to = IF role = "bus" THEN "reread" ELSE "request"
  \/ at = "want" /\ to = IF role = "login" THEN "signedIn" ELSE "locked"
  \/ at = "locked" /\ to = "ask"
  \/ at = "ask" /\ to \in {"saveEntry", "clear"}
  \/ at = "saveEntry" /\ to = "saveMeta"
  \/ at = "signedIn" /\ to = "poll"
  \/ at = "poll" /\ to = "saveEntry"
  \/ at = "request" /\ to = "clear"
  \/ at = "reread" /\ to = "serve" /\ Stored # 0
  \/ at = "clear" /\ to \in {"clearMeta", IF role = "bus" THEN "clearEntry" ELSE "hooks"}
  \/ at = "hooks" /\ (to = "clearEntry" \/ (to = "clear" /\ role = "logout"))
  \/ at = "clearEntry" /\ to = "clearMeta"
  \/ at = "clearMeta" /\ to = "clear" /\ role = "logout"

\* Nobody gets the lock from anybody, and who loses it without giving it up
\* has been ended.
Apart(p) ==
  \A q \in Procs \ {p} :
    /\ proc'[q] \in {proc[q], Off}
    /\ tokenLock' = q => tokenLock = q /\ proc'[q] = proc[q]

\* The end of process p.
LEMMA GivesUp ==
  ASSUME PlacesInv, NEW p \in Procs, GiveUp(p)
  PROVE  proc'[p] = Off /\ tokenLock' # p /\ Apart(p)
BY CredentialsAssumption DEF PlacesInv, CredentialsInv, GiveUp, Unlock, Holding, Apart

\* Process p and no other goes to a place with its role.
LEMMA Moves ==
  ASSUME PlacesInv, NEW p \in Procs, NEW r, NEW to,
         proc' = [proc EXCEPT ![p] = r], r.role = proc[p].role, r.at = to,
         Move(proc[p].role, proc[p].at, to),
         \/ tokenLock' = tokenLock
         \/ tokenLock' = p /\ proc[p].at = "want"
         \/ tokenLock' = NoProc /\ proc[p].at \in {"locked", "saveMeta"},
         to \in {"reread", "request"} => tokenLock' # p
  PROVE  /\ proc'[p].role = proc[p].role /\ Move(proc[p].role, proc[p].at, proc'[p].at)
         /\ tokenLock' = p => tokenLock = p \/ proc[p].at = "want"
         /\ tokenLock' = p => proc'[p].at \notin {"reread", "request"}
         /\ Apart(p)
BY CredentialsAssumption DEF PlacesInv, CredentialsInv, Apart

\* Every step of a process of its own accord ends it or moves it on.
LEMMA StepMoves ==
  ASSUME PlacesInv, NEW p \in Procs, Step(p)
  PROVE  /\ Apart(p)
         /\ \/ proc'[p] = Off /\ tokenLock' # p
            \/ /\ proc'[p].role = proc[p].role
               /\ Move(proc[p].role, proc[p].at, proc'[p].at)
               /\ tokenLock' = p => tokenLock = p \/ proc[p].at = "want"
               /\ tokenLock' = p => proc'[p].at \notin {"reread", "request"}
<1>0. /\ proc[p] \in ProcRecords /\ ProcFits(proc[p], tokenLock = p, ~Fresh(Stored))
      /\ PlaceFits(p) /\ p # NoProc
  BY CredentialsAssumption DEF PlacesInv, CredentialsInv
<1>1. ASSUME GiveUp(p)
      PROVE  Apart(p) /\ proc'[p] = Off /\ tokenLock' # p
  BY <1>1, GivesUp
<1> DEFINE Moved == /\ proc'[p].role = proc[p].role
                    /\ Move(proc[p].role, proc[p].at, proc'[p].at)
                    /\ tokenLock' = p => tokenLock = p \/ proc[p].at = "want"
                    /\ tokenLock' = p => proc'[p].at \notin {"reread", "request"}
                    /\ Apart(p)
<1>2. ASSUME NEW to, Goto(p, to) \/ (to = "clear" /\ BeginClear(p)),
             Move(proc[p].role, proc[p].at, to),
             \/ tokenLock' = tokenLock
             \/ tokenLock' = p /\ proc[p].at = "want"
             \/ tokenLock' = NoProc /\ proc[p].at \in {"locked", "saveMeta"},
             to \in {"reread", "request"} => tokenLock' # p
      PROVE  Moved
  <2>1. CASE Goto(p, to)
    <3> DEFINE r == [proc[p] EXCEPT !.at = to]
    <3>1. proc' = [proc EXCEPT ![p] = r] /\ r.role = proc[p].role /\ r.at = to
      BY <1>0, <2>1 DEF Goto, ProcRecords
    <3> HIDE DEF r
    <3> QED
      BY <1>2, <3>1, Moves
  <2>2. CASE to = "clear" /\ BeginClear(p)
    <3> DEFINE r == [proc[p] EXCEPT !.at = "clear", !.mem = 0]
    <3>1. proc' = [proc EXCEPT ![p] = r] /\ r.role = proc[p].role /\ r.at = to
      BY <1>0, <2>2 DEF BeginClear, ProcRecords
    <3> HIDE DEF r
    <3> QED
      BY <1>2, <3>1, Moves
  <2> QED
    BY <1>2, <2>1, <2>2
<1>3. tokenLock = p => proc[p].at \in UnderLock \union Clearing
  BY <1>0 DEF PlaceFits
<1> USE DEF At
<1>4. CASE PreCheck(p)
  <2>1. proc[p].role \in {"command", "bus", "logout"} /\ proc[p].at = "check"
    BY <1>0, <1>4 DEF PreCheck, ProcFits, ProcRecords, Roles
  <2>2. CASE proc[p].role = "logout" /\ BeginClear(p) /\ UNCHANGED tokenLock
    BY <1>2, <2>1, <2>2 DEF Move
  <2>3. CASE proc[p].role = "command" /\ Goto(p, "refresh") /\ UNCHANGED tokenLock
    BY <1>2, <2>1, <2>3 DEF Move
  <2>4. CASE proc[p].role = "bus" /\ Goto(p, "serve") /\ UNCHANGED tokenLock
    BY <1>2, <2>1, <2>4 DEF Move
  <2> HIDE DEF Moved
  <2> QED
    BY <1>1, <1>4, <2>1, <2>2, <2>3, <2>4 DEF PreCheck, Moved
<1>5. CASE ProvideToken(p)
  BY <1>2, <1>5 DEF ProvideToken, Move
<1>6. CASE CheckExpiry(p)
  <2>1. /\ proc[p].at = "refresh" /\ tokenLock' = tokenLock /\ tokenLock # p
        /\ proc[p].mem # 0
    BY <1>0, <1>3, <1>6 DEF CheckExpiry, UnderLock, Clearing, ProcFits, WithToken
  <2>2. age[proc[p].mem] \in Ages
    BY <1>0, <2>1, TokenInMemory DEF ProcRecords, PlacesInv, CredentialsInv, StoreTypes
  <2>3. \/ Goto(p, Refreshed(p)) \/ Goto(p, "want") \/ BeginClear(p)
    BY <1>6, <2>2 DEF CheckExpiry, Ages
  <2>4. Move(proc[p].role, proc[p].at, Refreshed(p)) /\ Move(proc[p].role, proc[p].at, "want")
          /\ Move(proc[p].role, proc[p].at, "clear")
    BY <2>1 DEF Move, Refreshed
  <2> HIDE DEF Moved
  <2> QED
    BY <1>2, <2>1, <2>3, <2>4 DEF Moved
<1>7. CASE Acquire(p)
  <2> DEFINE to == IF proc[p].role = "login" THEN "signedIn" ELSE "locked"
  <2>1. Goto(p, to) /\ proc[p].at = "want" /\ tokenLock' = p
    BY <1>7 DEF Acquire
  <2>2. Move(proc[p].role, proc[p].at, to) /\ to \notin {"reread", "request"}
    BY <2>1 DEF Move
  <2> HIDE DEF to, Moved
  <2> QED
    BY <1>2, <2>1, <2>2 DEF Moved
<1>8. CASE LockTimeout(p) \/ PollTimeout(p) \/ RequestAnswered(p)
  BY <1>1, <1>8 DEF LockTimeout, PollTimeout, RequestAnswered
<1>9. CASE CompareStored(p)
  <2>1. proc[p].at = "locked" /\ tokenLock = p
    BY <1>0, <1>9 DEF CompareStored, ProcFits, UnderLock
  <2>2. CASE Fresh(Stored)
    <3> DEFINE r == [proc[p] EXCEPT !.mem = Stored, !.at = Refreshed(p)]
    <3>1. /\ proc' = [proc EXCEPT ![p] = r] /\ r.role = proc[p].role /\ r.at = Refreshed(p)
          /\ tokenLock' = NoProc
      BY <1>0, <1>9, <2>1, <2>2 DEF CompareStored, ProcRecords, Unlock, Holding
    <3>2. Move(proc[p].role, proc[p].at, Refreshed(p))
      BY <2>1 DEF Move, Refreshed
    <3> HIDE DEF r
    <3> QED
      BY <1>0, <2>1, <3>1, <3>2, Moves
  <2>3. CASE ~Fresh(Stored)
    <3>1. Goto(p, "ask") /\ UNCHANGED tokenLock
      BY <1>9, <2>3 DEF CompareStored
    <3> QED
      BY <1>2, <2>1, <3>1 DEF Move
  <2> QED
    BY <2>2, <2>3
<1>10. ASSUME NEW u, Issue(p, u), UNCHANGED tokenLock, proc[p].at \in {"ask", "poll"}
       PROVE  Moved
  <2> DEFINE r == [proc[p] EXCEPT !.mem = issued', !.at = "saveEntry"]
  <2>1. proc' = [proc EXCEPT ![p] = r] /\ r.role = proc[p].role /\ r.at = "saveEntry"
    BY <1>0, <1>10 DEF Issue, ProcRecords
  <2>2. Move(proc[p].role, proc[p].at, "saveEntry")
    BY <1>10 DEF Move
  <2> HIDE DEF r
  <2> QED
    BY <1>10, <2>1, <2>2, Moves
<1>11. CASE RefreshAccepted(p) \/ \E u \in Users : Authorized(p, u)
  BY <1>10, <1>11 DEF RefreshAccepted, Authorized
<1>12. CASE RefreshFails(p) \/ TokenExpired(p)
  BY <1>2, <1>12 DEF RefreshFails, TokenExpired, Move
<1>13. CASE SaveEntry(p)
  <2>1. CASE GiveUp(p)
    BY <1>1, <2>1
  <2>2. CASE Goto(p, "saveMeta") /\ UNCHANGED tokenLock
    BY <1>2, <1>13, <2>2 DEF SaveEntry, Move
  <2> QED
    BY <1>13, <2>1, <2>2 DEF SaveEntry
<1>14. CASE SaveMeta(p)
  <2>1. CASE GiveUp(p)
    BY <1>1, <2>1
  <2>2. CASE Goto(p, Refreshed(p)) /\ Unlock(p)
    <3>1. proc[p].at = "saveMeta" /\ tokenLock' = NoProc
      BY <1>0, <1>14, <2>2 DEF SaveMeta, ProcFits, UnderLock, Unlock, Holding
    <3>2. Move(proc[p].role, proc[p].at, Refreshed(p))
      BY <3>1 DEF Move, Refreshed
    <3> QED
      BY <1>0, <1>2, <2>2, <3>1, <3>2
  <2> QED
    BY <1>14, <2>1, <2>2 DEF SaveMeta
<1>15. CASE AlreadySignedIn(p)
  <2>1. CASE GiveUp(p)
    BY <1>1, <2>1
  <2>2. CASE Goto(p, "poll") /\ UNCHANGED tokenLock
    BY <1>2, <1>15, <2>2 DEF AlreadySignedIn, Move
  <2> QED
    BY <1>15, <2>1, <2>2 DEF AlreadySignedIn
<1>16. CASE RereadStore(p)
  <2>1. CASE GiveUp(p)
    BY <1>1, <2>1
  <2>2. CASE Stored # 0
    <3> DEFINE r == [proc[p] EXCEPT !.mem = Stored, !.at = "serve"]
    <3>1. /\ proc' = [proc EXCEPT ![p] = r] /\ r.role = proc[p].role /\ r.at = "serve"
          /\ UNCHANGED tokenLock /\ proc[p].at = "reread"
      BY <1>0, <1>16, <2>2 DEF RereadStore, ProcRecords
    <3>2. Move(proc[p].role, proc[p].at, "serve")
      BY <2>2, <3>1 DEF Move
    <3> HIDE DEF r
    <3> QED
      BY <3>1, <3>2, Moves
  <2> QED
    BY <1>16, <2>1, <2>2 DEF RereadStore
<1>17. CASE ClearRead(p)
  <2> DEFINE to == IF active = NoUser THEN "clearMeta"
                   ELSE IF proc[p].role = "bus" THEN "clearEntry" ELSE "hooks"
             r == [proc[p] EXCEPT !.target = active, !.at = to]
  <2>1. /\ proc' = [proc EXCEPT ![p] = r] /\ r.role = proc[p].role /\ r.at = to
        /\ UNCHANGED tokenLock /\ proc[p].at = "clear"
    BY <1>0, <1>17 DEF ClearRead, ProcRecords
  <2>2. Move(proc[p].role, proc[p].at, to) /\ to \notin {"reread", "request"}
    BY <2>1 DEF Move
  <2> HIDE DEF r, to
  <2> QED
    BY <2>1, <2>2, Moves
<1>18. CASE RunHooks(p)
  <2>0. proc[p].at = "hooks" /\ proc[p].role # "bus"
    BY <1>0, <1>18 DEF RunHooks, PlaceFits
  <2>1. CASE GiveUp(p)
    BY <1>1, <2>1
  <2>2. CASE proc[p].role = "logout" /\ Goto(p, "clear") /\ UNCHANGED tokenLock
    BY <1>2, <2>0, <2>2 DEF Move
  <2>3. ASSUME NEW owned, owned = {q \in Procs : proc[q].role = "bus" /\ proc[q].owner = proc[p].target},
               proc' = [q \in Procs |-> IF q = p THEN [proc[q] EXCEPT !.at = "clearEntry"]
                                        ELSE IF q \in owned THEN Off
                                        ELSE proc[q]],
               tokenLock' = IF tokenLock \in owned THEN NoProc ELSE tokenLock
        PROVE  Moved
    <3>1. proc'[p].at = "clearEntry" /\ proc'[p].role = proc[p].role
      BY <1>0, <2>3 DEF ProcRecords
    <3>2. Move(proc[p].role, proc[p].at, proc'[p].at)
      BY <2>0, <3>1 DEF Move
    <3>3. Apart(p) /\ (tokenLock' = p => tokenLock = p)
      BY CredentialsAssumption, <2>3 DEF Apart
    <3> QED
      BY <3>1, <3>2, <3>3
  <2> HIDE DEF Moved
  <2> QED
    BY <1>18, <2>1, <2>2, <2>3 DEF RunHooks, Moved
<1>19. CASE ClearEntry(p)
  <2>1. CASE Goto(p, "clearMeta") /\ UNCHANGED tokenLock
    BY <1>2, <1>19, <2>1 DEF ClearEntry, Move
  <2>2. CASE proc' = [proc EXCEPT ![p].at = "clearMeta", ![p].target = NoUser]
    <3> DEFINE r == [proc[p] EXCEPT !.at = "clearMeta", !.target = NoUser]
    <3>1. /\ proc' = [proc EXCEPT ![p] = r] /\ r.role = proc[p].role /\ r.at = "clearMeta"
          /\ UNCHANGED tokenLock /\ proc[p].at = "clearEntry"
      BY <1>0, <1>19, <2>2 DEF ClearEntry, ProcRecords
    <3>2. Move(proc[p].role, proc[p].at, "clearMeta")
      BY <3>1 DEF Move
    <3> HIDE DEF r
    <3> QED
      BY <3>1, <3>2, Moves
  <2> QED
    BY <1>19, <2>1, <2>2 DEF ClearEntry
<1>20. CASE ClearMeta(p)
  <2>1. CASE GiveUp(p)
    BY <1>1, <2>1
  <2>2. CASE proc[p].role = "logout" /\ Goto(p, "clear") /\ UNCHANGED tokenLock
    BY <1>2, <1>20, <2>2 DEF ClearMeta, Move
  <2> QED
    BY <1>20, <2>1, <2>2 DEF ClearMeta
<1> HIDE DEF Moved
<1> QED
  BY <1>4, <1>5, <1>6, <1>7, <1>8, <1>9, <1>11, <1>12, <1>13, <1>14, <1>15, <1>16, <1>17, <1>18,
     <1>19, <1>20 DEF Step, Moved

\* What any step may do to process p that is not one of its own.
LEMMA FromOutside ==
  ASSUME PlacesInv, [CredentialsNext]_credVars, NEW p \in Procs, ~Step(p)
  PROVE  \/ proc'[p] = proc[p] /\ (tokenLock' = p => tokenLock = p)
         \/ proc'[p] = Off /\ tokenLock' # p
         \/ /\ proc[p].at = "serve" /\ proc'[p].at = "clear" /\ proc'[p].role = proc[p].role
            /\ tokenLock' = tokenLock
         \/ /\ proc[p].at = "off" /\ tokenLock' = tokenLock
            /\ proc'[p].at = IF proc'[p].role = "login" THEN "want" ELSE "check"
<1>0. proc \in [Procs -> ProcRecords] /\ p # NoProc
  BY CredentialsAssumption DEF PlacesInv, CredentialsInv
<1>1. ASSUME NEW q \in Procs, Step(q)
      PROVE  proc'[p] \in {proc[p], Off} /\ (tokenLock' = p => tokenLock = p /\ proc'[p] = proc[p])
  BY <1>1, StepMoves DEF Apart
<1>2. ASSUME NEW q \in Procs, GatewayRefuses(q)
      PROVE  /\ tokenLock' = tokenLock
             /\ \/ proc'[p] = proc[p]
                \/ proc[p].at = "serve" /\ proc'[p].at = "clear" /\ proc'[p].role = proc[p].role
  BY <1>0, <1>2 DEF GatewayRefuses, BeginClear, At, ProcRecords
<1>3. ASSUME NEW q \in Procs, Crash(q)
      PROVE  \/ proc'[p] = Off /\ tokenLock' # p
             \/ proc'[p] = proc[p] /\ (tokenLock' = p => tokenLock = p)
  BY <1>0, <1>3 DEF Crash, GiveUp, Unlock, Holding
<1>4. ASSUME NEW q \in Procs, NEW r \in RolesOf[q], Start(q, r)
      PROVE  /\ tokenLock' = tokenLock
             /\ \/ proc'[p] = proc[p]
                \/ /\ proc[p].at = "off"
                   /\ proc'[p].at = IF proc'[p].role = "login" THEN "want" ELSE "check"
  <2> DEFINE s == [Off EXCEPT !.role = r, !.mem = Stored,
                     !.owner = IF r \in {"bus", "logout"} THEN active ELSE NoUser,
                     !.at = IF r = "login" THEN "want" ELSE "check"]
  <2>1. proc' = [proc EXCEPT ![q] = s] /\ proc[q].at = "off" /\ tokenLock' = tokenLock
    BY <1>4 DEF Start, At
  <2>2. s.role = r /\ s.at = IF r = "login" THEN "want" ELSE "check"
    BY DEF Off
  <2> HIDE DEF s
  <2> QED
    BY <1>0, <2>1, <2>2
<1>5. CASE (\E t \in Tokens : Expire(t)) \/ UNCHANGED credVars
  BY <1>5 DEF Expire, credVars
<1> QED
  BY <1>1, <1>2, <1>3, <1>4, <1>5 DEF CredentialsNext

\* Every process stays at the places of its role, and the lock with a process
\* that will give it up.
THEOREM PlacesInvariant == CredentialsSpec => []PlacesInv
<1>1. CredentialsInit => PlacesInv
  BY CredentialsInitFits, OffIsARecord, CredentialsAssumption
     DEF PlacesInv, PlaceFits, CredentialsInit
<1>2. PlacesInv /\ [CredentialsNext]_credVars => PlacesInv'
  <2> SUFFICES ASSUME PlacesInv, [CredentialsNext]_credVars, NEW p \in Procs
               PROVE  PlaceFits(p)'
    BY CredentialsStepFits DEF PlacesInv
  <2>1. PlaceFits(p)
    BY DEF PlacesInv
  <2>2. CASE proc'[p] = Off /\ tokenLock' # p
    BY <2>2, OffIsARecord DEF PlaceFits
  <2>3. CASE Step(p)
    <3>1. CASE /\ proc'[p].role = proc[p].role
               /\ Move(proc[p].role, proc[p].at, proc'[p].at)
               /\ tokenLock' = p => tokenLock = p \/ proc[p].at = "want"
               /\ tokenLock' = p => proc'[p].at \notin {"reread", "request"}
      BY <2>1, <3>1 DEF PlaceFits, Move, UnderLock, Clearing
    <3> QED
      BY <2>2, <2>3, <3>1, StepMoves
  <2>4. CASE ~Step(p)
    BY <2>1, <2>2, <2>4, FromOutside DEF PlaceFits, UnderLock, Clearing
  <2> QED
    BY <2>3, <2>4
<1> QED
  BY <1>1, <1>2, PTL DEF CredentialsSpec

\* token.lock (internal/config, filelock.WithLock) never outlives its use: whoever
\* holds it is a process that runs, somewhere between the acquisition and the release,
\* whatever refreshes, logins, logouts, hooks and kills there were before.
THEOREM TokenLockHasAHolder == CredentialsSpec => []TokenLockIsHeld
<1>1. PlacesInv => TokenLockIsHeld
  BY DEF PlacesInv, CredentialsInv, StoreTypes, PlaceFits, TokenLockIsHeld
<1> QED
  BY <1>1, PlacesInvariant, PTL

\* And it is given up: each step of the holder of its own accord is one less
\* to the release, and another process can only end the hold by ending the
\* holder.  So a critical section of RefreshToken, login or the clearing inside
\* it is at most nine steps long, whatever the others do meanwhile.
THEOREM TokenLockMovesOn == CredentialsSpec => [][HoldAdvances]_credVars
<1>1. PlacesInv /\ [CredentialsNext]_credVars => [HoldAdvances]_credVars
  <2> SUFFICES ASSUME PlacesInv, [CredentialsNext]_credVars, NEW p \in Procs, tokenLock = p
               PROVE  /\ Step(p) => \/ tokenLock' # p
                                    \/ HoldLeft(proc'[p].at) < HoldLeft(proc[p].at)
                      /\ ~Step(p) => tokenLock' # p \/ proc'[p] = proc[p]
    BY DEF HoldAdvances
  <2>1. proc[p].at \in UnderLock \union Clearing /\ proc[p].role # "logout"
    BY DEF PlacesInv, PlaceFits
  <2>2. ASSUME Step(p), tokenLock' = p
        PROVE  HoldLeft(proc'[p].at) < HoldLeft(proc[p].at)
    <3>1. /\ Move(proc[p].role, proc[p].at, proc'[p].at)
          /\ proc'[p].at \notin {"reread", "request"}
      BY <2>2, StepMoves
    <3>2. \/ proc[p].at = "signedIn" /\ proc'[p].at = "poll"
          \/ proc[p].at \in {"poll", "locked"} /\ proc'[p].at \in {"ask", "saveEntry"}
          \/ proc[p].at = "ask" /\ proc'[p].at \in {"saveEntry", "clear"}
          \/ proc[p].at = "saveEntry" /\ proc'[p].at = "saveMeta"
          \/ proc[p].at = "clear" /\ proc'[p].at \in {"hooks", "clearEntry", "clearMeta"}
          \/ proc[p].at = "hooks" /\ proc'[p].at = "clearEntry"
          \/ proc[p].at = "clearEntry" /\ proc'[p].at = "clearMeta"
      BY <2>1, <3>1 DEF Move, UnderLock, Clearing
    <3> QED
      BY <3>2 DEF HoldLeft
  <2>3. ~Step(p) => tokenLock' # p \/ proc'[p] = proc[p]
    BY <2>1, FromOutside DEF UnderLock, Clearing
  <2> QED
    BY <2>2, <2>3
<1> QED
  BY <1>1, PlacesInvariant, PTL DEF CredentialsSpec

\* A bus whose user has logged out: from wherever it is, each of its steps brings it
\* nearer to the token provider's look at the store (tokenProvider in event/bus.go) and the end
\* that follows, even one that rotates, saves or clears on the way; and as long as the
\* store is empty nothing sends it back (BusNoticesLogout).
THEOREM BusMovesOnToItsEnd == CredentialsSpec => [][NoticeAdvances]_credVars
<1>1. PlacesInv /\ [CredentialsNext]_credVars => [NoticeAdvances]_credVars
  <2> SUFFICES ASSUME PlacesInv, [CredentialsNext]_credVars, NEW p \in Procs,
                      proc[p].role = "bus", Stored = 0
               PROVE  /\ Step(p) => \/ proc'[p] = Off
                                    \/ NoticeLeft(proc'[p].at) < NoticeLeft(proc[p].at)
                      /\ ~Step(p) => \/ proc'[p] = Off
                                     \/ NoticeLeft(proc'[p].at) <= NoticeLeft(proc[p].at)
    BY DEF NoticeAdvances
  <2>1. proc[p].at \notin {"off", "signedIn", "poll", "request", "hooks"}
    BY DEF PlacesInv, PlaceFits
  <2>2. ASSUME Step(p), proc'[p] # Off
        PROVE  NoticeLeft(proc'[p].at) < NoticeLeft(proc[p].at)
    <3>1. Move("bus", proc[p].at, proc'[p].at)
      BY <2>2, StepMoves
    <3>2. \/ proc[p].at = "check" /\ proc'[p].at = "serve"
          \/ proc[p].at = "serve" /\ proc'[p].at = "refresh"
          \/ proc[p].at = "refresh" /\ proc'[p].at \in {"want", "clear", "reread"}
          \/ proc[p].at = "want" /\ proc'[p].at = "locked"
          \/ proc[p].at = "locked" /\ proc'[p].at \in {"ask", "reread"}
          \/ proc[p].at = "ask" /\ proc'[p].at \in {"saveEntry", "clear"}
          \/ proc[p].at = "saveEntry" /\ proc'[p].at = "saveMeta"
          \/ proc[p].at = "saveMeta" /\ proc'[p].at = "reread"
          \/ proc[p].at = "clear" /\ proc'[p].at \in {"clearEntry", "clearMeta"}
          \/ proc[p].at = "clearEntry" /\ proc'[p].at = "clearMeta"
      BY <2>1, <3>1 DEF Move
    <3> QED
      BY <3>2 DEF NoticeLeft
  <2>3. ASSUME ~Step(p), proc'[p] # Off
        PROVE  NoticeLeft(proc'[p].at) <= NoticeLeft(proc[p].at)
    <3>1. proc'[p] = proc[p] \/ (proc[p].at = "serve" /\ proc'[p].at = "clear")
      BY <2>1, <2>3, FromOutside
    <3>2. \A at : NoticeLeft(at) \in 0..14
      BY DEF NoticeLeft
    <3> QED
      BY <3>1, <3>2 DEF NoticeLeft
  <2> QED
    BY <2>2, <2>3
<1> QED
  BY <1>1, PlacesInvariant, PTL DEF CredentialsSpec

-----------------------------------------------------------------------------
(***************************************************************************)
(* The log directory.  Every handle on a file stands for the lines its     *)
(* holder believes are left; together with the lines in the file they      *)
(* never exceed one limit for each process, because who opens a file gives *)
(* up the handle it had.                                                   *)
(***************************************************************************)

LoggerFields == {"phase", "step", "queue", "hand", "handle", "date", "seq", "written", "sent", "accepted"}

LoggersFormed ==
  DOMAIN logger = Loggers /\ \A l \in Loggers : DOMAIN logger[l] = LoggerFields

LEMMA MergedLogger ==
  ASSUME NEW r, DOMAIN r = LoggerFields, NEW changes, DOMAIN changes \subseteq LoggerFields,
         NEW n, n = Over(changes, r)
  PROVE  /\ DOMAIN n = LoggerFields
         /\ n.phase = IF "phase" \in DOMAIN changes THEN changes["phase"] ELSE r.phase
         /\ n.step = IF "step" \in DOMAIN changes THEN changes["step"] ELSE r.step
         /\ n.queue = IF "queue" \in DOMAIN changes THEN changes["queue"] ELSE r.queue
         /\ n.hand = IF "hand" \in DOMAIN changes THEN changes["hand"] ELSE r.hand
         /\ n.handle = IF "handle" \in DOMAIN changes THEN changes["handle"] ELSE r.handle
         /\ n.date = IF "date" \in DOMAIN changes THEN changes["date"] ELSE r.date
         /\ n.seq = IF "seq" \in DOMAIN changes THEN changes["seq"] ELSE r.seq
         /\ n.accepted = IF "accepted" \in DOMAIN changes THEN changes["accepted"] ELSE r.accepted
         /\ n.written = IF "written" \in DOMAIN changes THEN changes["written"] ELSE r.written
         /\ n.sent = IF "sent" \in DOMAIN changes THEN changes["sent"] ELSE r.sent
BY DEF LoggerFields, Over

\* A step of one logger touches no other.
OthersKeep(l) == LoggersFormed' /\ \A k \in Loggers : k # l => logger'[k] = logger[k]

LEMMA LoggerDoes ==
  ASSUME LoggersFormed, NEW l \in Loggers, NEW changes, LoggerDo(l, changes),
         DOMAIN changes \subseteq LoggerFields
  PROVE  /\ OthersKeep(l)
         /\ logger'[l].phase = IF "phase" \in DOMAIN changes THEN changes["phase"] ELSE logger[l].phase
         /\ logger'[l].step = IF "step" \in DOMAIN changes THEN changes["step"] ELSE logger[l].step
         /\ logger'[l].queue = IF "queue" \in DOMAIN changes THEN changes["queue"] ELSE logger[l].queue
         /\ logger'[l].hand = IF "hand" \in DOMAIN changes THEN changes["hand"] ELSE logger[l].hand
         /\ logger'[l].handle = IF "handle" \in DOMAIN changes THEN changes["handle"] ELSE logger[l].handle
         /\ logger'[l].date = IF "date" \in DOMAIN changes THEN changes["date"] ELSE logger[l].date
         /\ logger'[l].seq = IF "seq" \in DOMAIN changes THEN changes["seq"] ELSE logger[l].seq
         /\ logger'[l].accepted = IF "accepted" \in DOMAIN changes THEN changes["accepted"] ELSE logger[l].accepted
         /\ logger'[l].written = IF "written" \in DOMAIN changes THEN changes["written"] ELSE logger[l].written
         /\ logger'[l].sent = IF "sent" \in DOMAIN changes THEN changes["sent"] ELSE logger[l].sent
<1> DEFINE r == logger[l]
           n == logger'[l]
<1>1. /\ \A k \in Loggers : k # l => logger'[k] = logger[k]
      /\ DOMAIN logger' = Loggers
      /\ n = Over(changes, r) /\ DOMAIN r = LoggerFields
  BY DEF LoggerDo, LoggersFormed
<1> HIDE DEF r, n
<1>2. /\ DOMAIN n = LoggerFields
      /\ n.phase = IF "phase" \in DOMAIN changes THEN changes["phase"] ELSE r.phase
      /\ n.step = IF "step" \in DOMAIN changes THEN changes["step"] ELSE r.step
      /\ n.queue = IF "queue" \in DOMAIN changes THEN changes["queue"] ELSE r.queue
      /\ n.hand = IF "hand" \in DOMAIN changes THEN changes["hand"] ELSE r.hand
      /\ n.handle = IF "handle" \in DOMAIN changes THEN changes["handle"] ELSE r.handle
      /\ n.date = IF "date" \in DOMAIN changes THEN changes["date"] ELSE r.date
      /\ n.seq = IF "seq" \in DOMAIN changes THEN changes["seq"] ELSE r.seq
      /\ n.accepted = IF "accepted" \in DOMAIN changes THEN changes["accepted"] ELSE r.accepted
      /\ n.written = IF "written" \in DOMAIN changes THEN changes["written"] ELSE r.written
      /\ n.sent = IF "sent" \in DOMAIN changes THEN changes["sent"] ELSE r.sent
  BY <1>1, MergedLogger
<1>3. OthersKeep(l)
  BY <1>1, <1>2 DEF OthersKeep, LoggersFormed, n
<1> QED
  BY <1>1, <1>2, <1>3 DEF n, r

LEMMA OffFields ==
  /\ LoggerOff.phase = "off" /\ LoggerOff.step = "take" /\ LoggerOff.queue = <<>> /\ LoggerOff.hand = <<>>
  /\ LoggerOff.handle = NoHandle /\ LoggerOff.date = 0 /\ LoggerOff.seq = 0 /\ LoggerOff.written = 0
  /\ DOMAIN LoggerOff = LoggerFields \ {"sent", "accepted"}
BY DEF LoggerOff, LoggerFields

\* What each step makes of the logger it belongs to.  A line that is sent ends
\* the queue, or is dropped.
LEMMA SendDoes ==
  ASSUME LoggersFormed, NEW l \in Loggers, LogSend(l)
  PROVE  /\ OthersKeep(l) /\ UNCHANGED <<logDay, logFiles, rotateLock>>
         /\ logger[l].phase = "open" /\ logger[l].sent < MaxLines
         /\ logger'[l].phase = logger[l].phase /\ logger'[l].step = logger[l].step
         /\ logger'[l].hand = logger[l].hand /\ logger'[l].handle = logger[l].handle
         /\ logger'[l].date = logger[l].date /\ logger'[l].seq = logger[l].seq
         /\ logger'[l].written = logger[l].written /\ logger'[l].sent = logger[l].sent + 1
         /\ \/ /\ Len(logger[l].queue) < LogQueueCap
               /\ logger'[l].queue = Append(logger[l].queue, <<l, logger[l].sent + 1>>)
               /\ logger'[l].accepted = logger[l].accepted \cup {<<l, logger[l].sent + 1>>}
            \/ /\ logger'[l].queue = logger[l].queue
               /\ logger'[l].accepted = logger[l].accepted
<1> DEFINE me == logger[l]
           line == <<l, me.sent + 1>>
           fits == Len(me.queue) < LogQueueCap
           c == [sent     |-> me.sent + 1,
                 queue    |-> IF fits THEN Append(me.queue, line) ELSE me.queue,
                 accepted |-> IF fits THEN me.accepted \cup {line} ELSE me.accepted]
<1>1. /\ LoggerDo(l, c) /\ me.phase = "open" /\ me.sent < MaxLines
      /\ UNCHANGED <<logDay, logFiles, rotateLock>>
  BY DEF LogSend, LoggerUsable
<1>2. /\ DOMAIN c = {"sent", "queue", "accepted"} /\ c["sent"] = me.sent + 1
      /\ c["queue"] = IF fits THEN Append(me.queue, line) ELSE me.queue
      /\ c["accepted"] = IF fits THEN me.accepted \cup {line} ELSE me.accepted
  OBVIOUS
<1> HIDE DEF c
<1>3. DOMAIN c \subseteq LoggerFields
  BY <1>2 DEF LoggerFields
<1>4. /\ OthersKeep(l)
      /\ logger'[l].phase = me.phase /\ logger'[l].step = me.step /\ logger'[l].hand = me.hand
      /\ logger'[l].handle = me.handle /\ logger'[l].date = me.date /\ logger'[l].seq = me.seq
      /\ logger'[l].written = me.written /\ logger'[l].sent = me.sent + 1
      /\ logger'[l].queue = c["queue"] /\ logger'[l].accepted = c["accepted"]
  BY <1>1, <1>2, <1>3, LoggerDoes
<1> QED
  BY <1>1, <1>2, <1>4

\* The head of the queue is taken; on a new day today's last file is next.
LEMMA TakeDoes ==
  ASSUME LoggersFormed, NEW l \in Loggers, TakeEntry(l)
  PROVE  /\ OthersKeep(l) /\ UNCHANGED <<logDay, logFiles, rotateLock>>
         /\ logger[l].phase # "off" /\ logger[l].step = "take" /\ logger[l].queue # <<>>
         /\ logger'[l].phase = logger[l].phase /\ logger'[l].handle = logger[l].handle
         /\ logger'[l].queue = Tail(logger[l].queue) /\ logger'[l].hand = <<Head(logger[l].queue)>>
         /\ logger'[l].written = logger[l].written /\ logger'[l].sent = logger[l].sent
         /\ logger'[l].accepted = logger[l].accepted /\ logger'[l].date = logDay
         /\ \/ /\ logger[l].date # logDay
               /\ logger'[l].step = "open" /\ logger'[l].seq = FindLastSeq(logDay)
            \/ /\ logger[l].date = logDay /\ logger'[l].seq = logger[l].seq
               /\ logger'[l].step \in {"lock", "write"}
               /\ logger'[l].step = "write" => ~(logger[l].written >= LogLimit)
<1> DEFINE me == logger[l]
           taken == [hand |-> <<Head(me.queue)>>, queue |-> Tail(me.queue)]
           rotates == [step |-> "open", date |-> logDay, seq |-> FindLastSeq(logDay)]
           goesOn == [step |-> IF me.written >= LogLimit THEN "lock" ELSE "write"]
           next == IF me.date # logDay THEN rotates ELSE goesOn
           c == Over(next, taken)
<1>1. /\ LoggerDo(l, c) /\ me.phase # "off" /\ me.step = "take" /\ me.queue # <<>>
      /\ UNCHANGED <<logDay, logFiles, rotateLock>>
  BY DEF TakeEntry, WriterAt
<1>2. /\ DOMAIN taken = {"hand", "queue"}
      /\ taken["hand"] = <<Head(me.queue)>> /\ taken["queue"] = Tail(me.queue)
      /\ DOMAIN rotates = {"step", "date", "seq"}
      /\ rotates["step"] = "open" /\ rotates["date"] = logDay
      /\ rotates["seq"] = FindLastSeq(logDay)
      /\ DOMAIN goesOn = {"step"}
      /\ goesOn["step"] = IF me.written >= LogLimit THEN "lock" ELSE "write"
  OBVIOUS
<1> HIDE DEF taken, rotates, goesOn
<1>3. next = IF me.date # logDay THEN rotates ELSE goesOn
  OBVIOUS
<1> HIDE DEF next
<1>4. /\ DOMAIN c = DOMAIN next \cup {"hand", "queue"}
      /\ c["hand"] = taken["hand"] /\ c["queue"] = taken["queue"]
      /\ c["step"] = next["step"]
      /\ me.date # logDay => c["date"] = logDay /\ c["seq"] = FindLastSeq(logDay)
  BY <1>2, <1>3 DEF Over
<1>5. /\ DOMAIN c \subseteq LoggerFields
      /\ {"phase", "handle", "written", "sent", "accepted"} \intersect DOMAIN c = {}
      /\ {"step", "hand", "queue"} \subseteq DOMAIN c
      /\ "date" \in DOMAIN c <=> me.date # logDay
      /\ "seq" \in DOMAIN c <=> me.date # logDay
  BY <1>2, <1>3, <1>4 DEF LoggerFields
<1> HIDE DEF c
<1>6. /\ OthersKeep(l)
      /\ logger'[l].phase = me.phase /\ logger'[l].step = next["step"]
      /\ logger'[l].queue = Tail(me.queue) /\ logger'[l].hand = <<Head(me.queue)>>
      /\ logger'[l].handle = me.handle /\ logger'[l].date = logDay
      /\ logger'[l].seq = IF me.date # logDay THEN FindLastSeq(logDay) ELSE me.seq
      /\ logger'[l].accepted = me.accepted
      /\ logger'[l].written = me.written /\ logger'[l].sent = me.sent
  BY <1>1, <1>2, <1>4, <1>5, LoggerDoes
<1> QED
  BY <1>1, <1>2, <1>3, <1>6

LEMMA LockDoes ==
  ASSUME LoggersFormed, NEW l \in Loggers, LockAndScan(l)
  PROVE  /\ OthersKeep(l) /\ UNCHANGED <<logDay, logFiles>> /\ rotateLock' = l
         /\ logger[l].phase # "off" /\ logger[l].step = "lock"
         /\ logger'[l].phase = logger[l].phase /\ logger'[l].step = "open"
         /\ logger'[l].queue = logger[l].queue /\ logger'[l].hand = logger[l].hand
         /\ logger'[l].handle = logger[l].handle /\ logger'[l].date = logger[l].date
         /\ logger'[l].seq = FindLastSeq(logger[l].date)
         /\ logger'[l].accepted = logger[l].accepted
         /\ logger'[l].written = logger[l].written /\ logger'[l].sent = logger[l].sent
<1> DEFINE c == [step |-> "open", seq |-> FindLastSeq(logger[l].date)]
<1>1. /\ LoggerDo(l, c) /\ logger[l].phase # "off" /\ logger[l].step = "lock"
      /\ UNCHANGED <<logDay, logFiles>> /\ rotateLock' = l
  BY DEF LockAndScan, WriterAt
<1>2. /\ DOMAIN c = {"step", "seq"} /\ c["step"] = "open"
      /\ c["seq"] = FindLastSeq(logger[l].date)
  OBVIOUS
<1> HIDE DEF c
<1>3. DOMAIN c \subseteq LoggerFields
  BY <1>2 DEF LoggerFields
<1> QED
  BY <1>1, <1>2, <1>3, LoggerDoes

LosesLine(l) ==
  \/ RotateLockFails(l)
  \/ OpenLogFails(l) /\ logger[l].phase # "new"
  \/ WriteLine(l) /\ logger[l].handle \notin DOMAIN logFiles

\* A line in the hand is given up.
LEMMA LosesDoes ==
  ASSUME LoggersFormed, NEW l \in Loggers, LosesLine(l)
  PROVE  /\ OthersKeep(l) /\ UNCHANGED <<logDay, logFiles>>
         /\ rotateLock' = rotateLock \/ UnlockRotation(l)
         /\ OpenLogFails(l) => UnlockRotation(l)
         /\ RotateLockFails(l) \/ WriteLine(l) => UNCHANGED rotateLock
         /\ logger[l].phase # "off" /\ logger[l].step # "take"
         /\ OpenLogFails(l) <=> logger[l].step = "open"
         /\ logger'[l].phase = logger[l].phase /\ logger'[l].step = "take"
         /\ logger'[l].queue = logger[l].queue /\ logger'[l].hand = <<>>
         /\ logger'[l].handle \in {NoHandle, logger[l].handle}
         /\ logger[l].step = "open" => logger'[l].handle = NoHandle
         /\ logger'[l].date = logger[l].date /\ logger'[l].seq = logger[l].seq
         /\ logger'[l].accepted = logger[l].accepted \ Range(logger[l].hand)
         /\ logger'[l].written = logger[l].written /\ logger'[l].sent = logger[l].sent
<1> DEFINE c == [step |-> "take", hand |-> <<>>, accepted |-> Discarded(l)]
           d == [step |-> "take", handle |-> NoHandle, hand |-> <<>>, accepted |-> Discarded(l)]
<1>1. /\ UNCHANGED <<logDay, logFiles>>
      /\ logger[l].phase # "off" /\ logger[l].step # "take"
      /\ OpenLogFails(l) <=> logger[l].step = "open"
      /\ OpenLogFails(l) => UnlockRotation(l)
      /\ RotateLockFails(l) \/ WriteLine(l) => UNCHANGED rotateLock
      /\ IF OpenLogFails(l) THEN LoggerDo(l, d) ELSE LoggerDo(l, c)
  BY DEF LosesLine, RotateLockFails, OpenLogFails, WriteLine, WriterAt
<1>2. Discarded(l) = logger[l].accepted \ Range(logger[l].hand)
  BY DEF Discarded
<1>3. ASSUME NEW e, LoggerDo(l, e), DOMAIN e \in {{"step", "hand", "accepted"}, {"step", "handle", "hand", "accepted"}},
             e["step"] = "take", e["hand"] = <<>>, e["accepted"] = Discarded(l),
             IF OpenLogFails(l) THEN "handle" \in DOMAIN e /\ e["handle"] = NoHandle
                                ELSE "handle" \notin DOMAIN e
      PROVE  /\ OthersKeep(l)
             /\ logger'[l].phase = logger[l].phase /\ logger'[l].step = "take"
             /\ logger'[l].queue = logger[l].queue /\ logger'[l].hand = <<>>
             /\ logger'[l].handle = IF OpenLogFails(l) THEN NoHandle ELSE logger[l].handle
             /\ logger'[l].date = logger[l].date /\ logger'[l].seq = logger[l].seq
             /\ logger'[l].accepted = Discarded(l)
             /\ logger'[l].written = logger[l].written /\ logger'[l].sent = logger[l].sent
  <2>1. /\ DOMAIN e \subseteq LoggerFields
        /\ {"phase", "queue", "date", "seq", "written", "sent"} \intersect DOMAIN e = {}
        /\ {"step", "hand", "accepted"} \subseteq DOMAIN e
    BY <1>3 DEF LoggerFields
  <2> QED
    BY <1>3, <2>1, LoggerDoes
<1>4. /\ DOMAIN c = {"step", "hand", "accepted"} /\ c["step"] = "take" /\ c["hand"] = <<>>
      /\ c["accepted"] = Discarded(l)
      /\ DOMAIN d = {"step", "handle", "hand", "accepted"} /\ d["step"] = "take" /\ d["hand"] = <<>>
      /\ d["accepted"] = Discarded(l) /\ d["handle"] = NoHandle
  OBVIOUS
<1> HIDE DEF c, d
<1>5. /\ OthersKeep(l)
      /\ logger'[l].phase = logger[l].phase /\ logger'[l].step = "take"
      /\ logger'[l].queue = logger[l].queue /\ logger'[l].hand = <<>>
      /\ logger'[l].handle = IF OpenLogFails(l) THEN NoHandle ELSE logger[l].handle
      /\ logger'[l].date = logger[l].date /\ logger'[l].seq = logger[l].seq
      /\ logger'[l].accepted = Discarded(l)
      /\ logger'[l].written = logger[l].written /\ logger'[l].sent = logger[l].sent
  <2>1. CASE OpenLogFails(l)
    BY <1>1, <1>3, <1>4, <2>1
  <2>2. CASE ~OpenLogFails(l)
    BY <1>1, <1>3, <1>4, <2>2
  <2> QED
    BY <2>1, <2>2
<1> QED
  BY <1>1, <1>2, <1>5 DEF LosesLine

LEMMA CloseDoes ==
  ASSUME LoggersFormed, NEW l \in Loggers, CloseLogger(l)
  PROVE  /\ OthersKeep(l) /\ UNCHANGED <<logDay, logFiles, rotateLock>>
         /\ logger[l].phase = "open" /\ logger'[l].phase = "closing"
         /\ logger'[l].step = logger[l].step
         /\ logger'[l].queue = logger[l].queue /\ logger'[l].hand = logger[l].hand
         /\ logger'[l].handle = logger[l].handle /\ logger'[l].date = logger[l].date
         /\ logger'[l].seq = logger[l].seq /\ logger'[l].accepted = logger[l].accepted
         /\ logger'[l].written = logger[l].written /\ logger'[l].sent = logger[l].sent
<1> DEFINE c == [phase |-> "closing"]
<1>1. /\ LoggerDo(l, c) /\ logger[l].phase = "open" /\ UNCHANGED <<logDay, logFiles, rotateLock>>
  BY DEF CloseLogger, LoggerUsable
<1>2. DOMAIN c = {"phase"} /\ c["phase"] = "closing"
  OBVIOUS
<1> HIDE DEF c
<1>3. DOMAIN c \subseteq LoggerFields
  BY <1>2 DEF LoggerFields
<1> QED
  BY <1>1, <1>2, <1>3, LoggerDoes

EndsLogger(l) ==
  \/ OpenLogFails(l) /\ logger[l].phase = "new"
  \/ CloseReturns(l)
  \/ LoggerDies(l)

\* A logger ends; one that dies takes what waits with it.
LEMMA EndsDoes ==
  ASSUME LoggersFormed, NEW l \in Loggers, EndsLogger(l)
  PROVE  /\ OthersKeep(l) /\ UNCHANGED <<logDay, logFiles>>
         /\ OpenLogFails(l) \/ LoggerDies(l) => UnlockRotation(l)
         /\ CloseReturns(l) => UNCHANGED rotateLock /\ logger[l].step = "take"
         /\ logger'[l].phase = "off" /\ logger'[l].step = "take"
         /\ logger'[l].queue = <<>> /\ logger'[l].hand = <<>>
         /\ logger'[l].handle = NoHandle /\ logger'[l].date = 0
         /\ logger'[l].seq = 0 /\ logger'[l].written = 0 /\ logger'[l].sent = logger[l].sent
         /\ \/ /\ logger[l].phase = "new" \/ (logger[l].step = "take" /\ logger[l].queue = <<>>)
               /\ logger'[l].accepted = logger[l].accepted
            \/ logger'[l].accepted =
                 logger[l].accepted \ (Range(logger[l].hand) \cup Range(logger[l].queue))
<1> DEFINE rest == logger[l].accepted \ (Range(logger[l].hand) \cup Range(logger[l].queue))
           a == [accepted |-> rest]
           c == Over(LoggerOff, a)
<1>1. /\ UNCHANGED <<logDay, logFiles>>
      /\ OpenLogFails(l) \/ LoggerDies(l) => UnlockRotation(l)
      /\ CloseReturns(l) => UNCHANGED rotateLock /\ logger[l].step = "take"
      /\ IF LoggerDies(l) THEN LoggerDo(l, c)
         ELSE /\ LoggerDo(l, LoggerOff)
              /\ logger[l].phase = "new" \/ (logger[l].step = "take" /\ logger[l].queue = <<>>)
  <2>1. LoggerDies(l) => LoggerDo(l, c) /\ UNCHANGED <<logDay, logFiles>> /\ UnlockRotation(l)
    BY DEF LoggerDies
  <2>2. CloseReturns(l) => /\ LoggerDo(l, LoggerOff) /\ UNCHANGED <<logDay, logFiles, rotateLock>>
                           /\ logger[l].step = "take" /\ logger[l].queue = <<>>
    BY DEF CloseReturns, WriterAt
  <2>3. OpenLogFails(l) => UNCHANGED <<logDay, logFiles>> /\ UnlockRotation(l)
    BY DEF OpenLogFails
  <2>4. OpenLogFails(l) /\ logger[l].phase = "new" => LoggerDo(l, LoggerOff)
    BY DEF OpenLogFails
  <2> HIDE DEF c
  <2> QED
    BY <2>1, <2>2, <2>3, <2>4 DEF EndsLogger
<1>2. DOMAIN a = {"accepted"} /\ a["accepted"] = rest
  OBVIOUS
<1> HIDE DEF a
<1>3. /\ DOMAIN c = LoggerFields \ {"sent"}
      /\ c["phase"] = "off" /\ c["step"] = "take" /\ c["queue"] = <<>> /\ c["hand"] = <<>>
      /\ c["handle"] = NoHandle /\ c["date"] = 0 /\ c["seq"] = 0 /\ c["written"] = 0
      /\ c["accepted"] = rest
  BY <1>2, OffFields DEF Over, LoggerFields
<1> HIDE DEF c, rest
<1>4. ASSUME NEW e, LoggerDo(l, e),
             LoggerFields \ {"sent", "accepted"} \subseteq DOMAIN e, DOMAIN e \subseteq LoggerFields \ {"sent"},
             e["phase"] = "off", e["step"] = "take", e["queue"] = <<>>, e["hand"] = <<>>,
             e["handle"] = NoHandle, e["date"] = 0, e["seq"] = 0, e["written"] = 0
      PROVE  /\ OthersKeep(l)
             /\ logger'[l].phase = "off" /\ logger'[l].step = "take"
             /\ logger'[l].queue = <<>> /\ logger'[l].hand = <<>>
             /\ logger'[l].handle = NoHandle /\ logger'[l].date = 0
             /\ logger'[l].seq = 0 /\ logger'[l].written = 0 /\ logger'[l].sent = logger[l].sent
             /\ logger'[l].accepted = IF "accepted" \in DOMAIN e THEN e["accepted"] ELSE logger[l].accepted
  <2>1. /\ {"phase", "step", "queue", "hand", "handle", "date", "seq", "written"} \subseteq DOMAIN e
        /\ "sent" \notin DOMAIN e /\ DOMAIN e \subseteq LoggerFields
    BY <1>4 DEF LoggerFields
  <2> QED
    BY <1>4, <2>1, LoggerDoes
<1>5. CASE LoggerDies(l)
  <2>1. "accepted" \in DOMAIN c
    BY <1>3 DEF LoggerFields
  <2> QED
    BY <1>1, <1>3, <1>4, <1>5, <2>1 DEF rest
<1>6. CASE ~LoggerDies(l)
  <2>1. "accepted" \notin DOMAIN LoggerOff
    BY OffFields
  <2> QED
    BY <1>1, <1>4, <1>6, <2>1, OffFields
<1> QED
  BY <1>5, <1>6

LinesIn(f) == IF f \in DOMAIN logFiles THEN logFiles[f] ELSE <<>>

\* A full file is passed by, another one is opened with the size it has.
LEMMA OpenDoes ==
  ASSUME LoggersFormed, NEW l \in Loggers, OpenLogFile(l),
         NEW opened, opened = <<logger[l].date, logger[l].seq>>
  PROVE  /\ OthersKeep(l) /\ UNCHANGED logDay
         /\ logger[l].phase # "off" /\ logger[l].step = "open"
         /\ DOMAIN logFiles' = DOMAIN logFiles \cup {opened}
         /\ logFiles'[opened] = LinesIn(opened)
         /\ \A f \in DOMAIN logFiles : logFiles'[f] = logFiles[f]
         /\ logger'[l].queue = logger[l].queue /\ logger'[l].hand = logger[l].hand
         /\ logger'[l].date = logger[l].date /\ logger'[l].sent = logger[l].sent
         /\ logger'[l].accepted = logger[l].accepted
         /\ \/ /\ Len(LinesIn(opened)) >= LogLimit /\ UNCHANGED rotateLock
               /\ logger'[l].phase = logger[l].phase /\ logger'[l].step = "open"
               /\ logger'[l].handle = NoHandle /\ logger'[l].seq = logger[l].seq + 1
               /\ logger'[l].written = logger[l].written
            \/ /\ ~(Len(LinesIn(opened)) >= LogLimit) /\ UnlockRotation(l)
               /\ \/ /\ logger[l].phase = "new"
                     /\ logger'[l].phase = "open" /\ logger'[l].step = "take"
                  \/ /\ logger[l].phase # "new"
                     /\ logger'[l].phase = logger[l].phase /\ logger'[l].step = "write"
               /\ logger'[l].handle = opened /\ logger'[l].seq = logger[l].seq
               /\ logger'[l].written = Len(LinesIn(opened))
<1> DEFINE me == logger[l]
           c == [seq |-> me.seq + 1, handle |-> NoHandle]
           d == [phase |-> IF me.phase = "new" THEN "open" ELSE me.phase,
                 step |-> IF me.phase = "new" THEN "take" ELSE "write",
                 handle |-> opened, written |-> Len(LinesIn(opened))]
<1>1. /\ UNCHANGED logDay
      /\ me.phase # "off" /\ me.step = "open"
      /\ logFiles' = Over([g \in {opened} |-> LinesIn(opened)], logFiles)
      /\ IF Len(LinesIn(opened)) >= LogLimit THEN LoggerDo(l, c) /\ UNCHANGED rotateLock
                                             ELSE LoggerDo(l, d) /\ UnlockRotation(l)
  BY DEF OpenLogFile, WriterAt, LinesIn
<1>2. /\ DOMAIN logFiles' = DOMAIN logFiles \cup {opened}
      /\ logFiles'[opened] = LinesIn(opened)
      /\ \A f \in DOMAIN logFiles : logFiles'[f] = logFiles[f]
  BY <1>1 DEF Over, LinesIn
<1>3. /\ DOMAIN c = {"seq", "handle"} /\ c["seq"] = me.seq + 1 /\ c["handle"] = NoHandle
      /\ DOMAIN d = {"phase", "step", "handle", "written"}
      /\ d["phase"] = IF me.phase = "new" THEN "open" ELSE me.phase
      /\ d["step"] = IF me.phase = "new" THEN "take" ELSE "write"
      /\ d["handle"] = opened /\ d["written"] = Len(LinesIn(opened))
  OBVIOUS
<1> HIDE DEF c, d
<1>4. DOMAIN c \subseteq LoggerFields /\ DOMAIN d \subseteq LoggerFields
  BY <1>3 DEF LoggerFields
<1>5. CASE Len(LinesIn(opened)) >= LogLimit
  <2>1. LoggerDo(l, c) /\ UNCHANGED rotateLock
    BY <1>1, <1>5
  <2>2. /\ OthersKeep(l)
        /\ logger'[l].queue = me.queue /\ logger'[l].hand = me.hand
        /\ logger'[l].date = me.date /\ logger'[l].sent = me.sent /\ logger'[l].accepted = me.accepted
        /\ logger'[l].phase = me.phase /\ logger'[l].step = me.step
        /\ logger'[l].handle = NoHandle /\ logger'[l].seq = me.seq + 1
        /\ logger'[l].written = me.written
    BY <1>3, <1>4, <2>1, LoggerDoes
  <2> QED
    BY <1>1, <1>2, <1>5, <2>1, <2>2
<1>6. CASE ~(Len(LinesIn(opened)) >= LogLimit)
  <2>1. LoggerDo(l, d) /\ UnlockRotation(l)
    BY <1>1, <1>6
  <2>2. /\ OthersKeep(l)
        /\ logger'[l].queue = me.queue /\ logger'[l].hand = me.hand
        /\ logger'[l].date = me.date /\ logger'[l].sent = me.sent /\ logger'[l].accepted = me.accepted
        /\ logger'[l].phase = d["phase"] /\ logger'[l].step = d["step"]
        /\ logger'[l].handle = opened /\ logger'[l].seq = me.seq
        /\ logger'[l].written = Len(LinesIn(opened))
    BY <1>3, <1>4, <2>1, LoggerDoes
  <2> QED
    BY <1>1, <1>2, <1>3, <1>6, <2>1, <2>2
<1> QED
  BY <1>5, <1>6

\* The line in the hand is appended.
LEMMA WriteDoes ==
  ASSUME LoggersFormed, NEW l \in Loggers, WriteLine(l), logger[l].handle \in DOMAIN logFiles
  PROVE  /\ OthersKeep(l) /\ UNCHANGED <<logDay, rotateLock>>
         /\ logger[l].phase # "off" /\ logger[l].step = "write"
         /\ logFiles' = [logFiles EXCEPT ![logger[l].handle] = @ \o logger[l].hand]
         /\ logger'[l].phase = logger[l].phase /\ logger'[l].step = "take"
         /\ logger'[l].queue = logger[l].queue /\ logger'[l].hand = <<>>
         /\ logger'[l].handle = logger[l].handle /\ logger'[l].date = logger[l].date
         /\ logger'[l].seq = logger[l].seq /\ logger'[l].accepted = logger[l].accepted
         /\ logger'[l].written = logger[l].written + 1 /\ logger'[l].sent = logger[l].sent
<1> DEFINE c == [step |-> "take", hand |-> <<>>, written |-> logger[l].written + 1]
<1>1. /\ LoggerDo(l, c) /\ logger[l].phase # "off" /\ logger[l].step = "write"
      /\ logFiles' = [logFiles EXCEPT ![logger[l].handle] = @ \o logger[l].hand]
      /\ UNCHANGED <<logDay, rotateLock>>
  BY DEF WriteLine, WriterAt
<1>2. /\ DOMAIN c = {"step", "hand", "written"} /\ c["step"] = "take" /\ c["hand"] = <<>>
      /\ c["written"] = logger[l].written + 1
  OBVIOUS
<1> HIDE DEF c
<1>3. DOMAIN c \subseteq LoggerFields
  BY <1>2 DEF LoggerFields
<1> QED
  BY <1>1, <1>2, <1>3, LoggerDoes

\* Old days are removed with their lines; the logger that starts looks for
\* today's last file.
LEMMA NewDoes ==
  ASSUME LoggersFormed, NEW l \in Loggers, NewLogger(l)
  PROVE  /\ LoggersFormed' /\ UNCHANGED <<logDay, rotateLock>>
         /\ logger[l].phase = "off"
         /\ \E edge \in BOOLEAN :
              /\ logFiles' = [f \in DOMAIN logFiles \ LogCleanup(edge) |-> logFiles[f]]
              /\ \A k \in Loggers :
                   /\ logger'[k].queue = logger[k].queue /\ logger'[k].hand = logger[k].hand
                   /\ logger'[k].handle = logger[k].handle
                   /\ logger'[k].written = logger[k].written /\ logger'[k].sent = logger[k].sent
                   /\ logger'[k].accepted =
                        logger[k].accepted \ UNION {Range(logFiles[f]) : f \in LogCleanup(edge)}
                   /\ \/ /\ k # l
                         /\ logger'[k].phase = logger[k].phase /\ logger'[k].step = logger[k].step
                         /\ logger'[k].date = logger[k].date /\ logger'[k].seq = logger[k].seq
                      \/ /\ k = l
                         /\ logger'[k].phase = "new" /\ logger'[k].step = "open"
                         /\ logger'[k].date = logDay /\ logger'[k].seq = FindLastSeq(logDay)
<1> DEFINE left(gone, k) == [accepted |-> logger[k].accepted \ gone]
           starts == [phase |-> "new", step |-> "open", date |-> logDay, seq |-> FindLastSeq(logDay)]
           change(gone, k) == IF k = l THEN Over(starts, left(gone, k)) ELSE left(gone, k)
<1>1. /\ logger[l].phase = "off" /\ UNCHANGED <<logDay, rotateLock>>
      /\ \E edge \in BOOLEAN :
           /\ logFiles' = [f \in DOMAIN logFiles \ LogCleanup(edge) |-> logFiles[f]]
           /\ \E gone : /\ gone = UNION {Range(logFiles[f]) : f \in LogCleanup(edge)}
                        /\ logger' = [k \in Loggers |-> Over(change(gone, k), logger[k])]
  BY DEF NewLogger
<1>2. PICK edge \in BOOLEAN :
        /\ logFiles' = [f \in DOMAIN logFiles \ LogCleanup(edge) |-> logFiles[f]]
        /\ \E gone : /\ gone = UNION {Range(logFiles[f]) : f \in LogCleanup(edge)}
                     /\ logger' = [k \in Loggers |-> Over(change(gone, k), logger[k])]
  BY <1>1
<1>3. PICK gone : /\ gone = UNION {Range(logFiles[f]) : f \in LogCleanup(edge)}
                  /\ logger' = [k \in Loggers |-> Over(change(gone, k), logger[k])]
  BY <1>2
<1>4. ASSUME NEW k \in Loggers
      PROVE  /\ DOMAIN change(gone, k) = IF k = l THEN {"phase", "step", "date", "seq", "accepted"}
                                                  ELSE {"accepted"}
             /\ change(gone, k)["accepted"] = logger[k].accepted \ gone
             /\ k = l => /\ change(gone, k)["phase"] = "new" /\ change(gone, k)["step"] = "open"
                         /\ change(gone, k)["date"] = logDay
                         /\ change(gone, k)["seq"] = FindLastSeq(logDay)
  <2>1. DOMAIN left(gone, k) = {"accepted"} /\ left(gone, k)["accepted"] = logger[k].accepted \ gone
    OBVIOUS
  <2>2. /\ DOMAIN starts = {"phase", "step", "date", "seq"}
        /\ starts["phase"] = "new" /\ starts["step"] = "open" /\ starts["date"] = logDay
        /\ starts["seq"] = FindLastSeq(logDay)
    OBVIOUS
  <2> HIDE DEF left, starts
  <2>3. CASE k # l
    <3>1. change(gone, k) = left(gone, k)
      BY <2>3
    <3> HIDE DEF change
    <3> QED
      BY <2>1, <2>3, <3>1
  <2>4. CASE k = l
    <3>1. change(gone, k) = Over(starts, left(gone, k))
      BY <2>4
    <3> HIDE DEF change
    <3> QED
      BY <2>1, <2>2, <2>4, <3>1 DEF Over
  <2> QED
    BY <2>3, <2>4
<1> HIDE DEF change
<1>5. ASSUME NEW k \in Loggers
      PROVE  /\ DOMAIN logger'[k] = LoggerFields
             /\ logger'[k].queue = logger[k].queue /\ logger'[k].hand = logger[k].hand
             /\ logger'[k].handle = logger[k].handle
             /\ logger'[k].written = logger[k].written /\ logger'[k].sent = logger[k].sent
             /\ logger'[k].accepted = logger[k].accepted \ gone
             /\ \/ /\ k # l
                   /\ logger'[k].phase = logger[k].phase /\ logger'[k].step = logger[k].step
                   /\ logger'[k].date = logger[k].date /\ logger'[k].seq = logger[k].seq
                \/ /\ k = l
                   /\ logger'[k].phase = "new" /\ logger'[k].step = "open"
                   /\ logger'[k].date = logDay /\ logger'[k].seq = FindLastSeq(logDay)
  <2> DEFINE r == logger[k]
             c == change(gone, k)
             n == logger'[k]
  <2>1. n = Over(c, r) /\ DOMAIN r = LoggerFields
    BY <1>3 DEF LoggersFormed
  <2>2. /\ DOMAIN c = IF k = l THEN {"phase", "step", "date", "seq", "accepted"} ELSE {"accepted"}
        /\ c["accepted"] = r.accepted \ gone
        /\ k = l => /\ c["phase"] = "new" /\ c["step"] = "open" /\ c["date"] = logDay
                    /\ c["seq"] = FindLastSeq(logDay)
    BY <1>4
  <2> HIDE DEF r, c, n
  <2>3. DOMAIN c \subseteq LoggerFields
    BY <2>2 DEF LoggerFields
  <2>4. /\ DOMAIN n = LoggerFields
        /\ n.phase = IF "phase" \in DOMAIN c THEN c["phase"] ELSE r.phase
        /\ n.step = IF "step" \in DOMAIN c THEN c["step"] ELSE r.step
        /\ n.queue = IF "queue" \in DOMAIN c THEN c["queue"] ELSE r.queue
        /\ n.hand = IF "hand" \in DOMAIN c THEN c["hand"] ELSE r.hand
        /\ n.handle = IF "handle" \in DOMAIN c THEN c["handle"] ELSE r.handle
        /\ n.date = IF "date" \in DOMAIN c THEN c["date"] ELSE r.date
        /\ n.seq = IF "seq" \in DOMAIN c THEN c["seq"] ELSE r.seq
        /\ n.accepted = IF "accepted" \in DOMAIN c THEN c["accepted"] ELSE r.accepted
        /\ n.written = IF "written" \in DOMAIN c THEN c["written"] ELSE r.written
        /\ n.sent = IF "sent" \in DOMAIN c THEN c["sent"] ELSE r.sent
    BY <2>1, <2>3, MergedLogger
  <2> QED
    BY <2>2, <2>4 DEF r, n
<1>6. LoggersFormed'
  BY <1>3, <1>5 DEF LoggersFormed
<1> QED
  BY ZenonT(60), <1>1, <1>2, <1>3, <1>5, <1>6

LEMMA InitLogger ==
  ASSUME LogInit, NEW l \in Loggers
  PROVE  /\ LoggersFormed
         /\ logger[l].phase = "off" /\ logger[l].step = "take"
         /\ logger[l].queue = <<>> /\ logger[l].hand = <<>>
         /\ logger[l].handle = NoHandle /\ logger[l].date = 0 /\ logger[l].seq = 0
         /\ logger[l].written = 0 /\ logger[l].sent = 0 /\ logger[l].accepted = {}
<1> DEFINE counts == [sent |-> 0, accepted |-> {}]
           r == Over(LoggerOff, counts)
<1>1. r = [x \in DOMAIN LoggerOff \cup DOMAIN counts |->
             IF x \in DOMAIN LoggerOff THEN LoggerOff[x] ELSE counts[x]]
  BY DEF Over
<1>2. logger = [k \in Loggers |-> r]
  BY DEF LogInit
<1>3. DOMAIN counts = {"sent", "accepted"} /\ counts["sent"] = 0
      /\ counts["accepted"] = {}
  OBVIOUS
<1> HIDE DEF counts, r
<1>4. DOMAIN r = LoggerFields
  BY <1>1, <1>3, OffFields DEF LoggerFields
<1>5. /\ r.phase = "off" /\ r.step = "take" /\ r.queue = <<>> /\ r.hand = <<>>
      /\ r.handle = NoHandle /\ r.date = 0 /\ r.seq = 0 /\ r.written = 0 /\ r.sent = 0
      /\ r.accepted = {}
  BY <1>1, <1>3, OffFields DEF LoggerFields
<1> QED
  BY <1>2, <1>4, <1>5 DEF LoggersFormed

\* A step other than that of a logger's own reads the same of it.
SameLogger(k) ==
  /\ logger'[k].phase = logger[k].phase /\ logger'[k].step = logger[k].step
  /\ logger'[k].queue = logger[k].queue /\ logger'[k].hand = logger[k].hand
  /\ logger'[k].handle = logger[k].handle /\ logger'[k].date = logger[k].date
  /\ logger'[k].written = logger[k].written /\ logger'[k].sent = logger[k].sent

LoggerInv(l) ==
  /\ logger[l].phase \in {"off", "new", "open", "closing"}
  /\ logger[l].step \in {"take", "lock", "open", "write"}
  /\ logger[l].queue \in Seq(LogLines) /\ Len(logger[l].queue) <= LogQueueCap
  /\ logger[l].hand \in Seq(LogLines) /\ Len(logger[l].hand) <= 1
  /\ logger[l].sent \in Nat
  /\ logger[l].date \in 0..LastDay
  /\ logger[l].written \in Nat
  /\ logger[l].phase # "off" => logger[l].date # 0
  /\ logger[l].step = "write" => logger[l].written < LogLimit
  /\ logger[l].phase = "off" => logger[l].handle = NoHandle
  /\ rotateLock = l => WriterAt(l, "open")

\* The lines that those who have the file open may still add to it.
Room(f) ==
  {e \in Loggers \X (1..LogLimit) :
     logger[e[1]].handle = f /\ e[2] > logger[e[1]].written}

Budget == Cardinality(Loggers) * LogLimit

FilesInv ==
  \A f \in DOMAIN logFiles :
    /\ f[1] \in 1..LastDay
    /\ logFiles[f] \in Seq(LogLines)
    /\ Len(logFiles[f]) + Cardinality(Room(f)) <= Budget

LogInv ==
  /\ logDay \in 1..LastDay
  /\ rotateLock \in Loggers \cup {NoLogger}
  /\ LoggersFormed /\ \A l \in Loggers : LoggerInv(l)
  /\ FilesInv

LEMMA LogConstants ==
  /\ LogLimit \in Nat \ {0} /\ LogQueueCap \in Nat \ {0} /\ RetainDays \in Nat \ {0}
  /\ LastDay \in Nat \ {0} /\ MaxLines \in Nat
  /\ IsFiniteSet(Loggers) /\ NoLogger \notin Loggers
  /\ Cardinality(Loggers) \in Nat /\ Budget \in Nat
<1>1. Cardinality(Loggers) \in Nat
  BY LogAssumption, FS_CardinalityType
<1>2. \A a, b \in Nat : a * b \in Nat
  OBVIOUS
<1> QED
  BY <1>1, <1>2, LogAssumption DEF Budget

\* Sets of places in a file.
LEMMA LogPlacesFit ==
  ASSUME NEW S \in SUBSET (Loggers \X (1..LogLimit))
  PROVE  IsFiniteSet(S) /\ Cardinality(S) \in Nat /\ Cardinality(S) <= Budget
<1>1. /\ IsFiniteSet(1..LogLimit) /\ Cardinality(1..LogLimit) = LogLimit
  BY LogConstants, FS_Interval
<1>2. /\ IsFiniteSet(Loggers \X (1..LogLimit))
      /\ Cardinality(Loggers \X (1..LogLimit)) = Budget
  BY <1>1, LogConstants, FS_Product DEF Budget
<1> DEFINE P == Loggers \X (1..LogLimit)
<1>3. IsFiniteSet(P) /\ Cardinality(P) = Budget /\ S \in SUBSET P
  BY <1>2
<1> HIDE DEF P
<1>4. IsFiniteSet(S) /\ Cardinality(S) <= Cardinality(P)
  BY <1>3, FS_Subset
<1>5. Cardinality(S) \in Nat
  BY <1>4, FS_CardinalityType
<1> QED
  BY <1>3, <1>4, <1>5

LEMMA RoomFits ==
  ASSUME NEW f
  PROVE  IsFiniteSet(Room(f)) /\ Cardinality(Room(f)) \in Nat /\ Cardinality(Room(f)) <= Budget
<1> DEFINE S == Room(f)
<1>1. S \in SUBSET (Loggers \X (1..LogLimit))
  BY DEF Room
<1> HIDE DEF S
<1>2. IsFiniteSet(S) /\ Cardinality(S) \in Nat /\ Cardinality(S) <= Budget
  BY <1>1, LogPlacesFit
<1> QED
  BY <1>2 DEF S

\* Who opens a file with n lines has the rest of one limit, the others have at
\* most a limit each.
LEMMA OpenersFit ==
  ASSUME NEW l \in Loggers, NEW n \in Nat, n < LogLimit,
         NEW S \in SUBSET (Loggers \X (1..LogLimit)),
         \A e \in S : e[1] = l => e[2] > n
  PROVE  n + Cardinality(S) <= Budget
<1> DEFINE Others == Loggers \ {l}
           A == Others \X (1..LogLimit)
           B == {l} \X ((n + 1)..LogLimit)
<1>1. IsFiniteSet(Others) /\ Cardinality(Others) = Cardinality(Loggers) - 1
  BY LogConstants, FS_RemoveElement
<1>2. /\ IsFiniteSet(1..LogLimit) /\ Cardinality(1..LogLimit) = LogLimit
      /\ IsFiniteSet((n + 1)..LogLimit) /\ Cardinality((n + 1)..LogLimit) = LogLimit - n
  BY LogConstants, FS_Interval
<1>3. IsFiniteSet({l}) /\ Cardinality({l}) = 1
  BY FS_Singleton
<1>4. IsFiniteSet(A) /\ Cardinality(A) = (Cardinality(Loggers) - 1) * LogLimit
  BY ZenonT(60), <1>1, <1>2, FS_Product
<1>5. IsFiniteSet(B) /\ Cardinality(B) = 1 * (LogLimit - n)
  BY ZenonT(60), <1>2, <1>3, FS_Product
<1>6. A \intersect B = {}
  OBVIOUS
<1>7. IsFiniteSet(A \cup B) /\ Cardinality(A \cup B) = Cardinality(A) + Cardinality(B)
  <2> HIDE DEF A, B
  <2>1. Cardinality(A \intersect B) = 0
    BY <1>6, FS_EmptySet
  <2>2. Cardinality(A) \in Nat /\ Cardinality(B) \in Nat
    BY <1>4, <1>5, FS_CardinalityType
  <2>3. /\ IsFiniteSet(A \cup B)
        /\ Cardinality(A \cup B) = Cardinality(A) + Cardinality(B) - Cardinality(A \intersect B)
    BY <1>4, <1>5, FS_Union
  <2> QED
    BY <2>1, <2>2, <2>3
<1>8. S \subseteq A \cup B
  BY LogConstants
<1>9. Cardinality(S) \in Nat /\ Cardinality(S) <= Cardinality(A) + Cardinality(B)
  <2> HIDE DEF A, B
  <2> QED
    BY <1>7, <1>8, FS_Subset, FS_CardinalityType
<1> HIDE DEF A, B
<1>10. (Cardinality(Loggers) - 1) * LogLimit + LogLimit = Budget
  BY LogConstants DEF Budget
<1>11. Cardinality(A) \in Nat
  BY <1>4, FS_CardinalityType
<1> QED
  BY <1>4, <1>5, <1>9, <1>10, <1>11, LogConstants

\* A step that opens no file and adds to none.
LEMMA QuietStep ==
  ASSUME LogInv, NEW l \in Loggers, LoggersFormed', LoggerInv(l)',
         \A k \in Loggers : k # l => SameLogger(k),
         rotateLock' \in {rotateLock, l, NoLogger}, UNCHANGED logDay,
         \A f \in DOMAIN logFiles' : f \in DOMAIN logFiles /\ logFiles'[f] = logFiles[f],
         \/ logger'[l].handle = NoHandle
         \/ logger'[l].handle = logger[l].handle /\ logger'[l].written = logger[l].written
  PROVE  LogInv'
<1>1. ASSUME NEW k \in Loggers
      PROVE  LoggerInv(k)'
  <2>1. CASE k # l
    <3>1. rotateLock' = k => rotateLock = k
      BY <2>1, LogConstants
    <3>2. LoggerInv(k) /\ SameLogger(k)
      BY <2>1 DEF LogInv
    <3> QED
      BY <3>1, <3>2 DEF LoggerInv, SameLogger, WriterAt, LogLines
  <2> QED
    BY <2>1
<1>2. FilesInv'
  <2> SUFFICES ASSUME NEW f \in DOMAIN logFiles'
               PROVE  /\ f[1] \in 1..LastDay /\ logFiles'[f] \in Seq(LogLines)
                      /\ Len(logFiles'[f]) + Cardinality(Room(f)') <= Budget
    BY DEF FilesInv, LogLines, Budget
  <2>1. /\ f[1] \in 1..LastDay /\ logFiles'[f] = logFiles[f] /\ logFiles[f] \in Seq(LogLines)
        /\ Len(logFiles[f]) + Cardinality(Room(f)) <= Budget
    BY DEF LogInv, FilesInv
  <2>2. f # NoHandle
    BY <2>1 DEF NoHandle
  <2>3. Room(f)' \subseteq Room(f)
    BY <2>2 DEF Room, SameLogger
  <2>4. /\ Cardinality(Room(f)') <= Cardinality(Room(f)) /\ Cardinality(Room(f)') \in Nat
        /\ Cardinality(Room(f)) \in Nat
    BY <2>3, RoomFits, FS_Subset, FS_CardinalityType
  <2> QED
    BY <2>1, <2>4, LogConstants
<1> QED
  BY <1>1, <1>2 DEF LogInv

\* A step of one logger that opens no file and adds to none.
LEMMA OwnQuietStep ==
  ASSUME LogInv, NEW l \in Loggers, OthersKeep(l), LoggerInv(l)', UNCHANGED <<logDay, logFiles>>,
         rotateLock' \in {rotateLock, l, NoLogger},
         \/ logger'[l].handle = NoHandle
         \/ logger'[l].handle = logger[l].handle /\ logger'[l].written = logger[l].written
  PROVE  LogInv'
<1>1. \A k \in Loggers : k # l => SameLogger(k)
  BY DEF OthersKeep, SameLogger
<1>2. LoggersFormed' /\ logDay' \in 1..LastDay /\ rotateLock' \in Loggers \cup {NoLogger}
  BY DEF OthersKeep, LogInv
<1> QED
  BY <1>1, <1>2, QuietStep

\* What a line that a logger takes or gives up leaves behind.
LEMMA QuietActionsFit ==
  ASSUME LogInv, NEW l \in Loggers,
         \/ LogSend(l) \/ TakeEntry(l) \/ LockAndScan(l) \/ LosesLine(l)
         \/ CloseLogger(l) \/ EndsLogger(l)
  PROVE  LogInv'
<1>1. /\ LoggersFormed /\ LoggerInv(l) /\ logDay \in 1..LastDay
      /\ rotateLock \in Loggers \cup {NoLogger} /\ l # NoLogger
  BY LogConstants DEF LogInv
<1>2. CASE LogSend(l)
  <2>1. PICK line : line = <<l, logger[l].sent + 1>>
    OBVIOUS
  <2>2. line \in LogLines
    BY <1>1, <1>2, <2>1, SendDoes, LogConstants DEF LoggerInv, LogLines
  <2>3. logger'[l].queue \in Seq(LogLines) /\ Len(logger'[l].queue) <= LogQueueCap
    <3>1. logger[l].queue \in Seq(LogLines) /\ Len(logger[l].queue) <= LogQueueCap
      BY <1>1 DEF LoggerInv
    <3>2. CASE logger'[l].queue = logger[l].queue
      BY <3>1, <3>2
    <3>3. CASE /\ Len(logger[l].queue) < LogQueueCap
               /\ logger'[l].queue = Append(logger[l].queue, line)
      BY <2>2, <3>1, <3>3, LogConstants
    <3> QED
      BY <1>1, <1>2, <2>1, <3>2, <3>3, SendDoes
  <2>4. /\ logger'[l].phase = logger[l].phase /\ logger'[l].step = logger[l].step
        /\ logger'[l].hand = logger[l].hand /\ logger'[l].handle = logger[l].handle
        /\ logger'[l].date = logger[l].date /\ logger'[l].written = logger[l].written
        /\ logger'[l].sent = logger[l].sent + 1 /\ UNCHANGED rotateLock
    BY <1>1, <1>2, SendDoes
  <2>5. LoggerInv(l)'
    BY <1>1, <2>3, <2>4 DEF LoggerInv, WriterAt, LogLines
  <2> QED
    BY <1>1, <1>2, <2>5, SendDoes, OwnQuietStep
<1>3. CASE TakeEntry(l)
  <2>1. /\ logger[l].queue \in Seq(LogLines) /\ Len(logger[l].queue) <= LogQueueCap
        /\ Tail(logger[l].queue) \in Seq(LogLines) /\ Len(Tail(logger[l].queue)) <= LogQueueCap
        /\ <<Head(logger[l].queue)>> \in Seq(LogLines) /\ Len(<<Head(logger[l].queue)>>) = 1
    <3>1. logger[l].queue # <<>>
      BY <1>1, <1>3, TakeDoes
    <3> QED
      BY <1>1, <3>1, LogConstants DEF LoggerInv
  <2>2. /\ logger[l].phase # "off" /\ logger[l].step = "take"
        /\ logger'[l].phase = logger[l].phase /\ logger'[l].handle = logger[l].handle
        /\ logger'[l].queue = Tail(logger[l].queue) /\ logger'[l].hand = <<Head(logger[l].queue)>>
        /\ logger'[l].written = logger[l].written /\ logger'[l].sent = logger[l].sent
        /\ logger'[l].date = logDay /\ logger'[l].step \in {"open", "lock", "write"}
        /\ logger'[l].step = "write" => ~(logger[l].written >= LogLimit)
        /\ UNCHANGED <<logDay, rotateLock>>
    BY <1>1, <1>3, TakeDoes
  <2>3. rotateLock # l
    BY <1>1, <2>2 DEF LoggerInv, WriterAt
  <2>4. LoggerInv(l)'
    BY SMTT(30), <1>1, <2>1, <2>2, <2>3, LogConstants DEF LoggerInv, LogLines
  <2> QED
    BY <1>1, <1>3, <2>4, TakeDoes, OwnQuietStep
<1>4. CASE LockAndScan(l)
  <2>1. LoggerInv(l)'
    BY <1>1, <1>4, LockDoes DEF LoggerInv, WriterAt, LogLines
  <2> QED
    BY <1>1, <1>4, <2>1, LockDoes, OwnQuietStep
<1>5. CASE LosesLine(l)
  <2>1. rotateLock' # l /\ rotateLock' \in {rotateLock, NoLogger}
    <3>1. CASE OpenLogFails(l)
      BY <1>1, <1>5, <3>1, LosesDoes DEF UnlockRotation
    <3>2. CASE ~OpenLogFails(l)
      BY <1>1, <1>5, <3>2, LosesDoes DEF LosesLine, LoggerInv, WriterAt
    <3> QED
      BY <3>1, <3>2
  <2>2. /\ logger'[l].phase = logger[l].phase /\ logger'[l].step = "take" /\ logger[l].phase # "off"
        /\ logger'[l].queue = logger[l].queue /\ logger'[l].hand = <<>>
        /\ logger'[l].handle = NoHandle \/ logger'[l].handle = logger[l].handle
        /\ logger'[l].date = logger[l].date /\ logger'[l].written = logger[l].written
        /\ logger'[l].sent = logger[l].sent /\ OthersKeep(l) /\ UNCHANGED <<logDay, logFiles>>
    BY <1>1, <1>5, LosesDoes
  <2>3. LoggerInv(l)'
    BY <1>1, <2>1, <2>2 DEF LoggerInv, LogLines
  <2> QED
    BY <1>1, <2>1, <2>2, <2>3, OwnQuietStep
<1>6. CASE CloseLogger(l)
  <2>1. LoggerInv(l)'
    BY <1>1, <1>6, CloseDoes DEF LoggerInv, WriterAt, LogLines
  <2> QED
    BY <1>1, <1>6, <2>1, CloseDoes, OwnQuietStep
<1>7. CASE EndsLogger(l)
  <2>1. rotateLock' # l /\ rotateLock' \in {rotateLock, NoLogger}
    <3>1. CASE CloseReturns(l)
      BY <1>1, <1>7, <3>1, EndsDoes DEF LoggerInv, WriterAt
    <3>2. CASE ~CloseReturns(l)
      BY <1>1, <1>7, <3>2, EndsDoes DEF EndsLogger, UnlockRotation
    <3> QED
      BY <3>1, <3>2
  <2>2. /\ logger'[l].phase = "off" /\ logger'[l].step = "take"
        /\ logger'[l].queue = <<>> /\ logger'[l].hand = <<>>
        /\ logger'[l].handle = NoHandle /\ logger'[l].date = 0 /\ logger'[l].written = 0
        /\ logger'[l].sent = logger[l].sent /\ OthersKeep(l) /\ UNCHANGED <<logDay, logFiles>>
    BY <1>1, <1>7, EndsDoes
  <2>3. LoggerInv(l)'
    BY <1>1, <2>1, <2>2, LogConstants DEF LoggerInv, LogLines
  <2> QED
    BY <1>1, <2>1, <2>2, <2>3, OwnQuietStep
<1> QED
  BY <1>2, <1>3, <1>4, <1>5, <1>6, <1>7

\* The directory is cleaned up, midnight comes, nothing happens.
LEMMA DaysFit ==
  ASSUME LogInv, (\E l \in Loggers : NewLogger(l)) \/ Midnight \/ UNCHANGED logVars
  PROVE  LogInv'
<1>1. ASSUME NEW l \in Loggers, NewLogger(l)
      PROVE  LogInv'
  <2>1. /\ LoggersFormed' /\ UNCHANGED <<logDay, rotateLock>>
        /\ logger[l].phase = "off" /\ LoggerInv(l)
        /\ logDay \in 1..LastDay /\ rotateLock \in Loggers \cup {NoLogger}
    BY <1>1, NewDoes DEF LogInv
  <2>2. \A k \in Loggers : k # l => SameLogger(k)
    BY ZenonT(60), <1>1, <2>1, NewDoes DEF LogInv, SameLogger
  <2>3. /\ logger'[l].phase = "new" /\ logger'[l].step = "open"
        /\ logger'[l].queue = logger[l].queue /\ logger'[l].hand = logger[l].hand
        /\ logger'[l].handle = logger[l].handle /\ logger'[l].date = logDay
        /\ logger'[l].written = logger[l].written /\ logger'[l].sent = logger[l].sent
    BY <1>1, NewDoes DEF LogInv
  <2>4. logDay \in 0..LastDay /\ logDay # 0
    BY <2>1, LogConstants
  <2>5. LoggerInv(l)'
    BY <2>1, <2>3, <2>4 DEF LoggerInv, WriterAt, LogLines
  <2>6. \A f \in DOMAIN logFiles' : f \in DOMAIN logFiles /\ logFiles'[f] = logFiles[f]
    <3>1. \E edge \in BOOLEAN :
            logFiles' = [f \in DOMAIN logFiles \ LogCleanup(edge) |-> logFiles[f]]
      BY <1>1, NewDoes DEF LogInv
    <3> QED
      BY <3>1
  <2> QED
    BY <2>1, <2>2, <2>3, <2>5, <2>6, QuietStep
<1>2. ASSUME UNCHANGED <<logFiles, rotateLock, logger>>, logDay' \in 1..LastDay
      PROVE  LogInv'
  <2>1. LoggersFormed' /\ \A k \in Loggers : LoggerInv(k)'
    BY <1>2 DEF LogInv, LoggersFormed, LoggerInv, WriterAt, LogLines
  <2>2. \A f : Room(f)' = Room(f)
    BY <1>2 DEF Room
  <2>3. FilesInv'
    BY <1>2, <2>2 DEF LogInv, FilesInv, LogLines, Budget
  <2> QED
    BY <1>2, <2>1, <2>3 DEF LogInv
<1>3. CASE Midnight
  BY <1>2, <1>3, LogConstants DEF Midnight, LogInv
<1>4. CASE UNCHANGED logVars
  BY <1>2, <1>4 DEF logVars, LogInv
<1> QED
  BY <1>1, <1>3, <1>4

\* A file is opened with fewer lines than the limit; a full one is passed by.
LEMMA OpenFits ==
  ASSUME LogInv, NEW l \in Loggers, OpenLogFile(l)
  PROVE  LogInv'
<1> DEFINE me == logger[l]
<1>0. PICK opened : opened = <<me.date, me.seq>>
  OBVIOUS
<1> DEFINE lines == LinesIn(opened)
<1>1. /\ LoggersFormed /\ LoggerInv(l) /\ logDay \in 1..LastDay
      /\ rotateLock \in Loggers \cup {NoLogger} /\ l # NoLogger
      /\ me.phase # "off" /\ me.step = "open" /\ me.date \in 1..LastDay
      /\ UNCHANGED logDay
  BY LogConstants DEF LogInv, OpenLogFile, WriterAt, LoggerInv
<1>2. /\ lines \in Seq(LogLines) /\ Len(lines) \in Nat
      /\ opened[1] = me.date
  BY <1>0 DEF LogInv, FilesInv, LinesIn
<1>3. /\ DOMAIN logFiles' = DOMAIN logFiles \cup {opened}
      /\ logFiles'[opened] = lines
      /\ \A f \in DOMAIN logFiles : f # opened => logFiles'[f] = logFiles[f]
  BY <1>0, <1>1, OpenDoes
<1> HIDE DEF lines
<1>4. CASE Len(lines) >= LogLimit
  <2>3. /\ OthersKeep(l) /\ UNCHANGED rotateLock
        /\ logger'[l].phase = me.phase /\ logger'[l].step = "open"
        /\ logger'[l].queue = me.queue /\ logger'[l].hand = me.hand
        /\ logger'[l].handle = NoHandle /\ logger'[l].date = me.date
        /\ logger'[l].written = me.written /\ logger'[l].sent = me.sent
    BY <1>0, <1>1, <1>4, OpenDoes DEF lines
  <2>4. LoggerInv(l)'
    BY <1>1, <2>3 DEF LoggerInv, WriterAt, LogLines
  <2>5. LoggersFormed' /\ \A k \in Loggers : k # l => SameLogger(k)
    BY <2>3 DEF OthersKeep, SameLogger
  <2>6. \A f \in DOMAIN logFiles' : f \in DOMAIN logFiles /\ logFiles'[f] = logFiles[f]
    <3>1. opened \in DOMAIN logFiles /\ lines = logFiles[opened]
      BY <1>4, LogConstants DEF lines, LinesIn
    <3> QED
      BY <1>3, <3>1
  <2> QED
    BY <1>1, <2>3, <2>4, <2>5, <2>6, QuietStep
<1>5. CASE ~(Len(lines) >= LogLimit)
  <2>1. /\ UnlockRotation(l)
        /\ logger'[l].phase \in {"open", me.phase} /\ logger'[l].step \in {"take", "write"}
    BY <1>0, <1>1, <1>5, OpenDoes DEF lines
  <2>3. /\ LoggersFormed' /\ \A k \in Loggers : k # l => logger'[k] = logger[k]
        /\ logger'[l].queue = me.queue /\ logger'[l].hand = me.hand
        /\ logger'[l].handle = opened /\ logger'[l].date = me.date
        /\ logger'[l].written = Len(lines) /\ logger'[l].sent = me.sent
    <3>1. /\ OthersKeep(l) /\ logger'[l].queue = me.queue /\ logger'[l].hand = me.hand
          /\ logger'[l].date = me.date /\ logger'[l].sent = me.sent
      BY <1>0, <1>1, OpenDoes
    <3>2. logger'[l].handle = opened /\ logger'[l].written = Len(lines)
      BY ZenonT(60), <1>0, <1>1, <1>5, OpenDoes DEF lines
    <3> QED
      BY <3>1, <3>2 DEF OthersKeep
  <2>4. /\ rotateLock' \in Loggers \cup {NoLogger} /\ rotateLock' # l
        /\ \A k \in Loggers : rotateLock' = k => rotateLock = k
    BY <1>1, <2>1, LogConstants DEF UnlockRotation
  <2>5. LoggerInv(l)'
    BY <1>1, <1>2, <1>5, <2>1, <2>3, <2>4, LogConstants DEF LoggerInv, WriterAt, LogLines
  <2>6. ASSUME NEW k \in Loggers, k # l
        PROVE  LoggerInv(k)'
    BY <2>3, <2>4, <2>6 DEF LogInv, LoggerInv, WriterAt, LogLines
  <2>7. ASSUME NEW f \in DOMAIN logFiles', f # opened
        PROVE  /\ f[1] \in 1..LastDay /\ logFiles'[f] \in Seq(LogLines)
               /\ Len(logFiles'[f]) + Cardinality(Room(f)') <= Budget
    <3>1. /\ f[1] \in 1..LastDay /\ logFiles'[f] = logFiles[f] /\ logFiles[f] \in Seq(LogLines)
          /\ Len(logFiles[f]) + Cardinality(Room(f)) <= Budget
      BY <1>3, <2>7 DEF LogInv, FilesInv
    <3>2. Room(f)' \subseteq Room(f)
      BY <2>3, <2>7 DEF Room
    <3>3. /\ Cardinality(Room(f)') <= Cardinality(Room(f)) /\ Cardinality(Room(f)') \in Nat
          /\ Cardinality(Room(f)) \in Nat
      BY <3>2, RoomFits, FS_Subset, FS_CardinalityType
    <3> QED
      BY <3>1, <3>3, LogConstants
  <2>8. Len(lines) + Cardinality(Room(opened)') <= Budget
    <3> DEFINE S == {e \in Loggers \X (1..LogLimit) :
                       logger'[e[1]].handle = opened /\ e[2] > logger'[e[1]].written}
    <3>1. Room(opened)' = S
      BY DEF Room
    <3>2. \A e \in S : e[1] = l => e[2] > Len(lines)
      BY <2>3
    <3>3. S \subseteq Loggers \X (1..LogLimit)
      OBVIOUS
    <3>4. Len(lines) < LogLimit
      BY <1>2, <1>5, LogConstants
    <3> HIDE DEF S
    <3> QED
      BY <1>2, <3>1, <3>2, <3>3, <3>4, OpenersFit
  <2>9. FilesInv'
    BY <1>1, <1>2, <1>3, <2>7, <2>8 DEF FilesInv, LogLines, Budget
  <2> QED
    BY <1>1, <2>3, <2>4, <2>5, <2>6, <2>9 DEF LogInv
<1> QED
  BY <1>4, <1>5

LEMMA Appended ==
  ASSUME NEW S, NEW s \in Seq(S), NEW t \in Seq(S), Len(t) <= 1
  PROVE  s \o t \in Seq(S) /\ Len(s \o t) \in Nat /\ Len(s \o t) <= Len(s) + 1
OBVIOUS

\* A line is appended by who has room for it, or is lost.
LEMMA WriteFits ==
  ASSUME LogInv, NEW l \in Loggers, WriteLine(l)
  PROVE  LogInv'
<1> DEFINE me == logger[l]
<1>0. PICK f : f = me.handle
  OBVIOUS
<1>1. /\ LoggersFormed /\ LoggerInv(l) /\ logDay \in 1..LastDay
      /\ rotateLock \in Loggers \cup {NoLogger} /\ l # NoLogger
      /\ me.phase # "off" /\ me.step = "write" /\ me.written < LogLimit /\ me.written \in Nat
      /\ UNCHANGED <<logDay, rotateLock>>
  BY LogConstants DEF LogInv, WriteLine, WriterAt, LoggerInv
<1>2. CASE f \notin DOMAIN logFiles
  BY <1>0, <1>2, QuietActionsFit DEF LosesLine
<1>3. CASE f \in DOMAIN logFiles
  <2>1. logFiles' = [logFiles EXCEPT ![f] = @ \o me.hand]
    BY <1>0, <1>1, <1>3, WriteDoes
  <2>3. /\ LoggersFormed' /\ \A k \in Loggers : k # l => logger'[k] = logger[k]
        /\ logger'[l].phase = me.phase /\ logger'[l].step = "take"
        /\ logger'[l].queue = me.queue /\ logger'[l].hand = <<>>
        /\ logger'[l].handle = me.handle /\ logger'[l].date = me.date
        /\ logger'[l].written = me.written + 1 /\ logger'[l].sent = me.sent
    BY <1>0, <1>1, <1>3, WriteDoes DEF OthersKeep
  <2>4. LoggerInv(l)'
    BY <1>1, <2>1, <2>3 DEF LoggerInv, WriterAt, LogLines
  <2>5. ASSUME NEW k \in Loggers, k # l
        PROVE  LoggerInv(k)'
    BY <1>1, <2>3, <2>5 DEF LogInv, LoggerInv, WriterAt, LogLines
  <2>6. \A g : Room(g)' \subseteq Room(g)
    BY <1>1, <2>3 DEF Room
  <2>7. ASSUME NEW g \in DOMAIN logFiles, g # f
        PROVE  /\ g[1] \in 1..LastDay /\ logFiles'[g] \in Seq(LogLines)
               /\ Len(logFiles'[g]) + Cardinality(Room(g)') <= Budget
    <3>1. /\ g[1] \in 1..LastDay /\ logFiles'[g] = logFiles[g] /\ logFiles[g] \in Seq(LogLines)
          /\ Len(logFiles[g]) + Cardinality(Room(g)) <= Budget
      BY <2>1, <2>7 DEF LogInv, FilesInv
    <3>2. /\ Cardinality(Room(g)') <= Cardinality(Room(g)) /\ Cardinality(Room(g)') \in Nat
          /\ Cardinality(Room(g)) \in Nat
      BY <2>6, RoomFits, FS_Subset, FS_CardinalityType
    <3> QED
      BY <3>1, <3>2, LogConstants
  <2>8. /\ f[1] \in 1..LastDay /\ logFiles'[f] \in Seq(LogLines)
        /\ Len(logFiles'[f]) + Cardinality(Room(f)') <= Budget
    <3>1. /\ f[1] \in 1..LastDay /\ logFiles[f] \in Seq(LogLines)
          /\ Len(logFiles[f]) + Cardinality(Room(f)) <= Budget
          /\ me.hand \in Seq(LogLines) /\ Len(me.hand) <= 1
      BY <1>1, <1>3 DEF LogInv, FilesInv, LoggerInv
    <3>2. logFiles'[f] = logFiles[f] \o me.hand
      BY <1>3, <2>1
    <3>3. logFiles'[f] \in Seq(LogLines) /\ Len(logFiles'[f]) <= Len(logFiles[f]) + 1
          /\ Len(logFiles'[f]) \in Nat
      BY <3>1, <3>2, Appended
    <3> DEFINE place == <<l, me.written + 1>>
    <3>4. place \in Room(f)
      BY <1>0, <1>1, LogConstants DEF Room
    <3>5. Room(f)' \subseteq Room(f) \ {place}
      BY <1>1, <2>3, <2>6 DEF Room
    <3>6. /\ IsFiniteSet(Room(f) \ {place})
          /\ Cardinality(Room(f) \ {place}) = Cardinality(Room(f)) - 1
          /\ Cardinality(Room(f)) \in Nat
      <4>1. IsFiniteSet(Room(f)) /\ Cardinality(Room(f)) \in Nat
        BY RoomFits
      <4> QED
        BY <3>4, <4>1, FS_RemoveElement
    <3>7. /\ Cardinality(Room(f)') <= Cardinality(Room(f) \ {place})
          /\ Cardinality(Room(f)') \in Nat
      BY <3>5, <3>6, FS_Subset, FS_CardinalityType
    <3> QED
      BY SMTT(30), <3>1, <3>3, <3>6, <3>7, LogConstants
  <2>9. FilesInv'
    <3>1. DOMAIN logFiles' = DOMAIN logFiles
      BY <2>1
    <3> QED
      BY <2>7, <2>8, <3>1 DEF FilesInv, LogLines, Budget
  <2> QED
    BY <1>1, <2>3, <2>4, <2>5, <2>9 DEF LogInv
<1> QED
  BY <1>2, <1>3

\* The step of a logger is one of those above.
LEMMA LoggerSteps ==
  ASSUME NEW l \in Loggers,
         \/ NewLogger(l) \/ LogSend(l) \/ TakeEntry(l) \/ LockAndScan(l) \/ RotateLockFails(l)
         \/ OpenLogFile(l) \/ OpenLogFails(l) \/ WriteLine(l) \/ CloseLogger(l) \/ CloseReturns(l)
         \/ LoggerDies(l)
  PROVE  \/ NewLogger(l) \/ LogSend(l) \/ TakeEntry(l) \/ LockAndScan(l) \/ LosesLine(l)
         \/ OpenLogFile(l) \/ (WriteLine(l) /\ logger[l].handle \in DOMAIN logFiles)
         \/ CloseLogger(l) \/ EndsLogger(l)
BY DEF LosesLine, EndsLogger

LEMMA LogStepFits ==
  ASSUME LogInv, [LogNext]_logVars
  PROVE  LogInv'
<1>1. ASSUME NEW l \in Loggers,
             \/ LogSend(l) \/ TakeEntry(l) \/ LockAndScan(l) \/ RotateLockFails(l)
             \/ OpenLogFile(l) \/ OpenLogFails(l) \/ WriteLine(l) \/ CloseLogger(l) \/ CloseReturns(l)
             \/ LoggerDies(l)
      PROVE  LogInv'
  BY <1>1, LoggerSteps, QuietActionsFit, OpenFits, WriteFits, DaysFit
<1> QED
  BY <1>1, DaysFit DEF LogNext

\* The inductive invariant of the log directory.
THEOREM LogInvariant == LogSpec => []LogInv
<1>1. LogInit => LogInv
  <2> SUFFICES ASSUME LogInit
               PROVE  LogInv
    OBVIOUS
  <2>1. LoggersFormed
    <3>1. DOMAIN logger = Loggers
      BY DEF LogInit
    <3> QED
      BY <3>1, InitLogger DEF LoggersFormed
  <2>2. ASSUME NEW l \in Loggers
        PROVE  LoggerInv(l)
    <3>1. /\ logger[l].phase = "off" /\ logger[l].step = "take"
          /\ logger[l].queue = <<>> /\ logger[l].hand = <<>>
          /\ logger[l].handle = NoHandle /\ logger[l].date = 0 /\ logger[l].written = 0
          /\ logger[l].sent = 0
      BY InitLogger
    <3>2. rotateLock # l
      BY LogConstants DEF LogInit
    <3> QED
      BY <3>1, <3>2, LogConstants DEF LoggerInv, WriterAt
  <2>3. FilesInv
    BY DEF LogInit, FilesInv
  <2> QED
    BY <2>1, <2>2, <2>3, LogConstants DEF LogInit, LogInv
<1>2. LogInv /\ [LogNext]_logVars => LogInv'
  BY LogStepFits
<1> QED
  BY <1>1, <1>2, PTL DEF LogSpec

\* Lines, queues and the lock of the rotation are well-formed: who holds
\* rotate.lock is about to open a file.
THEOREM LogTyped == LogSpec => []LogTypeOK
<1>1. LogInv => LogTypeOK
  <2> SUFFICES ASSUME LogInv
               PROVE  LogTypeOK
    OBVIOUS
  <2>1. \A f \in DOMAIN logFiles : f[1] \in 1..LastDay /\ Range(logFiles[f]) \subseteq LogLines
    BY DEF LogInv, FilesInv, Range
  <2> QED
    BY <2>1 DEF LogInv, LoggerInv, LogTypeOK
<1> QED
  BY <1>1, LogInvariant, PTL

\* However the processes share, fill, change and restart on the files of one
\* directory, no file outgrows one limit for each process (checkRotate,
\* openFile, write).
THEOREM LogFilesStayBounded == LogSpec => []LogFilesBounded
<1>1. LogInv => LogFilesBounded
  <2> SUFFICES ASSUME LogInv, NEW f \in DOMAIN logFiles
               PROVE  Len(logFiles[f]) <= Budget
    BY DEF LogFilesBounded, Budget
  <2>1. Len(logFiles[f]) \in Nat /\ Len(logFiles[f]) + Cardinality(Room(f)) <= Budget
    BY DEF LogInv, FilesInv
  <2>2. Cardinality(Room(f)) \in Nat
    BY RoomFits
  <2> QED
    BY <2>1, <2>2, LogConstants
<1> QED
  BY <1>1, LogInvariant, PTL
-----------------------------------------------------------------------------
\* The lines of a logger: what it accepted is in the files or waits.

LEMMA InLinesOf ==
  ASSUME NEW files, NEW l, NEW p
  PROVE  p \in LinesOf(files, l) <=>
           \E f \in DOMAIN files : \E i \in DOMAIN files[f] :
             files[f][i][1] = l /\ p = <<f, i, files[f][i][2]>>
BY DEF LinesOf

\* Places in the files, in the order in which these are read.
FileNames == Nat \X Nat
FiledLines == FileNames \X Nat \X Nat

LEMMA ReadingOrder ==
  /\ \A p \in FiledLines : ~ReadBefore(p, p)
  /\ \A p, q \in FiledLines :
       ReadBefore(p, q) \/ ReadBefore(q, p) \/ (p[1] = q[1] /\ p[2] = q[2])
<1>1. ASSUME NEW p \in FiledLines
      PROVE  ~ReadBefore(p, p)
  BY DEF FiledLines, FileNames, ReadBefore, NamedBefore
<1>2. ASSUME NEW p \in FiledLines, NEW q \in FiledLines
      PROVE  ReadBefore(p, q) \/ ReadBefore(q, p) \/ (p[1] = q[1] /\ p[2] = q[2])
  <2>1. PICK d \in Nat, s \in Nat : p[1] = <<d, s>>
    BY DEF FiledLines, FileNames
  <2>2. PICK e \in Nat, t \in Nat : q[1] = <<e, t>>
    BY DEF FiledLines, FileNames
  <2>3. p[2] \in Nat /\ q[2] \in Nat
    BY DEF FiledLines
  <2> QED
    BY <2>1, <2>2, <2>3 DEF ReadBefore, NamedBefore
<1> QED
  BY <1>1, <1>2

\* A line that is sent comes behind all others.
LEMMA KeptWhenSent ==
  ASSUME NEW l, NEW filed, NEW waiting \in Seq(LogLines), NEW accepted,
         LinesKept(l, filed, waiting, accepted), NEW line \in LogLines,
         \A p \in filed : p[3] < line[2],
         \A i \in DOMAIN waiting : waiting[i][2] < line[2]
  PROVE  LinesKept(l, filed, Append(waiting, line), accepted \cup {line})
<1>1. PICK longer : longer = Append(waiting, line)
  OBVIOUS
<1> DEFINE n == Len(waiting)
<1>2. /\ n \in Nat /\ DOMAIN waiting = 1..n
      /\ DOMAIN longer = 1..(n + 1) /\ longer[n + 1] = line
      /\ \A i \in 1..n : longer[i] = waiting[i]
  BY <1>1
<1>3. Range(longer) = Range(waiting) \cup {line}
  <2>1. ASSUME NEW x \in Range(longer)
        PROVE  x \in Range(waiting) \cup {line}
    <3>1. PICK i \in 1..(n + 1) : x = longer[i]
      BY <1>2 DEF Range
    <3>2. i \in 1..n \/ i = n + 1
      BY <1>2
    <3> QED
      BY <1>2, <3>1, <3>2 DEF Range
  <2>2. ASSUME NEW i \in 1..n
        PROVE  waiting[i] \in Range(longer)
    BY <1>2 DEF Range
  <2>3. line \in Range(longer)
    BY <1>2 DEF Range
  <2> QED
    BY <1>2, <2>1, <2>2, <2>3 DEF Range
<1> HIDE DEF n
<1>4. \A p \in filed, i \in 1..(n + 1) : p[3] < longer[i][2]
  <2>1. \A i \in 1..(n + 1) : i \in 1..n \/ i = n + 1
    BY <1>2
  <2> QED
    BY <1>2, <2>1 DEF LinesKept
<1>5. ASSUME NEW i \in 1..(n + 1), NEW j \in 1..(n + 1), i < j
      PROVE  longer[i][2] < longer[j][2]
  <2>1. i \in 1..n
    BY <1>2, <1>5
  <2>2. CASE j = n + 1
    BY <1>2, <2>1, <2>2
  <2>3. CASE j \in 1..n
    BY <1>2, <1>5, <2>1, <2>3 DEF LinesKept
  <2> QED
    BY <1>2, <2>2, <2>3
<1>6. accepted \cup {line} = {<<l, p[3]>> : p \in filed} \cup Range(longer)
  BY <1>3 DEF LinesKept
<1>7. \A p, q \in filed : ReadBefore(p, q) => p[3] < q[3]
  BY DEF LinesKept
<1> QED
  BY <1>1, <1>2, <1>4, <1>5, <1>6, <1>7 DEF LinesKept

\* What a line in front of others, and behind those in the files, implies.
LEMMA FirstWaiting ==
  ASSUME NEW l, NEW filed \in SUBSET FiledLines, NEW later \in Seq(LogLines), NEW line \in LogLines,
         NEW accepted, LinesKept(l, filed, <<line>> \o later, accepted)
  PROVE  /\ Range(<<line>> \o later) = Range(later) \cup {line}
         /\ \A p \in filed : p[3] < line[2]
         /\ \A i \in DOMAIN later : line[2] < later[i][2]
         /\ \A p \in filed, i \in DOMAIN later : p[3] < later[i][2]
         /\ \A i, j \in DOMAIN later : i < j => later[i][2] < later[j][2]
<1>1. PICK waiting : waiting = <<line>> \o later
  OBVIOUS
<1> DEFINE n == Len(later)
<1>2. /\ n \in Nat /\ DOMAIN later = 1..n
      /\ DOMAIN waiting = 1..(n + 1) /\ waiting[1] = line
      /\ \A i \in 1..n : waiting[i + 1] = later[i]
  BY <1>1
<1> HIDE DEF n
<1>3. \A i \in 1..n : i + 1 \in DOMAIN waiting /\ 1 < i + 1
  BY <1>2
<1>4. 1 \in DOMAIN waiting
  BY <1>2
<1>5. Range(waiting) = Range(later) \cup {line}
  <2>1. ASSUME NEW x \in Range(waiting)
        PROVE  x \in Range(later) \cup {line}
    <3>1. PICK i \in 1..(n + 1) : x = waiting[i]
      BY <1>2 DEF Range
    <3>2. CASE i = 1
      BY <1>2, <3>1, <3>2
    <3>3. CASE i # 1
      <4>1. i - 1 \in 1..n /\ (i - 1) + 1 = i
        BY <1>2, <3>3
      <4> QED
        BY <1>2, <3>1, <4>1 DEF Range
    <3> QED
      BY <3>2, <3>3
  <2>2. \A x \in Range(later) : x \in Range(waiting)
    BY <1>2, <1>3 DEF Range
  <2>3. line \in Range(waiting)
    BY <1>2, <1>4 DEF Range
  <2> QED
    BY <2>1, <2>2, <2>3
<1>6. \A p \in filed, i \in DOMAIN waiting : p[3] < waiting[i][2]
  BY <1>1 DEF LinesKept
<1>7. \A i, j \in DOMAIN waiting : i < j => waiting[i][2] < waiting[j][2]
  BY <1>1 DEF LinesKept
<1>8. ASSUME NEW i \in DOMAIN later
      PROVE  line[2] < later[i][2] /\ \A p \in filed : p[3] < later[i][2]
  BY <1>2, <1>3, <1>4, <1>6, <1>7
<1>9. ASSUME NEW i \in DOMAIN later, NEW j \in DOMAIN later, i < j
      PROVE  later[i][2] < later[j][2]
  <2>1. i + 1 < j + 1
    BY <1>2, <1>9
  <2> QED
    BY <1>2, <1>3, <1>7, <2>1
<1>10. \A p \in filed : p[3] < line[2]
  BY <1>2, <1>4, <1>6
<1> QED
  BY <1>1, <1>5, <1>8, <1>9, <1>10

\* A line is given up.
LEMMA KeptWhenLost ==
  ASSUME NEW l, NEW filed \in SUBSET FiledLines, NEW later \in Seq(LogLines), NEW line \in LogLines,
         NEW accepted, LinesKept(l, filed, <<line>> \o later, accepted)
  PROVE  LinesKept(l, filed, later, accepted \ {line})
<1>1. /\ Range(<<line>> \o later) = Range(later) \cup {line}
      /\ \A p \in filed : p[3] < line[2]
      /\ \A i \in DOMAIN later : line[2] < later[i][2]
      /\ \A p \in filed, i \in DOMAIN later : p[3] < later[i][2]
      /\ \A i, j \in DOMAIN later : i < j => later[i][2] < later[j][2]
  BY FirstWaiting
<1>2. line[2] \in Nat /\ \A p \in filed : p[3] \in Nat
  BY LogConstants DEF LogLines, FiledLines
<1>3. line \notin Range(later)
  BY <1>1, <1>2 DEF Range
<1>4. \A p \in filed : line # <<l, p[3]>>
  BY <1>1, <1>2
<1>5. accepted \ {line} = {<<l, p[3]>> : p \in filed} \cup Range(later)
  BY <1>1, <1>3, <1>4 DEF LinesKept
<1>6. \A p, q \in filed : ReadBefore(p, q) => p[3] < q[3]
  BY DEF LinesKept
<1> QED
  BY <1>1, <1>5, <1>6 DEF LinesKept

\* A line is written behind all the logger has in the files.
LEMMA KeptWhenWritten ==
  ASSUME NEW l, NEW filed \in SUBSET FiledLines, NEW later \in Seq(LogLines), NEW line \in LogLines,
         NEW accepted, LinesKept(l, filed, <<line>> \o later, accepted), line[1] = l,
         NEW place \in FiledLines, place[3] = line[2],
         \A p \in filed : ~ReadBefore(place, p)
  PROVE  LinesKept(l, filed \cup {place}, later, accepted)
<1>1. /\ Range(<<line>> \o later) = Range(later) \cup {line}
      /\ \A p \in filed : p[3] < line[2]
      /\ \A i \in DOMAIN later : line[2] < later[i][2]
      /\ \A p \in filed, i \in DOMAIN later : p[3] < later[i][2]
      /\ \A i, j \in DOMAIN later : i < j => later[i][2] < later[j][2]
  BY FirstWaiting
<1>2. line = <<l, place[3]>>
  BY DEF LogLines
<1>3. {<<l, p[3]>> : p \in filed \cup {place}} = {<<l, p[3]>> : p \in filed} \cup {line}
  BY <1>2
<1>4. accepted = {<<l, p[3]>> : p \in filed \cup {place}} \cup Range(later)
  BY <1>1, <1>3 DEF LinesKept
<1>5. \A p, q \in filed : ReadBefore(p, q) => p[3] < q[3]
  BY DEF LinesKept
<1>6. ~ReadBefore(place, place)
  BY ReadingOrder
<1>7. \A p, q \in filed \cup {place} : ReadBefore(p, q) => p[3] < q[3]
  BY <1>1, <1>5, <1>6
<1>8. \A p \in filed \cup {place}, i \in DOMAIN later : p[3] < later[i][2]
  BY <1>1
<1> QED
  BY <1>1, <1>4, <1>7, <1>8 DEF LinesKept

\* Nothing that waits is in the files already.
LEMMA WaitingIsNotFiled ==
  ASSUME NEW l, NEW filed \in SUBSET FiledLines, NEW waiting \in Seq(LogLines), NEW accepted,
         LinesKept(l, filed, waiting, accepted), NEW p \in filed
  PROVE  <<l, p[3]>> \notin Range(waiting)
<1>1. SUFFICES ASSUME NEW i \in DOMAIN waiting, waiting[i] = <<l, p[3]>>
               PROVE  FALSE
  BY DEF Range
<1>2. p[3] \in Nat /\ p[3] < waiting[i][2]
  BY DEF FiledLines, LinesKept
<1> QED
  BY <1>1, <1>2

\* All that waits is given up.
LEMMA KeptWhenCleared ==
  ASSUME NEW l, NEW filed \in SUBSET FiledLines, NEW waiting \in Seq(LogLines), NEW accepted,
         LinesKept(l, filed, waiting, accepted)
  PROVE  LinesKept(l, filed, <<>>, accepted \ Range(waiting))
<1>1. \A p \in filed : <<l, p[3]>> \notin Range(waiting)
  BY WaitingIsNotFiled
<1>2. Range(<<>>) = {}
  BY DEF Range
<1>3. accepted \ Range(waiting) = {<<l, p[3]>> : p \in filed} \cup Range(<<>>)
  BY <1>1, <1>2 DEF LinesKept
<1>4. \A p, q \in filed : ReadBefore(p, q) => p[3] < q[3]
  BY DEF LinesKept
<1> QED
  BY <1>3, <1>4 DEF LinesKept

\* Files are removed, with the lines in them.
LEMMA KeptWhenCleaned ==
  ASSUME NEW l, NEW filed \in SUBSET FiledLines, NEW waiting \in Seq(LogLines), NEW accepted,
         LinesKept(l, filed, waiting, accepted),
         NEW left \in SUBSET filed, NEW gone,
         \A p \in filed, q \in filed : p[1] = q[1] /\ p[2] = q[2] => p = q,
         \A p \in filed \ left : <<l, p[3]>> \in gone,
         \A n : <<l, n>> \in gone => \E p \in filed \ left : p[3] = n,
         \A i \in DOMAIN waiting : waiting[i][1] = l
  PROVE  LinesKept(l, left, waiting, accepted \ gone)
<1>1. \A p \in left : <<l, p[3]>> \notin gone
  <2> SUFFICES ASSUME NEW p \in left, NEW q \in filed \ left, q[3] = p[3]
               PROVE  FALSE
    OBVIOUS
  <2>1. p \in FiledLines /\ q \in FiledLines /\ p[3] \in Nat
    BY DEF FiledLines
  <2>2. ~ReadBefore(p, q) /\ ~ReadBefore(q, p)
    BY <2>1 DEF LinesKept
  <2> QED
    BY <2>1, <2>2, ReadingOrder
<1>2. \A x \in Range(waiting) : x \notin gone
  <2> SUFFICES ASSUME NEW i \in DOMAIN waiting, waiting[i] \in gone
               PROVE  FALSE
    BY DEF Range
  <2>1. waiting[i] \in LogLines /\ waiting[i] = <<l, waiting[i][2]>>
    BY DEF LogLines
  <2>2. PICK p \in filed \ left : p[3] = waiting[i][2]
    BY <2>1
  <2>3. <<l, p[3]>> \in Range(waiting)
    BY <2>1, <2>2 DEF Range
  <2> QED
    BY <2>3, WaitingIsNotFiled
<1>3. accepted \ gone = {<<l, p[3]>> : p \in left} \cup Range(waiting)
  BY <1>1, <1>2 DEF LinesKept
<1> QED
  BY <1>3 DEF LinesKept

Filed(l) == LinesOf(logFiles, l)
Waiting(l) == logger[l].hand \o logger[l].queue

\* How far a writer is, and where it goes on.
WriterInv(l) ==
  /\ logger[l].date <= logDay /\ logger[l].seq \in Nat
  /\ logger[l].phase \in {"off", "new"} => logger[l].hand = <<>> /\ logger[l].queue = <<>>
  /\ logger[l].phase = "new" => logger[l].step = "open"
  /\ logger[l].phase = "off" => logger[l].step = "take"
  /\ logger[l].step = "take" => logger[l].hand = <<>>
  /\ logger[l].step # "take" /\ logger[l].phase # "new" => logger[l].hand # <<>>
  /\ logger[l].step # "open" =>
       logger[l].handle \in {NoHandle, <<logger[l].date, logger[l].seq>>}

\* All a logger has in the files is at or before the place where it goes on.
LinesInv(l) ==
  /\ \A p \in Filed(l) : p[3] <= logger[l].sent
  /\ logger[l].phase # "off" =>
       \A p \in Filed(l) : ~NamedBefore(<<logger[l].date, logger[l].seq>>, p[1])
  /\ \A i \in DOMAIN Waiting(l) : Waiting(l)[i][1] = l /\ Waiting(l)[i][2] <= logger[l].sent
  /\ LinesKept(l, Filed(l), Waiting(l), logger[l].accepted)

\* No file is of a day to come, and each day with files has a last one.
DirectoryInv ==
  /\ \A f \in DOMAIN logFiles : f \in (1..logDay) \X Nat
  /\ \A f \in DOMAIN logFiles : \E g \in DOMAIN logFiles :
       g[1] = f[1] /\ \A h \in DOMAIN logFiles : h[1] = f[1] => h[2] <= g[2]

KeepInv ==
  /\ LogInv /\ DirectoryInv
  /\ \A l \in Loggers : WriterInv(l) /\ LinesInv(l)

LEMMA LastSeqFound ==
  ASSUME DirectoryInv, NEW day
  PROVE  /\ FindLastSeq(day) \in Nat
         /\ \A f \in DOMAIN logFiles : f[1] = day => f[2] <= FindLastSeq(day)
<1> DEFINE seqs == {f[2] : f \in {g \in DOMAIN logFiles : g[1] = day}}
<1>1. FindLastSeq(day) = IF seqs = {} THEN 0 ELSE CHOOSE s \in seqs : \A t \in seqs : t <= s
  BY DEF FindLastSeq
<1>2. CASE seqs = {}
  <2>1. \A f \in DOMAIN logFiles : f[1] # day
    BY <1>2
  <2> QED
    BY <1>1, <1>2, <2>1
<1>3. CASE seqs # {}
  <2>1. PICK f \in DOMAIN logFiles : f[1] = day
    BY <1>3
  <2>2. PICK g \in DOMAIN logFiles : g[1] = day /\ \A h \in DOMAIN logFiles : h[1] = day => h[2] <= g[2]
    BY <2>1 DEF DirectoryInv
  <2>3. g[2] \in seqs /\ \A t \in seqs : t <= g[2]
    BY <2>2
  <2>4. seqs \subseteq Nat
    BY DEF DirectoryInv
  <2>5. \A e \in DOMAIN logFiles : e[1] = day => e[2] \in seqs
    OBVIOUS
  <2> HIDE DEF seqs
  <2>6. \E s \in seqs : \A t \in seqs : t <= s
    BY <2>3
  <2>7. FindLastSeq(day) \in seqs /\ \A t \in seqs : t <= FindLastSeq(day)
    BY <1>1, <1>3, <2>6
  <2> QED
    BY <2>4, <2>5, <2>7
<1> QED
  BY <1>2, <1>3

\* Who goes on with the last file of a day is behind all lines up to that day.
LEMMA LastFileIsLast ==
  ASSUME DirectoryInv, NEW day \in Nat, NEW f \in DOMAIN logFiles, f[1] <= day
  PROVE  ~NamedBefore(<<day, FindLastSeq(day)>>, f)
<1>1. f[1] \in Nat /\ f[2] \in Nat
  BY DEF DirectoryInv
<1>2. FindLastSeq(day) \in Nat /\ (f[1] = day => f[2] <= FindLastSeq(day))
  BY LastSeqFound
<1> QED
  BY <1>1, <1>2 DEF NamedBefore

LEMMA FiledForm ==
  ASSUME LogInv, DirectoryInv, NEW l
  PROVE  /\ Filed(l) \in SUBSET FiledLines
         /\ \A p \in Filed(l) :
              /\ p[1] \in DOMAIN logFiles /\ p[2] \in 1..Len(logFiles[p[1]])
              /\ logFiles[p[1]][p[2]] = <<l, p[3]>>
         /\ \A p, q \in Filed(l) : p[1] = q[1] /\ p[2] = q[2] => p = q
<1>1. ASSUME NEW p \in Filed(l)
      PROVE  /\ p \in FiledLines /\ p = <<p[1], p[2], p[3]>>
             /\ p[1] \in DOMAIN logFiles /\ p[2] \in 1..Len(logFiles[p[1]])
             /\ logFiles[p[1]][p[2]] = <<l, p[3]>>
  <2>1. PICK f \in DOMAIN logFiles : \E i \in DOMAIN logFiles[f] :
               logFiles[f][i][1] = l /\ p = <<f, i, logFiles[f][i][2]>>
    BY InLinesOf DEF Filed
  <2>2. logFiles[f] \in Seq(LogLines) /\ f \in FileNames
    BY DEF LogInv, FilesInv, DirectoryInv, FileNames
  <2>3. PICK i \in 1..Len(logFiles[f]) :
               logFiles[f][i][1] = l /\ p = <<f, i, logFiles[f][i][2]>>
    BY <2>1, <2>2
  <2>4. logFiles[f][i] \in LogLines /\ i \in Nat
    BY <2>2, <2>3
  <2>5. logFiles[f][i] = <<l, logFiles[f][i][2]>> /\ logFiles[f][i][2] \in Nat
    BY <2>3, <2>4, LogConstants DEF LogLines
  <2> QED
    BY <2>2, <2>3, <2>4, <2>5 DEF FiledLines
<1>2. ASSUME NEW p \in Filed(l), NEW q \in Filed(l), p[1] = q[1], p[2] = q[2]
      PROVE  p = q
  <2>1. p = <<p[1], p[2], p[3]>> /\ q = <<q[1], q[2], q[3]>> /\ <<l, p[3]>> = <<l, q[3]>>
    BY <1>1, <1>2
  <2>2. p[3] = q[3]
    BY <2>1
  <2> QED
    BY <1>2, <2>1, <2>2
<1> QED
  BY <1>1, <1>2

LEMMA WaitingForm ==
  ASSUME LogInv, NEW l \in Loggers
  PROVE  /\ logger[l].hand \in Seq(LogLines) /\ Len(logger[l].hand) <= 1
         /\ logger[l].queue \in Seq(LogLines)
         /\ Waiting(l) \in Seq(LogLines)
         /\ Range(Waiting(l)) = Range(logger[l].hand) \cup Range(logger[l].queue)
<1>1. PICK hand \in Seq(LogLines) : hand = logger[l].hand /\ Len(hand) <= 1
  BY DEF LogInv, LoggerInv
<1>2. PICK queue \in Seq(LogLines) : queue = logger[l].queue
  BY DEF LogInv, LoggerInv
<1>3. PICK w : w = hand \o queue
  OBVIOUS
<1>4. /\ w \in Seq(LogLines) /\ DOMAIN w = 1..(Len(hand) + Len(queue))
      /\ Len(hand) \in Nat /\ Len(queue) \in Nat
      /\ \A i \in 1..Len(hand) : w[i] = hand[i]
      /\ \A i \in 1..Len(queue) : w[Len(hand) + i] = queue[i]
  BY <1>3
<1>5. ASSUME NEW x \in Range(w)
      PROVE  x \in Range(hand) \cup Range(queue)
  <2>1. PICK i \in 1..(Len(hand) + Len(queue)) : x = w[i]
    BY <1>4 DEF Range
  <2>2. CASE i <= Len(hand)
    BY <1>4, <2>1, <2>2 DEF Range
  <2>3. CASE i > Len(hand)
    <3>1. PICK j \in 1..Len(queue) : i = Len(hand) + j
      <4>1. i - Len(hand) \in 1..Len(queue) /\ i = Len(hand) + (i - Len(hand))
        BY <1>4, <2>3
      <4> QED
        BY <4>1
    <3>2. x = queue[j] /\ j \in DOMAIN queue
      BY <1>4, <2>1, <3>1
    <3> QED
      BY <3>2 DEF Range
  <2> QED
    BY <1>4, <2>2, <2>3
<1>6. ASSUME NEW i \in 1..Len(hand)
      PROVE  hand[i] \in Range(w)
  <2>1. i \in DOMAIN w
    BY <1>4
  <2> QED
    BY <1>4, <2>1 DEF Range
<1>7. ASSUME NEW i \in 1..Len(queue)
      PROVE  queue[i] \in Range(w)
  <2>1. Len(hand) + i \in DOMAIN w
    BY <1>4
  <2> QED
    BY <1>4, <2>1 DEF Range
<1>8. DOMAIN hand = 1..Len(hand) /\ DOMAIN queue = 1..Len(queue)
  OBVIOUS
<1>9. Range(w) = Range(hand) \cup Range(queue)
  <2>1. \A x \in Range(hand) \cup Range(queue) : x \in Range(w)
    BY <1>6, <1>7, <1>8 DEF Range
  <2> QED
    BY <1>5, <2>1
<1> QED
  BY <1>1, <1>2, <1>3, <1>4, <1>9 DEF Waiting

\* A logger that takes no step, and whose lines stay where they are.
LEMMA LinesStay ==
  ASSUME NEW k \in Loggers, WriterInv(k), LinesInv(k), logger'[k] = logger[k],
         Filed(k)' = Filed(k), logDay \in Nat, logDay' \in Nat, logDay <= logDay', logger[k].date \in Nat
  PROVE  WriterInv(k)' /\ LinesInv(k)'
<1>1. WriterInv(k)'
  BY DEF WriterInv
<1>2. Waiting(k)' = Waiting(k)
  BY DEF Waiting
<1> QED
  BY <1>1, <1>2 DEF LinesInv

LEMMA FiledStay ==
  ASSUME UNCHANGED logFiles, NEW k
  PROVE  Filed(k)' = Filed(k)
BY DEF Filed

\* A step of one logger that leaves the files alone.
LEMMA OwnLinesStep ==
  ASSUME KeepInv, LogInv', NEW l \in Loggers, OthersKeep(l), UNCHANGED <<logDay, logFiles>>,
         WriterInv(l)', LinesInv(l)'
  PROVE  KeepInv'
<1>1. ASSUME NEW k \in Loggers
      PROVE  WriterInv(k)' /\ LinesInv(k)'
  <2>1. CASE k = l
    BY <2>1
  <2>2. CASE k # l
    <3>1. logger'[k] = logger[k] /\ WriterInv(k) /\ LinesInv(k)
      BY <2>2 DEF OthersKeep, KeepInv
    <3>2. logger[k].date \in Nat /\ logDay \in Nat
      BY LogConstants DEF KeepInv, LogInv, LoggerInv
    <3> QED
      BY <3>1, <3>2, FiledStay, LinesStay
  <2> QED
    BY <2>1, <2>2
<1>2. DirectoryInv'
  BY DEF KeepInv, DirectoryInv
<1> QED
  BY <1>1, <1>2 DEF KeepInv

\* What the invariant says of one logger.
LEMMA KeepFacts ==
  ASSUME KeepInv, NEW l \in Loggers
  PROVE  /\ LogInv /\ LoggersFormed /\ DirectoryInv /\ LoggerInv(l) /\ WriterInv(l)
         /\ logger[l].sent \in Nat /\ logger[l].date \in Nat /\ logger[l].seq \in Nat
         /\ logDay \in Nat
BY LogConstants DEF KeepInv, LogInv, LoggerInv, WriterInv

LEMMA KeepLines ==
  ASSUME KeepInv, NEW l \in Loggers
  PROVE  /\ Filed(l) \in SUBSET FiledLines /\ Waiting(l) \in Seq(LogLines)
         /\ LinesKept(l, Filed(l), Waiting(l), logger[l].accepted)
         /\ \A p \in Filed(l) : p[3] <= logger[l].sent
         /\ logger[l].phase # "off" =>
              \A p \in Filed(l) : ~NamedBefore(<<logger[l].date, logger[l].seq>>, p[1])
         /\ \A i \in DOMAIN Waiting(l) : Waiting(l)[i][1] = l /\ Waiting(l)[i][2] <= logger[l].sent
<1>1. LinesInv(l) /\ LogInv /\ DirectoryInv
  BY DEF KeepInv
<1> QED
  BY <1>1, FiledForm, WaitingForm DEF LinesInv

\* A logger's lines are in files of days that have come.
LEMMA FiledSoFar ==
  ASSUME KeepInv, NEW l \in Loggers, NEW p \in Filed(l)
  PROVE  p[1] \in DOMAIN logFiles /\ p[1][1] \in Nat /\ p[1][1] <= logDay
<1>1. p[1] \in DOMAIN logFiles
  BY KeepFacts, FiledForm
<1>2. p[1] \in (1..logDay) \X Nat
  BY <1>1, KeepFacts DEF DirectoryInv
<1> QED
  BY <1>1, <1>2, KeepFacts

\* What the next state has to satisfy.
LEMMA NextLines ==
  ASSUME NEW l, NEW filed, Filed(l)' = filed, NEW waiting, Waiting(l)' = waiting,
         NEW accepted, logger'[l].accepted = accepted,
         \A p \in filed : p[3] <= logger'[l].sent,
         logger'[l].phase # "off" =>
           \A p \in filed : ~NamedBefore(<<logger'[l].date, logger'[l].seq>>, p[1]),
         \A i \in DOMAIN waiting : waiting[i][1] = l /\ waiting[i][2] <= logger'[l].sent,
         LinesKept(l, filed, waiting, accepted)
  PROVE  LinesInv(l)'
BY DEF LinesInv

LEMMA SendKeeps ==
  ASSUME KeepInv, LogInv', NEW l \in Loggers, LogSend(l)
  PROVE  KeepInv'
<1>0. /\ LogInv /\ LoggersFormed /\ DirectoryInv /\ LoggerInv(l) /\ WriterInv(l)
      /\ logger[l].sent \in Nat /\ logger[l].date \in Nat /\ logger[l].seq \in Nat
      /\ logDay \in Nat
  BY KeepFacts
<1>1. PICK line : line = <<l, logger[l].sent + 1>>
  OBVIOUS
<1>2. /\ OthersKeep(l) /\ UNCHANGED <<logDay, logFiles, rotateLock>>
      /\ logger[l].phase = "open" /\ logger[l].sent < MaxLines
      /\ logger'[l].phase = logger[l].phase /\ logger'[l].step = logger[l].step
      /\ logger'[l].hand = logger[l].hand /\ logger'[l].handle = logger[l].handle
      /\ logger'[l].date = logger[l].date /\ logger'[l].seq = logger[l].seq
      /\ logger'[l].sent = logger[l].sent + 1
      /\ \/ /\ logger'[l].queue = Append(logger[l].queue, line)
            /\ logger'[l].accepted = logger[l].accepted \cup {line}
         \/ /\ logger'[l].queue = logger[l].queue
            /\ logger'[l].accepted = logger[l].accepted
  BY <1>1, <1>0, SendDoes
<1>3. line \in LogLines /\ line[1] = l /\ line[2] = logger[l].sent + 1
  BY <1>1, <1>2, <1>0, LogConstants DEF LogLines
<1>4. WriterInv(l)'
  BY <1>2, <1>0 DEF WriterInv
<1>5. Filed(l)' = Filed(l)
  BY <1>2, FiledStay
<1>6. PICK filed \in SUBSET FiledLines : filed = Filed(l)
  BY KeepLines
<1>7. PICK waiting \in Seq(LogLines) : waiting = Waiting(l)
  BY KeepLines
<1>8. ASSUME NEW p \in filed
      PROVE  /\ p[3] <= logger[l].sent + 1 /\ p[3] < line[2]
             /\ ~NamedBefore(<<logger'[l].date, logger'[l].seq>>, p[1])
  <2>1. p[3] \in Nat /\ p[3] <= logger[l].sent /\ logger[l].sent \in Nat
    BY <1>6, <1>0, KeepLines DEF FiledLines
  <2>2. ~NamedBefore(<<logger'[l].date, logger'[l].seq>>, p[1])
    BY <1>2, <1>6, KeepLines
  <2> QED
    BY <1>3, <2>1, <2>2
<1>9. ASSUME NEW i \in DOMAIN waiting
      PROVE  waiting[i][1] = l /\ waiting[i][2] <= logger[l].sent + 1 /\ waiting[i][2] < line[2]
  <2>1. waiting[i][2] \in Nat
    <3>1. waiting[i] \in LogLines
      OBVIOUS
    <3> QED
      BY <3>1, LogConstants DEF LogLines
  <2>2. waiting[i][1] = l /\ waiting[i][2] <= logger[l].sent /\ logger[l].sent \in Nat
    BY <1>7, <1>0, KeepLines
  <2> QED
    BY <1>3, <2>1, <2>2
<1>10. LinesKept(l, filed, waiting, logger[l].accepted)
  BY <1>6, <1>7, KeepLines
<1>11. LinesInv(l)'
  <2>1. CASE logger'[l].queue = logger[l].queue /\ logger'[l].accepted = logger[l].accepted
    <3>1. Waiting(l)' = waiting
      BY <1>2, <1>7, <2>1 DEF Waiting
    <3> QED
      BY <1>2, <1>5, <1>6, <1>8, <1>9, <1>10, <2>1, <3>1, NextLines
  <2>2. CASE /\ logger'[l].queue = Append(logger[l].queue, line)
             /\ logger'[l].accepted = logger[l].accepted \cup {line}
    <3>1. PICK longer : longer = Append(waiting, line)
      OBVIOUS
    <3>2. Waiting(l)' = longer
      <4>1. PICK hand \in Seq(LogLines), queue \in Seq(LogLines) :
                   hand = logger[l].hand /\ queue = logger[l].queue
        BY <1>0, WaitingForm
      <4>2. hand \o Append(queue, line) = Append(hand \o queue, line)
        BY <1>3
      <4> QED
        BY <1>2, <1>7, <2>2, <3>1, <4>1, <4>2 DEF Waiting
    <3>3. LinesKept(l, filed, longer, logger'[l].accepted)
      BY <1>3, <1>8, <1>9, <1>10, <2>2, <3>1, KeptWhenSent
    <3>4. ASSUME NEW i \in DOMAIN longer
          PROVE  longer[i][1] = l /\ longer[i][2] <= logger'[l].sent
      <4>1. (i \in DOMAIN waiting /\ longer[i] = waiting[i]) \/ longer[i] = line
        BY <1>3, <3>1
      <4>2. line[2] <= logger[l].sent + 1
        BY <1>3, <1>0
      <4> QED
        BY <1>2, <1>3, <1>9, <4>1, <4>2
    <3> QED
      BY <1>2, <1>5, <1>6, <1>8, <3>2, <3>3, <3>4, NextLines
  <2> QED
    BY <1>2, <2>1, <2>2
<1> QED
  BY <1>2, <1>4, <1>11, OwnLinesStep

LEMMA TakeKeeps ==
  ASSUME KeepInv, LogInv', NEW l \in Loggers, TakeEntry(l)
  PROVE  KeepInv'
<1>0. /\ LogInv /\ LoggersFormed /\ DirectoryInv /\ LoggerInv(l) /\ WriterInv(l)
      /\ logger[l].sent \in Nat /\ logger[l].date \in Nat /\ logger[l].seq \in Nat
      /\ logDay \in Nat
  BY KeepFacts
<1>1. /\ OthersKeep(l) /\ UNCHANGED <<logDay, logFiles, rotateLock>>
      /\ logger[l].phase # "off" /\ logger[l].step = "take" /\ logger[l].queue # <<>>
      /\ logger'[l].phase = logger[l].phase /\ logger'[l].handle = logger[l].handle
      /\ logger'[l].queue = Tail(logger[l].queue) /\ logger'[l].hand = <<Head(logger[l].queue)>>
      /\ logger'[l].sent = logger[l].sent
      /\ logger'[l].accepted = logger[l].accepted /\ logger'[l].date = logDay
      /\ \/ /\ logger[l].date # logDay
            /\ logger'[l].step = "open" /\ logger'[l].seq = FindLastSeq(logDay)
         \/ /\ logger[l].date = logDay /\ logger'[l].seq = logger[l].seq
            /\ logger'[l].step \in {"lock", "write"}
  BY <1>0, TakeDoes
<1>2. logger[l].hand = <<>> /\ logger[l].phase # "new"
  BY <1>1, <1>0 DEF WriterInv
<1>3. Waiting(l)' = Waiting(l)
  <2>1. PICK queue \in Seq(LogLines) : queue = logger[l].queue /\ queue # <<>>
    BY <1>1, <1>0, WaitingForm
  <2>2. <<Head(queue)>> \o Tail(queue) = <<>> \o queue
    BY <2>1
  <2> QED
    BY <1>1, <1>2, <2>1, <2>2 DEF Waiting
<1>4. logDay \in Nat /\ logDay <= logDay
  BY <1>0, LogConstants
<1>5. WriterInv(l)'
  <2>1. logger'[l].hand # <<>>
    BY <1>1
  <2>2. logger'[l].seq \in Nat
    BY <1>1, <1>0, LastSeqFound DEF WriterInv
  <2>3. logger[l].handle \in {NoHandle, <<logger[l].date, logger[l].seq>>}
    BY <1>1, <1>0 DEF WriterInv
  <2> QED
    BY <1>1, <1>2, <1>4, <2>1, <2>2, <2>3 DEF WriterInv
<1>6. \A p \in Filed(l) : ~NamedBefore(<<logger'[l].date, logger'[l].seq>>, p[1])
  <2>1. CASE logger'[l].seq = logger[l].seq /\ logger[l].date = logDay
    BY <1>1, <2>1, KeepLines
  <2>2. CASE logger'[l].seq = FindLastSeq(logDay)
    <3>1. \A p \in Filed(l) : p[1] \in DOMAIN logFiles /\ p[1][1] <= logDay
      BY FiledSoFar
    <3> QED
      BY <1>1, <1>4, <2>2, <3>1, <1>0, LastFileIsLast
  <2> QED
    BY <1>1, <2>1, <2>2
<1>7. Filed(l)' = Filed(l)
  BY <1>1, FiledStay
<1>8. LinesInv(l)'
  BY ZenonT(60), <1>1, <1>3, <1>6, <1>7, KeepLines, NextLines
<1> QED
  BY <1>1, <1>5, <1>8, OwnLinesStep

LEMMA LockKeeps ==
  ASSUME KeepInv, LogInv', NEW l \in Loggers, LockAndScan(l)
  PROVE  KeepInv'
<1>0. /\ LogInv /\ LoggersFormed /\ DirectoryInv /\ LoggerInv(l) /\ WriterInv(l)
      /\ logger[l].sent \in Nat /\ logger[l].date \in Nat /\ logger[l].seq \in Nat
      /\ logDay \in Nat
  BY KeepFacts
<1>1. /\ OthersKeep(l) /\ UNCHANGED <<logDay, logFiles>>
      /\ logger[l].phase # "off" /\ logger[l].step = "lock"
      /\ logger'[l].phase = logger[l].phase /\ logger'[l].step = "open"
      /\ logger'[l].queue = logger[l].queue /\ logger'[l].hand = logger[l].hand
      /\ logger'[l].handle = logger[l].handle /\ logger'[l].date = logger[l].date
      /\ logger'[l].seq = FindLastSeq(logger[l].date)
      /\ logger'[l].accepted = logger[l].accepted /\ logger'[l].sent = logger[l].sent
  BY <1>0, LockDoes
<1>2. Waiting(l)' = Waiting(l) /\ Filed(l)' = Filed(l)
  BY <1>1, FiledStay DEF Waiting
<1>3. WriterInv(l)'
  <2>1. logger'[l].seq \in Nat
    BY <1>1, <1>0, LastSeqFound
  <2>2. logger[l].date <= logDay /\ logger[l].hand # <<>> /\ logger[l].phase # "new"
    BY <1>1, <1>0 DEF WriterInv
  <2> QED
    BY <1>1, <2>1, <2>2 DEF WriterInv
<1>4. \A p \in Filed(l) : ~NamedBefore(<<logger[l].date, FindLastSeq(logger[l].date)>>, p[1])
  <2> SUFFICES ASSUME NEW p \in Filed(l)
               PROVE  ~NamedBefore(<<logger[l].date, FindLastSeq(logger[l].date)>>, p[1])
    OBVIOUS
  <2>1. ~NamedBefore(<<logger[l].date, logger[l].seq>>, p[1])
    BY <1>1, KeepLines
  <2>2. p[1] \in DOMAIN logFiles /\ p[1][1] \in Nat /\ logger[l].date \in Nat
    BY <1>0, FiledSoFar
  <2>3. p[1][1] <= logger[l].date
    BY <2>1, <2>2 DEF NamedBefore
  <2> QED
    BY <2>2, <2>3, <1>0, LastFileIsLast
<1>5. \A p \in Filed(l) : ~NamedBefore(<<logger'[l].date, logger'[l].seq>>, p[1])
  BY <1>1, <1>4
<1>6. /\ \A p \in Filed(l) : p[3] <= logger'[l].sent
      /\ \A i \in DOMAIN Waiting(l) : Waiting(l)[i][1] = l /\ Waiting(l)[i][2] <= logger'[l].sent
      /\ LinesKept(l, Filed(l), Waiting(l), logger'[l].accepted)
  BY <1>1, KeepLines
<1>7. LinesInv(l)'
  BY <1>2, <1>5, <1>6, NextLines
<1> QED
  BY <1>1, <1>3, <1>7, OwnLinesStep

LEMMA CloseKeeps ==
  ASSUME KeepInv, LogInv', NEW l \in Loggers, CloseLogger(l)
  PROVE  KeepInv'
<1>0. /\ LogInv /\ LoggersFormed /\ DirectoryInv /\ LoggerInv(l) /\ WriterInv(l)
      /\ logger[l].sent \in Nat /\ logger[l].date \in Nat /\ logger[l].seq \in Nat
      /\ logDay \in Nat
  BY KeepFacts
<1>1. /\ OthersKeep(l) /\ UNCHANGED <<logDay, logFiles, rotateLock>>
      /\ logger[l].phase = "open" /\ logger'[l].phase = "closing"
      /\ logger'[l].step = logger[l].step
      /\ logger'[l].queue = logger[l].queue /\ logger'[l].hand = logger[l].hand
      /\ logger'[l].handle = logger[l].handle /\ logger'[l].date = logger[l].date
      /\ logger'[l].seq = logger[l].seq /\ logger'[l].accepted = logger[l].accepted
      /\ logger'[l].sent = logger[l].sent
  BY <1>0, CloseDoes
<1>2. Waiting(l)' = Waiting(l) /\ Filed(l)' = Filed(l)
  BY <1>1, FiledStay DEF Waiting
<1>3. WriterInv(l)'
  BY <1>1, <1>0 DEF WriterInv
<1>4. LinesInv(l)'
  BY <1>1, <1>2, KeepLines, NextLines
<1> QED
  BY <1>1, <1>3, <1>4, OwnLinesStep

LEMMA OneLine ==
  ASSUME NEW S, NEW h \in Seq(S), Len(h) <= 1, h # <<>>
  PROVE  \E x \in S : h = <<x>>
<1>1. Len(h) \in Nat /\ Len(h) # 0
  OBVIOUS
<1>2. \A n \in Nat : n <= 1 /\ n # 0 => n = 1
  OBVIOUS
<1>3. Len(h) = 1
  BY <1>1, <1>2
<1>4. h[1] \in S
  BY <1>3
<1>5. h = <<h[1]>>
  BY <1>3, <1>4
<1> QED
  BY <1>4, <1>5

\* The line in the hand, before those in the queue.
LEMMA LineInHand ==
  ASSUME KeepInv, NEW l \in Loggers, logger[l].hand # <<>>
  PROVE  \E line \in LogLines : \E later \in Seq(LogLines) :
           /\ logger[l].hand = <<line>> /\ logger[l].queue = later
           /\ Waiting(l) = <<line>> \o later
           /\ line[1] = l /\ line[2] <= logger[l].sent
           /\ \A i \in DOMAIN later : later[i][1] = l /\ later[i][2] <= logger[l].sent
<1>0. /\ LogInv /\ LoggersFormed /\ DirectoryInv /\ LoggerInv(l) /\ WriterInv(l)
      /\ logger[l].sent \in Nat /\ logger[l].date \in Nat /\ logger[l].seq \in Nat
      /\ logDay \in Nat
  BY KeepFacts
<1>1. PICK hand \in Seq(LogLines) : hand = logger[l].hand /\ Len(hand) <= 1 /\ hand # <<>>
  BY <1>0, WaitingForm
<1>2. PICK later \in Seq(LogLines) : later = logger[l].queue
  BY <1>0, WaitingForm
<1>4. PICK line \in LogLines : hand = <<line>>
  BY <1>1, OneLine
<1>5. Waiting(l) = <<line>> \o later
  BY <1>1, <1>2, <1>4 DEF Waiting
<1>6. PICK w : w = <<line>> \o later
  OBVIOUS
<1>7. /\ 1 \in DOMAIN w /\ w[1] = line
      /\ \A i \in DOMAIN later : i + 1 \in DOMAIN w /\ w[i + 1] = later[i]
  BY <1>6
<1>8. \A i \in DOMAIN w : w[i][1] = l /\ w[i][2] <= logger[l].sent
  BY <1>5, <1>6, KeepLines
<1>9. \A i \in DOMAIN later : later[i][1] = l /\ later[i][2] <= logger[l].sent
  BY <1>7, <1>8
<1>10. line[1] = l /\ line[2] <= logger[l].sent
  BY <1>7, <1>8
<1>11. logger[l].hand = <<line>> /\ logger[l].queue = later
  BY <1>1, <1>2, <1>4
<1> QED
  BY <1>5, <1>9, <1>10, <1>11

LEMMA NoneBefore ==
  ASSUME NEW q \in Seq(LogLines)
  PROVE  <<>> \o q = q
OBVIOUS

LEMMA LosesKeeps ==
  ASSUME KeepInv, LogInv', NEW l \in Loggers, LosesLine(l)
  PROVE  KeepInv'
<1>0. /\ LogInv /\ LoggersFormed /\ DirectoryInv /\ LoggerInv(l) /\ WriterInv(l)
      /\ logger[l].sent \in Nat /\ logger[l].date \in Nat /\ logger[l].seq \in Nat
      /\ logDay \in Nat
  BY KeepFacts
<1>1. /\ OthersKeep(l) /\ UNCHANGED <<logDay, logFiles>>
      /\ logger[l].phase # "off" /\ logger[l].step # "take"
      /\ logger'[l].phase = logger[l].phase /\ logger'[l].step = "take"
      /\ logger'[l].queue = logger[l].queue /\ logger'[l].hand = <<>>
      /\ logger'[l].handle \in {NoHandle, logger[l].handle}
      /\ logger[l].step = "open" => logger'[l].handle = NoHandle
      /\ logger'[l].date = logger[l].date /\ logger'[l].seq = logger[l].seq
      /\ logger'[l].accepted = logger[l].accepted \ Range(logger[l].hand)
      /\ logger'[l].sent = logger[l].sent
  BY <1>0, LosesDoes
<1>2. logger[l].phase # "new"
  BY <1>0 DEF LosesLine, RotateLockFails, WriteLine, WriterAt, WriterInv
<1>3. logger[l].hand # <<>>
  BY <1>1, <1>2, <1>0 DEF WriterInv
<1>4. PICK line \in LogLines : \E later \in Seq(LogLines) :
        /\ logger[l].hand = <<line>> /\ logger[l].queue = later
        /\ Waiting(l) = <<line>> \o later
        /\ \A i \in DOMAIN later : later[i][1] = l /\ later[i][2] <= logger[l].sent
  BY <1>3, LineInHand
<1>5. PICK later \in Seq(LogLines) :
        /\ logger[l].hand = <<line>> /\ logger[l].queue = later
        /\ Waiting(l) = <<line>> \o later
        /\ \A i \in DOMAIN later : later[i][1] = l /\ later[i][2] <= logger[l].sent
  BY <1>4
<1>6. Waiting(l)' = later
  BY <1>1, <1>5, NoneBefore DEF Waiting
<1>7. Range(logger[l].hand) = {line}
  <2>1. Range(<<line>>) = {line}
    BY DEF Range
  <2> QED
    BY <1>5, <2>1
<1>8. LinesKept(l, Filed(l), later, logger[l].accepted \ {line})
  BY <1>5, KeepLines, KeptWhenLost
<1>9. WriterInv(l)'
  BY <1>1, <1>2, <1>0 DEF WriterInv
<1>10. Filed(l)' = Filed(l)
  BY <1>1, FiledStay
<1>11. logger'[l].accepted = logger[l].accepted \ {line}
  BY <1>1, <1>7
<1>12. \A i \in DOMAIN later : later[i][1] = l /\ later[i][2] <= logger'[l].sent
  BY <1>1, <1>5
<1>13. /\ \A p \in Filed(l) : p[3] <= logger'[l].sent
       /\ \A p \in Filed(l) : ~NamedBefore(<<logger'[l].date, logger'[l].seq>>, p[1])
  BY <1>1, KeepLines
<1>14. LinesInv(l)'
  BY <1>6, <1>8, <1>10, <1>11, <1>12, <1>13, NextLines
<1> QED
  BY <1>1, <1>9, <1>14, OwnLinesStep

LEMMA EndsKeeps ==
  ASSUME KeepInv, LogInv', NEW l \in Loggers, EndsLogger(l)
  PROVE  KeepInv'
<1>0. /\ LogInv /\ LoggersFormed /\ DirectoryInv /\ LoggerInv(l) /\ WriterInv(l)
      /\ logger[l].sent \in Nat /\ logger[l].date \in Nat /\ logger[l].seq \in Nat
      /\ logDay \in Nat
  BY KeepFacts
<1>1. /\ OthersKeep(l) /\ UNCHANGED <<logDay, logFiles>>
      /\ logger'[l].phase = "off" /\ logger'[l].step = "take"
      /\ logger'[l].queue = <<>> /\ logger'[l].hand = <<>>
      /\ logger'[l].handle = NoHandle /\ logger'[l].date = 0
      /\ logger'[l].seq = 0 /\ logger'[l].sent = logger[l].sent
      /\ \/ /\ logger[l].phase = "new" \/ (logger[l].step = "take" /\ logger[l].queue = <<>>)
            /\ logger'[l].accepted = logger[l].accepted
         \/ logger'[l].accepted =
              logger[l].accepted \ (Range(logger[l].hand) \cup Range(logger[l].queue))
  BY <1>0, EndsDoes
<1>2. Waiting(l)' = <<>> /\ DOMAIN <<>> = {}
  <2>1. <<>> \o <<>> = <<>> /\ DOMAIN <<>> = {}
    OBVIOUS
  <2> QED
    BY <1>1, <2>1 DEF Waiting
<1>3. LinesKept(l, Filed(l), <<>>, logger'[l].accepted)
  <2>1. CASE logger'[l].accepted = logger[l].accepted \ (Range(logger[l].hand) \cup Range(logger[l].queue))
    <3>1. logger'[l].accepted = logger[l].accepted \ Range(Waiting(l))
      BY <2>1, <1>0, WaitingForm
    <3>2. LinesKept(l, Filed(l), <<>>, logger[l].accepted \ Range(Waiting(l)))
      BY KeepLines, KeptWhenCleared
    <3> QED
      BY <3>1, <3>2
  <2>2. CASE /\ logger[l].phase = "new" \/ (logger[l].step = "take" /\ logger[l].queue = <<>>)
             /\ logger'[l].accepted = logger[l].accepted
    <3>1. logger[l].hand = <<>> /\ logger[l].queue = <<>>
      BY <2>2, <1>0 DEF WriterInv
    <3>2. Waiting(l) = <<>>
      <4>1. <<>> \o <<>> = <<>>
        OBVIOUS
      <4> QED
        BY <3>1, <4>1 DEF Waiting
    <3> QED
      BY <2>2, <3>2, KeepLines
  <2> QED
    BY <1>1, <2>1, <2>2
<1>4. WriterInv(l)'
  BY <1>1, <1>0, LogConstants DEF WriterInv
<1>5. Filed(l)' = Filed(l)
  BY <1>1, FiledStay
<1>6. LinesInv(l)'
  BY <1>1, <1>2, <1>3, <1>5, <1>0, KeepLines, NextLines
<1> QED
  BY <1>1, <1>4, <1>6, OwnLinesStep


\* A step of one logger that touches no line of the others in the files.
LEMMA FilesLinesStep ==
  ASSUME KeepInv, LogInv', DirectoryInv', NEW l \in Loggers, OthersKeep(l), UNCHANGED logDay,
         \A k \in Loggers : k # l => Filed(k)' = Filed(k),
         WriterInv(l)', LinesInv(l)'
  PROVE  KeepInv'
<1>1. ASSUME NEW k \in Loggers
      PROVE  WriterInv(k)' /\ LinesInv(k)'
  <2>1. CASE k = l
    BY <2>1
  <2>2. CASE k # l
    <3>1. logger'[k] = logger[k] /\ WriterInv(k) /\ LinesInv(k)
      BY <2>2 DEF OthersKeep, KeepInv
    <3>2. logger[k].date \in Nat /\ logDay \in Nat /\ logDay' = logDay /\ logDay <= logDay
      BY KeepFacts
    <3>3. Filed(k)' = Filed(k)
      BY <2>2
    <3> QED
      BY <3>1, <3>2, <3>3, LinesStay
  <2> QED
    BY <2>1, <2>2
<1> QED
  BY <1>1 DEF KeepInv

\* Whose lines there are when one is appended to a file.
LEMMA AppendedLines ==
  ASSUME NEW S, NEW files, NEW f \in DOMAIN files, files[f] \in Seq(S), NEW line \in S,
         NEW after, DOMAIN after = DOMAIN files, after[f] = files[f] \o <<line>>,
         \A g \in DOMAIN files : g # f => after[g] = files[g], NEW k
  PROVE  LinesOf(after, k) = IF line[1] = k THEN LinesOf(files, k) \cup {<<f, Len(files[f]) + 1, line[2]>>}
                                            ELSE LinesOf(files, k)
<1>1. PICK s \in Seq(S) : s = files[f]
  OBVIOUS
<1> DEFINE n == Len(s)
<1>2. PICK longer : longer = s \o <<line>>
  OBVIOUS
<1>3. /\ n \in Nat /\ DOMAIN s = 1..n /\ DOMAIN longer = 1..(n + 1)
      /\ \A i \in 1..n : longer[i] = s[i]
      /\ longer[n + 1] = line
  BY <1>2
<1>4. /\ DOMAIN after = DOMAIN files /\ after[f] = longer
      /\ \A g \in DOMAIN files : g # f => after[g] = files[g]
  BY <1>1, <1>2
<1> HIDE DEF n
<1>5. PICK place : place = <<f, n + 1, line[2]>>
  OBVIOUS
<1>6. ASSUME NEW p \in LinesOf(files, k)
      PROVE  p \in LinesOf(after, k)
  <2>1. PICK g \in DOMAIN files : \E i \in DOMAIN files[g] :
               files[g][i][1] = k /\ p = <<g, i, files[g][i][2]>>
    BY InLinesOf
  <2>2. PICK i \in DOMAIN files[g] : files[g][i][1] = k /\ p = <<g, i, files[g][i][2]>>
    BY <2>1
  <2>3. i \in DOMAIN after[g] /\ after[g][i] = files[g][i]
    <3>1. CASE g = f
      <4>1. i \in 1..n /\ i \in 1..(n + 1)
        BY <1>1, <1>3, <3>1
      <4> QED
        BY <1>1, <1>3, <1>4, <3>1, <4>1
    <3>2. CASE g # f
      BY <1>4, <3>2
    <3> QED
      BY <3>1, <3>2
  <2> QED
    BY <1>4, <2>2, <2>3, InLinesOf
<1>7. ASSUME line[1] = k
      PROVE  place \in LinesOf(after, k)
  <2>1. n + 1 \in DOMAIN after[f] /\ after[f][n + 1] = line
    BY <1>3, <1>4
  <2>2. after[f][n + 1][1] = k /\ place = <<f, n + 1, after[f][n + 1][2]>>
    BY <1>7, <1>5, <2>1
  <2> QED
    BY <1>4, <2>1, <2>2, InLinesOf
<1>8. ASSUME NEW p \in LinesOf(after, k)
      PROVE  p \in LinesOf(files, k) \/ (p = place /\ line[1] = k)
  <2>1. PICK g \in DOMAIN after : \E i \in DOMAIN after[g] :
               after[g][i][1] = k /\ p = <<g, i, after[g][i][2]>>
    BY InLinesOf
  <2>2. PICK i \in DOMAIN after[g] : after[g][i][1] = k /\ p = <<g, i, after[g][i][2]>>
    BY <2>1
  <2>3. CASE g # f
    <3>1. g \in DOMAIN files /\ i \in DOMAIN files[g] /\ after[g] = files[g]
      BY <1>4, <2>3
    <3> QED
      BY <2>2, <3>1, InLinesOf
  <2>4. CASE g = f
    <3>1. i \in 1..(n + 1) /\ after[g] = longer
      BY <1>3, <1>4, <2>4
    <3>2. CASE i = n + 1
      BY <1>3, <1>5, <2>2, <2>4, <3>1, <3>2
    <3>3. CASE i # n + 1
      <4>1. i \in 1..n
        BY <1>3, <3>1, <3>3
      <4>2. i \in DOMAIN files[f] /\ files[f][i] = after[g][i]
        BY <1>1, <1>3, <3>1, <4>1
      <4> QED
        BY <2>2, <2>4, <4>2, InLinesOf
    <3> QED
      BY <3>2, <3>3
  <2> QED
    BY <2>3, <2>4
<1> QED
  BY <1>1, <1>6, <1>7, <1>8, <1>5 DEF n

\* A line is written into the last file of its logger, behind all it has there.
LEMMA WriteKeeps ==
  ASSUME KeepInv, LogInv', NEW l \in Loggers, WriteLine(l), logger[l].handle \in DOMAIN logFiles
  PROVE  KeepInv'
<1>0. /\ LogInv /\ LoggersFormed /\ DirectoryInv /\ LoggerInv(l) /\ WriterInv(l)
      /\ logger[l].sent \in Nat /\ logger[l].date \in Nat /\ logger[l].seq \in Nat
      /\ logDay \in Nat
  BY KeepFacts
<1>1. /\ OthersKeep(l) /\ UNCHANGED <<logDay, rotateLock>>
      /\ logger[l].phase # "off" /\ logger[l].step = "write"
      /\ logFiles' = [logFiles EXCEPT ![logger[l].handle] = @ \o logger[l].hand]
      /\ logger'[l].phase = logger[l].phase /\ logger'[l].step = "take"
      /\ logger'[l].queue = logger[l].queue /\ logger'[l].hand = <<>>
      /\ logger'[l].handle = logger[l].handle /\ logger'[l].date = logger[l].date
      /\ logger'[l].seq = logger[l].seq /\ logger'[l].accepted = logger[l].accepted
      /\ logger'[l].sent = logger[l].sent
  BY <1>0, WriteDoes
<1>2. PICK f \in DOMAIN logFiles : f = logger[l].handle
  OBVIOUS
<1>3. f \in (1..logDay) \X Nat /\ f = <<logger[l].date, logger[l].seq>>
  <2>1. f \in (1..logDay) \X Nat
    BY <1>0 DEF DirectoryInv
  <2>2. f # NoHandle
    BY <2>1 DEF NoHandle
  <2> QED
    BY <1>0, <1>1, <1>2, <2>1, <2>2 DEF WriterInv
<1>4. logger[l].hand # <<>> /\ logger[l].phase # "new"
  BY <1>0, <1>1 DEF WriterInv
<1>5. PICK line \in LogLines : \E later \in Seq(LogLines) :
        /\ logger[l].hand = <<line>> /\ logger[l].queue = later
        /\ Waiting(l) = <<line>> \o later
        /\ line[1] = l /\ line[2] <= logger[l].sent
        /\ \A i \in DOMAIN later : later[i][1] = l /\ later[i][2] <= logger[l].sent
  BY <1>4, LineInHand
<1>6. PICK later \in Seq(LogLines) :
        /\ logger[l].hand = <<line>> /\ logger[l].queue = later
        /\ Waiting(l) = <<line>> \o later
        /\ line[1] = l /\ line[2] <= logger[l].sent
        /\ \A i \in DOMAIN later : later[i][1] = l /\ later[i][2] <= logger[l].sent
  BY <1>5
<1>7. logFiles[f] \in Seq(LogLines)
  BY <1>0 DEF LogInv, FilesInv
<1>8. PICK place : place = <<f, Len(logFiles[f]) + 1, line[2]>>
  OBVIOUS
<1>9. ASSUME NEW k
      PROVE  Filed(k)' = IF line[1] = k THEN Filed(k) \cup {place} ELSE Filed(k)
  <2>1. /\ DOMAIN logFiles' = DOMAIN logFiles /\ logFiles'[f] = logFiles[f] \o <<line>>
        /\ \A g \in DOMAIN logFiles : g # f => logFiles'[g] = logFiles[g]
    BY <1>1, <1>2, <1>6
  <2>2. LinesOf(logFiles', k) = IF line[1] = k THEN LinesOf(logFiles, k) \cup {place}
                                               ELSE LinesOf(logFiles, k)
    BY <1>7, <1>8, <2>1, AppendedLines
  <2> QED
    BY <2>2 DEF Filed
<1>10. Filed(l)' = Filed(l) \cup {place} /\ \A k \in Loggers : k # l => Filed(k)' = Filed(k)
  BY <1>6, <1>9
<1>11. Waiting(l)' = later
  BY <1>1, <1>6, NoneBefore DEF Waiting
<1>12. place \in FiledLines /\ place[3] = line[2] /\ place[1] = f
  <2>1. Len(logFiles[f]) + 1 \in Nat /\ line[2] \in Nat
    BY <1>7, LogConstants DEF LogLines
  <2>2. f \in FileNames
    BY <1>0, <1>3 DEF FileNames
  <2> QED
    BY <1>8, <2>1, <2>2 DEF FiledLines
<1>13. ASSUME NEW p \in Filed(l)
       PROVE  ~ReadBefore(place, p)
  <2>1. ~NamedBefore(f, p[1])
    BY <1>1, <1>3, KeepLines
  <2>2. p[1] \in DOMAIN logFiles /\ p[2] \in 1..Len(logFiles[p[1]])
    BY <1>0, FiledForm
  <2>3. p[1] = f => ~(place[2] < p[2])
    BY <1>7, <1>8, <2>2
  <2> QED
    BY <1>12, <2>1, <2>3 DEF ReadBefore
<1>14. LinesKept(l, Filed(l) \cup {place}, later, logger[l].accepted)
  <2>1. Filed(l) \in SUBSET FiledLines /\ LinesKept(l, Filed(l), <<line>> \o later, logger[l].accepted)
    BY <1>6, KeepLines
  <2> QED
    BY <1>6, <1>12, <1>13, <2>1, KeptWhenWritten
<1>15. ~NamedBefore(f, f)
  BY <1>3 DEF NamedBefore
<1>16. /\ \A p \in Filed(l) \cup {place} : p[3] <= logger'[l].sent
       /\ \A p \in Filed(l) \cup {place} : ~NamedBefore(<<logger'[l].date, logger'[l].seq>>, p[1])
  <2>1. ASSUME NEW p \in Filed(l)
        PROVE  p[3] <= logger[l].sent /\ ~NamedBefore(<<logger[l].date, logger[l].seq>>, p[1])
    BY <1>1, KeepLines
  <2>2. place[3] <= logger[l].sent /\ ~NamedBefore(<<logger[l].date, logger[l].seq>>, place[1])
    BY <1>3, <1>6, <1>12, <1>15
  <2> QED
    BY <1>1, <2>1, <2>2
<1>17. \A i \in DOMAIN later : later[i][1] = l /\ later[i][2] <= logger'[l].sent
  BY <1>1, <1>6
<1>18. LinesInv(l)'
  BY <1>1, <1>10, <1>11, <1>14, <1>16, <1>17, NextLines
<1>19. WriterInv(l)'
  BY <1>0, <1>1, <1>4 DEF WriterInv
<1>20. DirectoryInv'
  BY <1>0, <1>1 DEF DirectoryInv
<1> QED
  BY <1>1, <1>10, <1>18, <1>19, <1>20, FilesLinesStep


\* A new file is empty, and comes after those of its logger.
LEMMA OpenKeeps ==
  ASSUME KeepInv, LogInv', NEW l \in Loggers, OpenLogFile(l)
  PROVE  KeepInv'
<1>0. /\ LogInv /\ LoggersFormed /\ DirectoryInv /\ LoggerInv(l) /\ WriterInv(l)
      /\ logger[l].sent \in Nat /\ logger[l].date \in Nat /\ logger[l].seq \in Nat
      /\ logDay \in Nat
  BY KeepFacts
<1>1. PICK opened : opened = <<logger[l].date, logger[l].seq>>
  OBVIOUS
<1>2. /\ OthersKeep(l) /\ UNCHANGED logDay
      /\ logger[l].phase # "off" /\ logger[l].step = "open"
      /\ DOMAIN logFiles' = DOMAIN logFiles \cup {opened}
      /\ logFiles'[opened] = LinesIn(opened)
      /\ \A f \in DOMAIN logFiles : logFiles'[f] = logFiles[f]
      /\ logger'[l].queue = logger[l].queue /\ logger'[l].hand = logger[l].hand
      /\ logger'[l].date = logger[l].date /\ logger'[l].sent = logger[l].sent
      /\ logger'[l].accepted = logger[l].accepted
  BY <1>0, <1>1, OpenDoes
<1>3. \/ /\ logger'[l].phase = logger[l].phase /\ logger'[l].step = "open"
         /\ logger'[l].handle = NoHandle /\ logger'[l].seq = logger[l].seq + 1
      \/ /\ \/ /\ logger[l].phase = "new"
               /\ logger'[l].phase = "open" /\ logger'[l].step = "take"
            \/ /\ logger[l].phase # "new"
               /\ logger'[l].phase = logger[l].phase /\ logger'[l].step = "write"
         /\ logger'[l].handle = opened /\ logger'[l].seq = logger[l].seq
  BY ZenonT(60), <1>0, <1>1, OpenDoes
<1>4. opened \in (1..logDay) \X Nat /\ opened[1] = logger[l].date
  <2>1. logger[l].date # 0 /\ logger[l].date <= logDay
    BY <1>0, <1>2 DEF LoggerInv, WriterInv
  <2> QED
    BY <1>0, <1>1, <2>1
<1>5. ASSUME NEW k
      PROVE  Filed(k)' = Filed(k)
  <2>1. ASSUME NEW f, NEW i
        PROVE  f \in DOMAIN logFiles' /\ i \in DOMAIN logFiles'[f] <=>
                 f \in DOMAIN logFiles /\ i \in DOMAIN logFiles[f]
    <3>1. CASE f \in DOMAIN logFiles
      BY <1>2, <3>1
    <3>2. CASE f \notin DOMAIN logFiles
      <4>1. f = opened => DOMAIN logFiles'[f] = {}
        BY <1>2, <3>2 DEF LinesIn
      <4> QED
        BY <1>2, <3>2, <4>1
    <3> QED
      BY <3>1, <3>2
  <2>2. ASSUME NEW p
        PROVE  p \in LinesOf(logFiles', k) <=> p \in LinesOf(logFiles, k)
    <3>1. p \in LinesOf(logFiles', k) <=>
            \E f \in DOMAIN logFiles' : \E i \in DOMAIN logFiles'[f] :
              logFiles'[f][i][1] = k /\ p = <<f, i, logFiles'[f][i][2]>>
      BY InLinesOf
    <3>2. p \in LinesOf(logFiles, k) <=>
            \E f \in DOMAIN logFiles : \E i \in DOMAIN logFiles[f] :
              logFiles[f][i][1] = k /\ p = <<f, i, logFiles[f][i][2]>>
      BY InLinesOf
    <3> QED
      BY <1>2, <2>1, <3>1, <3>2
  <2> QED
    BY <2>2 DEF Filed
<1>6. Waiting(l)' = Waiting(l)
  BY <1>2 DEF Waiting
<1>7. ASSUME NEW p \in Filed(l)
      PROVE  ~NamedBefore(<<logger'[l].date, logger'[l].seq>>, p[1])
  <2>1. ~NamedBefore(<<logger[l].date, logger[l].seq>>, p[1])
    BY <1>2, KeepLines
  <2>2. p[1] \in (1..logDay) \X Nat
    BY <1>0, FiledSoFar DEF DirectoryInv
  <2>3. p[1][1] \in Nat /\ p[1][2] \in Nat
    BY <1>0, <2>2
  <2>4. ~NamedBefore(<<logger[l].date, logger[l].seq + 1>>, p[1])
    BY <1>0, <2>1, <2>3 DEF NamedBefore
  <2>5. logger'[l].seq \in {logger[l].seq, logger[l].seq + 1}
    BY <1>3
  <2> QED
    BY <1>2, <2>1, <2>4, <2>5
<1>8. /\ \A p \in Filed(l) : p[3] <= logger'[l].sent
      /\ \A i \in DOMAIN Waiting(l) : Waiting(l)[i][1] = l /\ Waiting(l)[i][2] <= logger'[l].sent
      /\ LinesKept(l, Filed(l), Waiting(l), logger'[l].accepted)
  BY <1>2, KeepLines
<1>9. LinesInv(l)'
  BY <1>5, <1>6, <1>7, <1>8, NextLines
<1>10. WriterInv(l)'
  <2>1. logger'[l].date <= logDay' /\ logger'[l].seq \in Nat
    BY <1>0, <1>2, <1>3 DEF WriterInv
  <2>2. /\ logger[l].phase = "new" => logger[l].hand = <<>> /\ logger[l].queue = <<>>
        /\ logger[l].phase # "new" => logger[l].hand # <<>>
    BY <1>0, <1>2 DEF WriterInv
  <2> QED
    BY <1>1, <1>2, <1>3, <2>1, <2>2 DEF WriterInv
<1>11. DirectoryInv'
  <2>1. \A f \in DOMAIN logFiles' : f \in (1..logDay') \X Nat
    BY <1>0, <1>2, <1>4 DEF DirectoryInv
  <2>2. ASSUME NEW f \in DOMAIN logFiles'
        PROVE  \E g \in DOMAIN logFiles' :
                 g[1] = f[1] /\ \A h \in DOMAIN logFiles' : h[1] = f[1] => h[2] <= g[2]
    <3>1. CASE \E e \in DOMAIN logFiles : e[1] = f[1]
      <4>1. PICK e \in DOMAIN logFiles : e[1] = f[1]
        BY <3>1
      <4>2. PICK g \in DOMAIN logFiles :
              g[1] = f[1] /\ \A h \in DOMAIN logFiles : h[1] = f[1] => h[2] <= g[2]
        BY <1>0, <4>1 DEF DirectoryInv
      <4>3. g[2] \in Nat /\ opened[2] \in Nat
        BY <1>0, <1>4 DEF DirectoryInv
      <4>4. CASE opened[1] = f[1] /\ opened[2] > g[2]
        <5>1. \A h \in DOMAIN logFiles : h[1] = f[1] => h[2] \in Nat /\ h[2] <= opened[2]
          BY <1>0, <4>2, <4>3, <4>4 DEF DirectoryInv
        <5> QED
          BY <1>2, <4>3, <4>4, <5>1
      <4>5. CASE ~(opened[1] = f[1] /\ opened[2] > g[2])
        <5>1. opened[1] = f[1] => opened[2] <= g[2]
          BY <4>3, <4>5
        <5> QED
          BY <1>2, <4>2, <5>1
      <4> QED
        BY <4>4, <4>5
    <3>2. CASE ~\E e \in DOMAIN logFiles : e[1] = f[1]
      <4>1. f = opened /\ opened[2] <= opened[2]
        BY <1>2, <1>4, <3>2
      <4> QED
        BY <1>2, <3>2, <4>1
    <3> QED
      BY <3>1, <3>2
  <2> QED
    BY <2>1, <2>2 DEF DirectoryInv
<1> QED
  BY <1>2, <1>5, <1>9, <1>10, <1>11, FilesLinesStep

\* A logger starts: files of old days go, with the lines in them.
LEMMA NewKeeps ==
  ASSUME KeepInv, LogInv', NEW l \in Loggers, NewLogger(l)
  PROVE  KeepInv'
<1>0. LogInv /\ LoggersFormed /\ DirectoryInv /\ logDay \in Nat
  BY KeepFacts
<1>1. PICK edge \in BOOLEAN :
        /\ logFiles' = [f \in DOMAIN logFiles \ LogCleanup(edge) |-> logFiles[f]]
        /\ \A k \in Loggers :
             /\ logger'[k].queue = logger[k].queue /\ logger'[k].hand = logger[k].hand
             /\ logger'[k].handle = logger[k].handle /\ logger'[k].sent = logger[k].sent
             /\ logger'[k].accepted =
                  logger[k].accepted \ UNION {Range(logFiles[f]) : f \in LogCleanup(edge)}
             /\ \/ /\ k # l
                   /\ logger'[k].phase = logger[k].phase /\ logger'[k].step = logger[k].step
                   /\ logger'[k].date = logger[k].date /\ logger'[k].seq = logger[k].seq
                \/ /\ k = l
                   /\ logger'[k].phase = "new" /\ logger'[k].step = "open"
                   /\ logger'[k].date = logDay /\ logger'[k].seq = FindLastSeq(logDay)
  BY <1>0, NewDoes
<1>2. UNCHANGED logDay /\ logger[l].phase = "off"
  BY <1>0, NewDoes
<1>3. PICK old : old = LogCleanup(edge)
  OBVIOUS
<1>4. PICK gone : gone = UNION {Range(logFiles[f]) : f \in old}
  OBVIOUS
<1>5. /\ old \subseteq DOMAIN logFiles
      /\ \A f \in DOMAIN logFiles, g \in old : f[1] = g[1] => f \in old
  BY <1>3 DEF LogCleanup
<1>6. /\ DOMAIN logFiles' = DOMAIN logFiles \ old
      /\ \A f \in DOMAIN logFiles' : logFiles'[f] = logFiles[f]
  BY <1>1, <1>3
<1>7. ASSUME NEW k
      PROVE  Filed(k)' = {p \in Filed(k) : p[1] \notin old}
  <2>1. ASSUME NEW p \in LinesOf(logFiles', k)
        PROVE  p \in LinesOf(logFiles, k) /\ p[1] \notin old
    <3>1. PICK f \in DOMAIN logFiles' : \E i \in DOMAIN logFiles'[f] :
                 logFiles'[f][i][1] = k /\ p = <<f, i, logFiles'[f][i][2]>>
      BY InLinesOf
    <3>2. f \in DOMAIN logFiles /\ f \notin old /\ logFiles'[f] = logFiles[f] /\ p[1] = f
      BY <1>6, <3>1
    <3> QED
      BY <3>1, <3>2, InLinesOf
  <2>2. ASSUME NEW p \in LinesOf(logFiles, k), p[1] \notin old
        PROVE  p \in LinesOf(logFiles', k)
    <3>1. PICK f \in DOMAIN logFiles : \E i \in DOMAIN logFiles[f] :
                 logFiles[f][i][1] = k /\ p = <<f, i, logFiles[f][i][2]>>
      BY InLinesOf
    <3>2. f \in DOMAIN logFiles' /\ logFiles'[f] = logFiles[f]
      BY <1>6, <2>2, <3>1
    <3> QED
      BY <3>1, <3>2, InLinesOf
  <2> QED
    BY <2>1, <2>2 DEF Filed
<1>8. ASSUME NEW k \in Loggers
      PROVE  LinesInv(k)'
  <2>1. PICK left : left = {p \in Filed(k) : p[1] \notin old}
    OBVIOUS
  <2>2. PICK waiting : waiting = Waiting(k)
    OBVIOUS
  <2>3. Filed(k)' = left /\ Waiting(k)' = waiting
    BY <1>1, <1>7, <2>1, <2>2 DEF Waiting
  <2>4. logger'[k].accepted = logger[k].accepted \ gone /\ logger'[k].sent = logger[k].sent
    BY <1>1, <1>3, <1>4
  <2>5. left \in SUBSET Filed(k) /\ Filed(k) \in SUBSET FiledLines /\ waiting \in Seq(LogLines)
    BY <2>1, <2>2, KeepLines
  <2>6. /\ LinesKept(k, Filed(k), waiting, logger[k].accepted)
        /\ \A i \in DOMAIN waiting : waiting[i][1] = k /\ waiting[i][2] <= logger[k].sent
        /\ \A p \in Filed(k) : p[3] <= logger[k].sent
    BY <2>2, KeepLines
  <2>7. \A p \in Filed(k), q \in Filed(k) : p[1] = q[1] /\ p[2] = q[2] => p = q
    BY <1>0, FiledForm
  <2>8. ASSUME NEW p \in Filed(k) \ left
        PROVE  <<k, p[3]>> \in gone
    <3>1. /\ p[1] \in old /\ p[2] \in 1..Len(logFiles[p[1]])
          /\ logFiles[p[1]][p[2]] = <<k, p[3]>>
      BY <1>0, <2>1, FiledForm
    <3>2. logFiles[p[1]] \in Seq(LogLines)
      BY <1>0, <1>5, <3>1 DEF LogInv, FilesInv
    <3>3. p[2] \in DOMAIN logFiles[p[1]]
      BY <3>1, <3>2
    <3> QED
      BY <1>4, <3>1, <3>3 DEF Range
  <2>9. ASSUME NEW n, <<k, n>> \in gone
        PROVE  \E p \in Filed(k) \ left : p[3] = n
    <3>1. PICK f \in old : <<k, n>> \in Range(logFiles[f])
      BY <1>4, <2>9
    <3>2. PICK i \in DOMAIN logFiles[f] : logFiles[f][i] = <<k, n>>
      BY <3>1 DEF Range
    <3>3. PICK p : p = <<f, i, n>>
      OBVIOUS
    <3>4. p \in Filed(k)
      BY <1>5, <3>2, <3>3, InLinesOf DEF Filed
    <3>5. p[3] = n /\ p \notin left
      BY <2>1, <3>3
    <3> QED
      BY <3>4, <3>5
  <2>10. LinesKept(k, left, waiting, logger'[k].accepted)
    <3>1. /\ Filed(k) \in SUBSET FiledLines /\ waiting \in Seq(LogLines) /\ left \in SUBSET Filed(k)
          /\ LinesKept(k, Filed(k), waiting, logger[k].accepted)
          /\ \A i \in DOMAIN waiting : waiting[i][1] = k
      BY <2>5, <2>6
    <3>2. \A p \in Filed(k) \ left : <<k, p[3]>> \in gone
      BY <2>8
    <3>3. \A n : <<k, n>> \in gone => \E p \in Filed(k) \ left : p[3] = n
      BY <2>9
    <3>4. LinesKept(k, left, waiting, logger[k].accepted \ gone)
      BY <2>7, <3>1, <3>2, <3>3, KeptWhenCleaned
    <3> QED
      BY <2>4, <3>4
  <2>11. ASSUME NEW p \in left, logger'[k].phase # "off"
         PROVE  ~NamedBefore(<<logger'[k].date, logger'[k].seq>>, p[1])
    <3>1. CASE k # l
      <4>1. /\ logger'[k].phase = logger[k].phase
            /\ logger'[k].date = logger[k].date /\ logger'[k].seq = logger[k].seq
        BY <1>1, <3>1
      <4> QED
        BY <2>5, <2>11, <4>1, KeepLines
    <3>2. CASE k = l
      <4>1. logger'[k].date = logDay /\ logger'[k].seq = FindLastSeq(logDay)
        BY <1>1, <3>2
      <4>2. p[1] \in DOMAIN logFiles /\ p[1][1] <= logDay
        BY <2>5, FiledSoFar
      <4> QED
        BY <1>0, <4>1, <4>2, LastFileIsLast
    <3> QED
      BY <3>1, <3>2
  <2>12. /\ \A p \in left : p[3] <= logger'[k].sent
         /\ \A i \in DOMAIN waiting : waiting[i][1] = k /\ waiting[i][2] <= logger'[k].sent
    BY <2>4, <2>5, <2>6
  <2> QED
    BY <2>3, <2>10, <2>11, <2>12, NextLines
<1>9. ASSUME NEW k \in Loggers
      PROVE  WriterInv(k)'
  <2>1. WriterInv(k)
    BY KeepFacts
  <2>2. CASE k # l
    <3>1. /\ logger'[k].queue = logger[k].queue /\ logger'[k].hand = logger[k].hand
          /\ logger'[k].handle = logger[k].handle
          /\ logger'[k].phase = logger[k].phase /\ logger'[k].step = logger[k].step
          /\ logger'[k].date = logger[k].date /\ logger'[k].seq = logger[k].seq
      BY <1>1, <2>2
    <3> QED
      BY <1>2, <2>1, <3>1 DEF WriterInv
  <2>3. CASE k = l
    <3>1. /\ logger'[k].phase = "new" /\ logger'[k].step = "open"
          /\ logger'[k].queue = logger[k].queue /\ logger'[k].hand = logger[k].hand
          /\ logger'[k].date = logDay /\ logger'[k].seq = FindLastSeq(logDay)
      BY <1>1, <2>3
    <3>2. logger[k].hand = <<>> /\ logger[k].queue = <<>>
      BY <1>2, <2>1, <2>3 DEF WriterInv
    <3>3. logger'[k].seq \in Nat /\ logger'[k].date <= logDay'
      BY <1>0, <1>2, <3>1, LastSeqFound
    <3> QED
      BY <3>1, <3>2, <3>3 DEF WriterInv
  <2> QED
    BY <2>2, <2>3
<1>10. DirectoryInv'
  <2>1. \A f \in DOMAIN logFiles' : f \in (1..logDay') \X Nat
    BY <1>0, <1>2, <1>6 DEF DirectoryInv
  <2>2. ASSUME NEW f \in DOMAIN logFiles'
        PROVE  \E g \in DOMAIN logFiles' :
                 g[1] = f[1] /\ \A h \in DOMAIN logFiles' : h[1] = f[1] => h[2] <= g[2]
    <3>1. f \in DOMAIN logFiles /\ f \notin old
      BY <1>6
    <3>2. PICK g \in DOMAIN logFiles :
            g[1] = f[1] /\ \A h \in DOMAIN logFiles : h[1] = f[1] => h[2] <= g[2]
      BY <1>0, <3>1 DEF DirectoryInv
    <3>3. g \notin old
      BY <1>5, <3>1, <3>2
    <3> QED
      BY <1>6, <3>2, <3>3
  <2> QED
    BY <2>1, <2>2 DEF DirectoryInv
<1> QED
  BY <1>8, <1>9, <1>10 DEF KeepInv

\* Midnight comes, or nothing happens.
LEMMA DaysKeep ==
  ASSUME KeepInv, LogInv', Midnight \/ UNCHANGED logVars
  PROVE  KeepInv'
<1>1. /\ UNCHANGED <<logFiles, logger>> /\ logDay' \in {logDay, logDay + 1}
      /\ LogInv /\ DirectoryInv /\ logDay \in Nat
  BY LogConstants DEF Midnight, logVars, KeepInv, LogInv
<1>2. logDay' \in Nat /\ logDay <= logDay'
  BY <1>1
<1>3. ASSUME NEW k \in Loggers
      PROVE  WriterInv(k)' /\ LinesInv(k)'
  <2>1. WriterInv(k) /\ LinesInv(k) /\ logger[k].date \in Nat
    BY KeepFacts DEF KeepInv
  <2> QED
    BY <1>1, <1>2, <2>1, FiledStay, LinesStay
<1>4. DirectoryInv'
  <2>1. ASSUME NEW f \in DOMAIN logFiles
        PROVE  f \in (1..logDay') \X Nat
    <3>1. f \in (1..logDay) \X Nat /\ 1..logDay \subseteq 1..logDay'
      BY <1>1, <1>2 DEF DirectoryInv
    <3> QED
      BY <3>1
  <2> QED
    BY <1>1, <2>1 DEF DirectoryInv
<1> QED
  BY <1>3, <1>4 DEF KeepInv

LEMMA LogStepKeeps ==
  ASSUME KeepInv, [LogNext]_logVars
  PROVE  KeepInv'
<1>1. LogInv'
  BY LogStepFits DEF KeepInv
<1>2. ASSUME NEW l \in Loggers,
             \/ NewLogger(l) \/ LogSend(l) \/ TakeEntry(l) \/ LockAndScan(l) \/ RotateLockFails(l)
             \/ OpenLogFile(l) \/ OpenLogFails(l) \/ WriteLine(l) \/ CloseLogger(l) \/ CloseReturns(l)
             \/ LoggerDies(l)
      PROVE  KeepInv'
  <2>1. \/ NewLogger(l) \/ LogSend(l) \/ TakeEntry(l) \/ LockAndScan(l) \/ LosesLine(l)
        \/ OpenLogFile(l) \/ (WriteLine(l) /\ logger[l].handle \in DOMAIN logFiles)
        \/ CloseLogger(l) \/ EndsLogger(l)
    BY <1>2, LoggerSteps
  <2> QED
    BY <1>1, <2>1, NewKeeps, SendKeeps, TakeKeeps, LockKeeps, LosesKeeps, OpenKeeps, WriteKeeps,
       CloseKeeps, EndsKeeps
<1> QED
  BY <1>1, <1>2, DaysKeep DEF LogNext

\* The inductive invariant of the lines.
THEOREM LogKeepInvariant == LogSpec => []KeepInv
<1>1. LogInit /\ LogInv => KeepInv
  <2> SUFFICES ASSUME LogInit, LogInv
               PROVE  KeepInv
    OBVIOUS
  <2>1. logFiles = <<>> /\ DOMAIN logFiles = {}
    BY DEF LogInit
  <2>2. DirectoryInv
    BY <2>1 DEF DirectoryInv
  <2>3. ASSUME NEW l \in Loggers
        PROVE  WriterInv(l) /\ LinesInv(l)
    <3>1. /\ logger[l].phase = "off" /\ logger[l].step = "take"
          /\ logger[l].queue = <<>> /\ logger[l].hand = <<>>
          /\ logger[l].handle = NoHandle /\ logger[l].date = 0 /\ logger[l].seq = 0
          /\ logger[l].sent = 0 /\ logger[l].accepted = {}
      BY InitLogger
    <3>2. WriterInv(l)
      <4>1. 0 <= logDay
        BY DEF LogInit
      <4> QED
        BY <3>1, <4>1 DEF WriterInv
    <3>3. Filed(l) = {}
      <4>1. \A p : p \notin Filed(l)
        BY <2>1, InLinesOf DEF Filed
      <4> QED
        BY <4>1
    <3>4. Waiting(l) = <<>> /\ DOMAIN <<>> = {} /\ Range(<<>>) = {}
      <4>1. <<>> \o <<>> = <<>> /\ DOMAIN <<>> = {}
        OBVIOUS
      <4> QED
        BY <3>1, <4>1 DEF Waiting, Range
    <3>5. LinesKept(l, {}, <<>>, {})
      BY <3>4 DEF LinesKept
    <3> QED
      BY <3>1, <3>2, <3>3, <3>4, <3>5 DEF LinesInv
  <2> QED
    BY <2>2, <2>3 DEF KeepInv
<1>2. KeepInv /\ [LogNext]_logVars => KeepInv'
  BY LogStepKeeps
<1> QED
  BY <1>1, <1>2, LogInvariant, PTL DEF LogSpec

\* What a logger accepted and did not have to give up is in the files or waits:
\* nothing is written twice, lost or out of order by rotation, by a restart or by
\* another process at work in the directory (loop, checkRotate, openFile, write,
\* cleanup, Close).
THEOREM LogLinesAreKept == LogSpec => []LogKeepsLines
<1>1. KeepInv => LogKeepsLines
  BY DEF KeepInv, LinesInv, LogKeepsLines, Filed, Waiting
<1> QED
  BY <1>1, LogKeepInvariant, PTL
=============================================================================
