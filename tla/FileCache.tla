----------------------------- MODULE FileCache -----------------------------
(***************************************************************************)
(* One key of the file cache (internal/core/filecache) on the disk that    *)
(* several processes share, down to the inode of its lock file, as the     *)
(* schema cache and the notice cache use it.                               *)
(*                                                                         *)
(* A writer opens the lock file, polls for its flock, works and unlocks.   *)
(* Delete then unlinks the lock file, and Purge unlinks it without having  *)
(* locked anything: whoever has opened the file before goes on to lock an  *)
(* inode that others no longer reach, so writers may overlap.  The rename  *)
(* of a complete temporary file is what readers rely on.  The goroutines   *)
(* of a process are kept apart by the per-key mutex as well; a process     *)
(* here has one.                                                           *)
(***************************************************************************)
EXTENDS Naturals

CONSTANTS
  CacheUsers,  \* the processes
  Nobody,      \* an inode nobody has locked
  MaxInodes,   \* bound: lock files created
  MaxWrites    \* bound: calls of Set

ASSUME FileCacheAssumption ==
  /\ Nobody \notin CacheUsers
  /\ MaxInodes \in Nat /\ MaxWrites \in Nat

VARIABLES
  file,      \* the data file: payload 0 when there is none
  lockFile,  \* the inode the path of the lock file names, 0 for none
  inodes,    \* lock files created so far
  lockedBy,  \* who holds the flock of each inode
  user,      \* user[p]: the call process p is in
  writes,    \* calls of Set so far
  got        \* got[p]: what the last Get of p returned

cacheDisk == <<file, lockFile, inodes, lockedBy>>
cacheVars == <<cacheDisk, user, writes, got>>

Inodes == 1..MaxInodes
Absent == [payload |-> 0, whole |-> TRUE, fresh |-> FALSE]
Resting == [op |-> "none", at |-> "off", inode |-> 0, payload |-> 0]

CacheInit ==
  /\ file = Absent /\ lockFile = 0 /\ inodes = 0
  /\ lockedBy = [i \in Inodes |-> Nobody]
  /\ user = [p \in CacheUsers |-> Resting]
  /\ writes = 0
  /\ got = [p \in CacheUsers |-> 0]

\* Get: one read of the file, without the lock.  A file that does not parse
\* and one past its TTL are misses.
Get(p) ==
  /\ user[p] = Resting
  /\ got' = [got EXCEPT ![p] = IF file.whole /\ file.fresh THEN file.payload ELSE 0]
  /\ UNCHANGED <<cacheDisk, user, writes>>

\* Set with a TTL, or Delete; a Set whose TTL is not positive does nothing,
\* and a Delete stops where there is no directory.
BeginWrite(p, op) ==
  /\ user[p] = Resting
  /\ \/ op = "set" /\ writes < MaxWrites /\ writes' = writes + 1
     \/ op = "delete" /\ writes > 0 /\ UNCHANGED writes
  /\ user' = [user EXCEPT ![p] = [op |-> op, at |-> "open", inode |-> 0,
                                  payload |-> IF op = "set" THEN writes' ELSE 0]]
  /\ UNCHANGED <<cacheDisk, got>>

\* WithLock: open or create the lock file, ...
OpenLock(p) ==
  /\ user[p].at = "open"
  /\ IF lockFile # 0
     THEN UNCHANGED <<lockFile, inodes>>
     ELSE /\ inodes < MaxInodes
          /\ inodes' = inodes + 1
          /\ lockFile' = inodes'
  /\ user' = [user EXCEPT ![p].at = "wait", ![p].inode = lockFile']
  /\ UNCHANGED <<file, lockedBy, writes, got>>

\* ... try to lock the inode that was opened, for five seconds at most.
Lock(p) ==
  /\ user[p].at = "wait" /\ lockedBy[user[p].inode] = Nobody
  /\ lockedBy' = [lockedBy EXCEPT ![user[p].inode] = p]
  /\ user' = [user EXCEPT ![p].at = IF user[p].op = "set" THEN "create" ELSE "remove"]
  /\ UNCHANGED <<file, lockFile, inodes, writes, got>>

LockGivesUp(p) ==
  /\ user[p].at = "wait" /\ lockedBy[user[p].inode] # Nobody
  /\ user' = [user EXCEPT ![p] = Resting]
  /\ UNCHANGED <<cacheDisk, writes, got>>

\* atomicWrite: a temporary file with a name of its own is written, synced and
\* closed; a failure removes it.
WriteTemp(p) ==
  /\ user[p].at = "create"
  /\ \E next \in {"rename", "unlock"} : user' = [user EXCEPT ![p].at = next]
  /\ UNCHANGED <<cacheDisk, writes, got>>

\* A version that writes the data file in place, in two halves:
WriteInPlace(p) ==
  /\ user[p].at = "rename"
  /\ \/ /\ file.payload # user[p].payload
        /\ file' = [payload |-> user[p].payload, whole |-> FALSE, fresh |-> TRUE]
        /\ UNCHANGED user
     \/ /\ file.payload = user[p].payload
        /\ file' = [file EXCEPT !.whole = TRUE]
        /\ user' = [user EXCEPT ![p].at = "unlock", ![p].payload = 0]
  /\ UNCHANGED <<lockFile, inodes, lockedBy, writes, got>>

RenameTemp(p) ==
  /\ user[p].at = "rename"
  /\ file' = [payload |-> user[p].payload, whole |-> TRUE, fresh |-> TRUE]
  /\ user' = [user EXCEPT ![p].at = "unlock", ![p].payload = 0]
  /\ UNCHANGED <<lockFile, inodes, lockedBy, writes, got>>

RemoveData(p) ==
  /\ user[p].at = "remove"
  /\ \/ /\ file' = Absent
        /\ user' = [user EXCEPT ![p].at = "unlock"]
     \/ /\ file # Absent /\ UNCHANGED file
        /\ user' = [user EXCEPT ![p].op = "failed", ![p].at = "unlock"]
  /\ UNCHANGED <<lockFile, inodes, lockedBy, writes, got>>

\* The deferred unlock and close; a Delete that went well is not done yet.
Release(p) ==
  /\ user[p].at = "unlock"
  /\ lockedBy' = [lockedBy EXCEPT ![user[p].inode] = Nobody]
  /\ user' = [user EXCEPT ![p] = IF user[p].op = "delete"
                                 THEN [Resting EXCEPT !.op = "delete", !.at = "unlink"]
                                 ELSE Resting]
  /\ UNCHANGED <<file, lockFile, inodes, writes, got>>

\* The lock file goes by its path, whichever inode that is by now.
UnlinkLock(p) ==
  /\ user[p].at = "unlink"
  /\ lockFile' = 0
  /\ user' = [user EXCEPT ![p] = Resting]
  /\ UNCHANGED <<file, inodes, lockedBy, writes, got>>

\* Purge removes what it has listed, file by file and without a lock.  A
\* temporary file it removes makes the rename fail.
Purge(p) ==
  /\ user[p] = Resting /\ writes > 0
  /\ \/ file' = Absent /\ UNCHANGED <<lockFile, user>>
     \/ lockFile' = 0 /\ UNCHANGED <<file, user>>
     \/ \E q \in CacheUsers :
          /\ user[q].at = "rename"
          /\ user' = [user EXCEPT ![q].at = "unlock", ![q].payload = 0]
          /\ UNCHANGED <<file, lockFile>>
  /\ UNCHANGED <<inodes, lockedBy, writes, got>>

\* A process dies: its flock goes, its temporary file stays for a Purge.
Die(p) ==
  /\ user[p] # Resting
  /\ user' = [user EXCEPT ![p] = Resting]
  /\ lockedBy' = [i \in Inodes |-> IF lockedBy[i] = p THEN Nobody ELSE lockedBy[i]]
  /\ UNCHANGED <<file, lockFile, inodes, writes, got>>

Outlive ==
  /\ file.fresh
  /\ file' = [file EXCEPT !.fresh = FALSE]
  /\ UNCHANGED <<lockFile, inodes, lockedBy, user, writes, got>>

CacheNext ==
  \/ Outlive
  \/ \E p \in CacheUsers :
       \/ Get(p) \/ \E op \in {"set", "delete"} : BeginWrite(p, op)
       \/ OpenLock(p) \/ Lock(p) \/ LockGivesUp(p)
       \/ WriteTemp(p) \/ RenameTemp(p) \/ RemoveData(p)
       \/ Release(p) \/ UnlinkLock(p) \/ Purge(p) \/ Die(p)

CacheSpec == CacheInit /\ [][CacheNext]_cacheVars

-----------------------------------------------------------------------------
\* Properties.

\* The types of the variables.
CacheTypeOK ==
  /\ file \in [payload : 0..MaxWrites, whole : BOOLEAN, fresh : BOOLEAN]
  /\ lockFile \in 0..MaxInodes /\ inodes \in 0..MaxInodes
  /\ lockedBy \in [Inodes -> CacheUsers \union {Nobody}]
  /\ user \in [CacheUsers -> [op : {"none", "set", "delete", "failed"},
                 at : {"off", "open", "wait", "create", "rename", "remove", "unlock", "unlink"},
                 inode : 0..MaxInodes, payload : 0..MaxWrites]]
  /\ writes \in 0..MaxWrites
  /\ got \in [CacheUsers -> 0..MaxWrites]

Promised == INSTANCE Register WITH
  Readers <- CacheUsers, Versions <- 1..MaxWrites,
  value <- [payload |-> file.payload, fresh |-> file.fresh], answer <- got

\* Whatever becomes of the lock file, and wherever a process dies, the cache
\* behaves as one register: writers that overlap take effect one after the
\* other, and a reader gets a payload that was stored as a whole.
CacheIsARegister == Promised!RegisterSpec
=============================================================================
