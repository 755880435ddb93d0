------------------------------ MODULE KeyStore ------------------------------
(***************************************************************************)
(* The encrypted store under the credentials (internal/core/keychain): a   *)
(* master key that the first use creates and every process caches, and one *)
(* entry per account, encrypted with it.  On Windows both are values of a  *)
(* registry key, the master key is protected by DPAPI, and the removal of  *)
(* the last entry takes the master key along.                              *)
(*                                                                         *)
(* The store itself locks only the writing of one file.  That two          *)
(* processes do not create two keys is left to the callers: Get is only    *)
(* reached when config.json names an account, and every Set of login and   *)
(* refresh runs under token.lock.  Remove runs under no lock.  An          *)
(* atomicWriteFile is one step: FileCache has the shape of its steps.      *)
(***************************************************************************)
EXTENDS Naturals

CONSTANTS
  Clients,    \* the processes
  NoClient,   \* nobody holds token.lock
  Accounts,   \* the accounts
  NoAccount,  \* config.json is missing
  MaxKeys     \* bound: master keys generated

ASSUME KeyStoreAssumption ==
  /\ NoClient \notin Clients
  /\ NoAccount \notin Accounts
  /\ MaxKeys \in Nat \ {0}

VARIABLES
  platform,  \* "file" (Linux, macOS) or "registry" (Windows)
  masterKey, \* the stored master key, 0 for none, and what DPAPI makes of it
  generated, \* master keys generated so far
  sealed,    \* sealed[a]: the key that encrypts the entry of a, 0 for no
             \*   entry, and whether it was sealed in the old format
  current,   \* the account config.json names, or none
  saveLock,  \* token.lock
  client,    \* client[c]: call, progress and cached key
  forsaken   \* history: master keys that were removed or purged

keyVars == <<platform, masterKey, generated, sealed, current, saveLock, client, forsaken>>

Keys == 0..MaxKeys
NoEntry == [key |-> 0, old |-> FALSE]
NotRunning == [call |-> "none", at |-> "off", key |-> 0, account |-> NoAccount]

\* An installation of an older version may have left entries without AAD and a
\* master key protected without entropy.
KeyStoreInit ==
  /\ platform \in {"file", "registry"}
  /\ generated \in {0, 1}
  /\ current \in Accounts \union {NoAccount} /\ (current # NoAccount => generated = 1)
  /\ \E old \in BOOLEAN :
       /\ old => generated = 1
       /\ sealed = [a \in Accounts |-> IF a = current THEN [key |-> 1, old |-> old] ELSE NoEntry]
       /\ masterKey = [key |-> generated,
                       dpapi |-> IF old /\ platform = "registry" THEN "plain" ELSE "entropy"]
  /\ saveLock = NoClient
  /\ client = [c \in Clients |-> NotRunning]
  /\ forsaken = {}

Ends(c) ==
  /\ client' = [client EXCEPT ![c] = NotRunning]
  /\ saveLock' = IF saveLock = c THEN NoClient ELSE saveLock

Go(c, where) == client' = [client EXCEPT ![c].at = where]

-----------------------------------------------------------------------------
\* The callers.

\* A version of login and refresh without token.lock:
SavesAtOnce(c, a) ==
  /\ client[c] = NotRunning
  /\ client' = [client EXCEPT ![c] = [NotRunning EXCEPT !.call = "set", !.at = "key", !.account = a]]
  /\ UNCHANGED <<platform, masterKey, generated, sealed, current, saveLock, forsaken>>

\* login and RefreshToken: SaveUserConfig under token.lock.
Saves(c, a) ==
  /\ client[c] = NotRunning /\ saveLock = NoClient
  /\ client' = [client EXCEPT ![c] = [NotRunning EXCEPT !.call = "set", !.at = "key", !.account = a]]
  /\ saveLock' = c
  /\ UNCHANGED <<platform, masterKey, generated, sealed, current, forsaken>>

\* GetUserConfig, whoever calls it.
Loads(c, a) ==
  /\ client[c] = NotRunning /\ a = current
  /\ client' = [client EXCEPT ![c] = [NotRunning EXCEPT !.call = "get", !.at = "key", !.account = a]]
  /\ UNCHANGED <<platform, masterKey, generated, sealed, current, saveLock, forsaken>>

\* ClearUserConfig: without the lock and without the master key.
Clears(c, a) ==
  /\ client[c] = NotRunning /\ a = current
  /\ client' = [client EXCEPT ![c] = [NotRunning EXCEPT !.call = "remove", !.at = "work", !.account = a]]
  /\ UNCHANGED <<platform, masterKey, generated, sealed, current, saveLock, forsaken>>

-----------------------------------------------------------------------------
\* getMasterKey.

Forsake(k) == forsaken' = forsaken \union ({k} \ {0})

\* Load the key.  On Windows a key protected without entropy is protected
\* anew, best-effort, and one that DPAPI will never decrypt again goes, with
\* every value.
LoadKey(c) ==
  /\ client[c].at = "key"
  /\ \/ /\ masterKey.key # 0 /\ masterKey.dpapi # "invalid"
        /\ client' = [client EXCEPT ![c].at = "work", ![c].key = masterKey.key]
        /\ \/ masterKey' = [masterKey EXCEPT !.dpapi = "entropy"]
           \/ UNCHANGED masterKey
        /\ UNCHANGED <<sealed, forsaken>>
     \/ /\ masterKey.key # 0 /\ masterKey.dpapi = "invalid"
        /\ Go(c, "create")
        /\ masterKey' = [key |-> 0, dpapi |-> "entropy"]
        /\ sealed' = [a \in Accounts |-> NoEntry]
        /\ Forsake(masterKey.key)
     \/ /\ masterKey.key = 0
        /\ Go(c, "create")
        /\ UNCHANGED <<masterKey, sealed, forsaken>>
  /\ UNCHANGED <<platform, generated, current, saveLock>>

\* Generate and store a key, whatever is stored by now.
CreateKey(c) ==
  /\ client[c].at = "create" /\ generated < MaxKeys
  /\ generated' = generated + 1
  /\ masterKey' = [key |-> generated', dpapi |-> "entropy"]
  /\ client' = [client EXCEPT ![c].at = "work", ![c].key = generated']
  /\ UNCHANGED <<platform, sealed, current, saveLock, forsaken>>

-----------------------------------------------------------------------------
\* Set, Get and Remove.

Set(c) ==
  /\ client[c].call = "set" /\ client[c].at = "work"
  /\ sealed' = [sealed EXCEPT ![client[c].account] = [key |-> client[c].key, old |-> FALSE]]
  /\ Go(c, "name")
  /\ UNCHANGED <<platform, masterKey, generated, current, saveLock, forsaken>>

\* saveMeta behind a Set, and clearMeta behind a Remove.
WriteMeta(c) ==
  /\ client[c].at = "name"
  /\ current' = IF client[c].call = "set" THEN client[c].account ELSE NoAccount
  /\ Ends(c)
  /\ UNCHANGED <<platform, masterKey, generated, sealed, forsaken>>

\* An entry that the key does not open is an error, and so is the start of
\* every command then.
Decrypt(c) ==
  /\ client[c].call = "get" /\ client[c].at = "work"
  /\ LET e == sealed[client[c].account] IN
       IF e.key = client[c].key /\ e.old
       THEN Go(c, "migrate") /\ UNCHANGED saveLock
       ELSE Ends(c)
  /\ UNCHANGED <<platform, masterKey, generated, sealed, current, forsaken>>

\* An entry of the old format is sealed again, whatever has happened to it
\* since it was read; a write that fails is only reported.
Migrate(c) ==
  /\ client[c].at = "migrate"
  /\ \/ sealed' = [sealed EXCEPT ![client[c].account] = [key |-> client[c].key, old |-> FALSE]]
     \/ UNCHANGED sealed
  /\ Ends(c)
  /\ UNCHANGED <<platform, masterKey, generated, current, forsaken>>

RemoveEntry(c) ==
  /\ client[c].call = "remove" /\ client[c].at = "work"
  /\ LET a == client[c].account IN
       /\ sealed' = [sealed EXCEPT ![a] = NoEntry]
       /\ Go(c, IF platform = "registry" /\ sealed[a] # NoEntry THEN "list" ELSE "name")
  /\ UNCHANGED <<platform, masterKey, generated, current, saveLock, forsaken>>

\* Windows: is the master key the only value left?
ListValues(c) ==
  /\ client[c].at = "list"
  /\ Go(c, IF \A a \in Accounts : sealed[a] = NoEntry THEN "cascade" ELSE "name")
  /\ UNCHANGED <<platform, masterKey, generated, sealed, current, saveLock, forsaken>>

Cascade(c) ==
  /\ client[c].at = "cascade"
  /\ masterKey' = [key |-> 0, dpapi |-> "entropy"]
  /\ Forsake(masterKey.key)
  /\ Go(c, "name")
  /\ UNCHANGED <<platform, generated, sealed, current, saveLock>>

-----------------------------------------------------------------------------
\* The credentials of the Windows user are reset.
Invalidate ==
  /\ platform = "registry" /\ masterKey.key # 0 /\ masterKey.dpapi # "invalid"
  /\ masterKey' = [masterKey EXCEPT !.dpapi = "invalid"]
  /\ UNCHANGED <<platform, generated, sealed, current, saveLock, client, forsaken>>

Killed(c) ==
  /\ client[c] # NotRunning
  /\ Ends(c)
  /\ UNCHANGED <<platform, masterKey, generated, sealed, current, forsaken>>

KeyStoreNext ==
  \/ Invalidate
  \/ \E c \in Clients :
       \/ \E a \in Accounts : Saves(c, a) \/ Loads(c, a) \/ Clears(c, a)
       \/ LoadKey(c) \/ CreateKey(c) \/ Set(c) \/ WriteMeta(c) \/ Decrypt(c) \/ Migrate(c)
       \/ RemoveEntry(c) \/ ListValues(c) \/ Cascade(c) \/ Killed(c)

KeyStoreSpec == KeyStoreInit /\ [][KeyStoreNext]_keyVars

-----------------------------------------------------------------------------
\* Properties.

\* The types of the variables.
KeyStoreTypeOK ==
  /\ platform \in {"file", "registry"}
  /\ masterKey \in [key : Keys, dpapi : {"plain", "entropy", "invalid"}]
  /\ generated \in Keys
  /\ sealed \in [Accounts -> [key : Keys, old : BOOLEAN]]
  /\ current \in Accounts \union {NoAccount}
  /\ saveLock \in Clients \union {NoClient}
  /\ client \in [Clients -> [call : {"none", "set", "get", "remove"},
       at : {"off", "key", "create", "work", "migrate", "list", "cascade", "name"},
       key : Keys, account : Accounts \union {NoAccount}]]
  /\ forsaken \subseteq Keys

\* An entry can be decrypted by whoever comes next: the key that seals it is
\* the stored one, though creating a key takes no lock.  On Windows this holds
\* only until a cascade or a purge takes a key that another process caches.
EntriesReadable ==
  forsaken = {} => \A a \in Accounts : sealed[a].key \in {0, masterKey.key}
=============================================================================
