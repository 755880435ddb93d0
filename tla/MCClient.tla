------------------------------ MODULE MCClient ------------------------------
(***************************************************************************)
(* The programs on the client's side, checked side by side: a behaviour is *)
(* one of them, the others stay as they were.  They share no state that    *)
(* one of the modules leaves out: where two of them meet, as a command and *)
(* the stored credentials do, the module that models the meeting has both. *)
(***************************************************************************)
EXTENDS Consumer, Credentials, FileCache, KeyStore, Logging, Updates, Commands, Algorithms

CONSTANTS p1, p2
MCRolesOf == (p1 :> {"bus", "command", "logout"}) @@ (p2 :> {"command", "login", "logout"})

MCRequests == {"schema", "single", "settings", "add", "base", "records", "records1",
               "records2", "minutes", "page1", "page2", "token", "complete", "crash"}
MCShareOps == <<"settings", "add">>
MCPages == <<"page1", "page2">>

VARIABLE program

Programs == {"consumer", "credentials", "filecache", "keystore", "logging", "updates",
             "commands", "algorithms"}

\* A program that does not run has one initial state.
ClientInit ==
  /\ program \in Programs
  /\ ConsumerInit
  /\ CredentialsInit
  /\ program # "credentials" => active = NoUser /\ \A t \in Tokens : age[t] = "fresh"
  /\ CacheInit
  /\ KeyStoreInit
  /\ program # "keystore" => platform = "file" /\ generated = 0
  /\ LogInit
  /\ UpdatesInit
  /\ program # "updates" => finalSkill = NoTree
  /\ CommandInit
  /\ program # "commands" => command = "single" /\ ~compact
  /\ sample \in IF program = "algorithms" THEN Samples ELSE {Sample("none", <<>>)}

ClientNext ==
  \/ /\ program = "consumer" /\ ConsumerNext
     /\ UNCHANGED <<credVars, cacheVars, keyVars, logVars, updVars, commandVars>>
  \/ /\ program = "credentials" /\ CredentialsNext
     /\ UNCHANGED <<consumerVars, cacheVars, keyVars, logVars, updVars, commandVars>>
  \/ /\ program = "filecache" /\ CacheNext
     /\ UNCHANGED <<consumerVars, credVars, keyVars, logVars, updVars, commandVars>>
  \/ /\ program = "keystore" /\ KeyStoreNext
     /\ UNCHANGED <<consumerVars, credVars, cacheVars, logVars, updVars, commandVars>>
  \/ /\ program = "logging" /\ LogNext
     /\ UNCHANGED <<consumerVars, credVars, cacheVars, keyVars, updVars, commandVars>>
  \/ /\ program = "updates" /\ UpdatesNext
     /\ UNCHANGED <<consumerVars, credVars, cacheVars, keyVars, logVars, commandVars>>
  \/ /\ program = "commands" /\ CommandNext
     /\ UNCHANGED <<consumerVars, credVars, cacheVars, keyVars, logVars, updVars>>

clientVars == <<consumerVars, credVars, cacheVars, keyVars, logVars, updVars, commandVars, sample, program>>

ClientSpec ==
  ClientInit /\ [][ClientNext /\ UNCHANGED <<sample, program>>]_clientVars
             /\ ConsumerFairness /\ CredentialsFairness

(***************************************************************************)
(* The type invariants of the programs.                                    *)
(***************************************************************************)
ClientTypeOK ==
  /\ program = "consumer" => ConsumerTypeOK
  /\ program = "credentials" => CredentialsTypeOK
  /\ program = "filecache" => CacheTypeOK
  /\ program = "keystore" => KeyStoreTypeOK
  /\ program = "logging" => LogTypeOK
  /\ program = "updates" => UpdatesTypeOK
  /\ program = "commands" => CallTypeOK /\ CommandTypeOK
=============================================================================
