---------------------------- MODULE MCCredentials ----------------------------
(***************************************************************************)
(* The stored credentials alone, with one more token than MCClient.        *)
(***************************************************************************)
EXTENDS Credentials, TLC

CONSTANTS p1, p2

MCRolesOf == (p1 :> {"bus", "command", "logout"}) @@ (p2 :> {"command", "login", "logout"})
==============================================================================
