---------------------------- MODULE MCLifecycle ----------------------------
(* Daemons are interchangeable, and so are commands and accounts.           *)
EXTENDS Lifecycle, TLC

Symmetry == Permutations(Buses) \union Permutations(Commands)
            \union Permutations(Accounts)
=============================================================================
