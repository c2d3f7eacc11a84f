------------------------------- MODULE MCScopes --------------------------------
(* Small instances of Scopes for TLC. *)
EXTENDS Scopes, TLC

UserNames == Permutations(Names \ Library)
===============================================================================
