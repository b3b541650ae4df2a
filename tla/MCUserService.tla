---------------------------- MODULE MCUserService ----------------------------
(***************************************************************************)
(* Small instance of UserService for TLC.  Calls, names and passwords are  *)
(* interchangeable.                                                        *)
(***************************************************************************)
EXTENDS UserService, TLC

Symmetry == Permutations(Calls) \union Permutations(Names)
            \union Permutations(Passwords)

=============================================================================
