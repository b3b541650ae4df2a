--------------------------- MODULE MCMessageStore ---------------------------
(***************************************************************************)
(* Small instances of MessageStore for TLC.  No formula of the module      *)
(* tells calls, messages, users or connections apart.                      *)
(***************************************************************************)
EXTENDS MessageStore, TLC

Symmetry == Permutations(Calls) \union Permutations(Msgs)
            \union Permutations(Users) \union Permutations(Conns)

=============================================================================
