---------------------------- MODULE MCMysqlPool ----------------------------
(***************************************************************************)
(* The instance of MysqlPool for TLC: pool.cfg gives the sets of threads   *)
(* and connections.  Liveness is checked with safety, so no symmetry.      *)
(***************************************************************************)
EXTENDS MysqlPool

=============================================================================
