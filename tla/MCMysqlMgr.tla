----------------------------- MODULE MCMysqlMgr -----------------------------
(* An instance of MysqlMgr for TLC. *)
EXTENDS MysqlMgr

\* -1 converts to Word - 1: to the other worker than 0 when Word is even.
MCIds == {-1, 0}
=============================================================================
