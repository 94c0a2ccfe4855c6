--------------------------- MODULE MCDbStmtRaces ---------------------------
(* An instance of DbStmtRaces for TLC. *)
EXTENDS MCDbStmt, DbStmtRaces
=============================================================================
