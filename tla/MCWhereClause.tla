---------------------------- MODULE MCWhereClause ----------------------------
(* Instance of WhereClause for TLC.  Every condition is decided row by row,*)
(* so two rows give a condition all its combinations of truth values for a *)
(* row named by an operation and for another one.                          *)
EXTENDS WhereClause
MCRows == {1, 2}
=============================================================================
