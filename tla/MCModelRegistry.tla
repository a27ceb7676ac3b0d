--------------------------- MODULE MCModelRegistry ---------------------------
(* Instance of ModelRegistry for TLC.                                      *)
EXTENDS ModelRegistry
=============================================================================
