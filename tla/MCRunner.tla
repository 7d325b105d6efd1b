------------------------------ MODULE MCRunner ------------------------------
(* Runner has no constants.                                                 *)
EXTENDS Runner
=============================================================================
