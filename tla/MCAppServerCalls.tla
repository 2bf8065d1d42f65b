--------------------------- MODULE MCAppServerCalls ---------------------------
(* Constants of AppServerCalls for TLC.                                     *)
EXTENDS AppServerCalls, TLC

Symmetry == Permutations(Calls)
=============================================================================
