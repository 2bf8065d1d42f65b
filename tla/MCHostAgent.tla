----------------------------- MODULE MCHostAgent ------------------------------
(* Constants of HostAgent for TLC.                                          *)
EXTENDS HostAgent, TLC

Symmetry == Permutations(Sessions) \cup Permutations(Threads)
=============================================================================
