------------------------------- MODULE MCPairing -------------------------------
(* Two attempts at once or after one another, with or without an earlier       *)
(* registration.  Environments and accounts are alike, so one choice of the    *)
(* first attempt's account and of the pair codes' host stands for all.         *)
EXTENDS Pairing, TLC

CONSTANTS a1, a2, u1, u2, e1, e2

SameHost == target = [a \in Attempts |-> e1] /\ who[a1] = u1
================================================================================
