--------------------------- MODULE MCGatewayClient ---------------------------
(***************************************************************************)
(* Two clients of one session, in one page or in two.  With both, the      *)
(* outside world loses no envelope and the agent runs on; with one, it may *)
(* do everything.                                                          *)
(***************************************************************************)
EXTENDS GatewayClient, TLC

Symmetry == Permutations(Clients) \cup Permutations(Pages)

Selections == Cardinality({c \in Clients : phase[c] # "new"})

Scenarios ==
    \/ Selections <= 1
    \/ run = 1 /\ \A c \in Clients : missed[c] = {}
=============================================================================
