---------------------------- MODULE CallContract -----------------------------
(***************************************************************************)
(* What a caller of the App Server client may rely on: a call returns      *)
(* once, with the answer the App Server gave to this very call or with an  *)
(* error, and it always returns.                                           *)
(***************************************************************************)
CONSTANT Calls

VARIABLES
    outcome,    \* call -> what its caller has so far
    served      \* calls the App Server has answered, in time or not

vars == <<outcome, served>>

Outcomes == {"uncalled", "called", "answer", "error"}

TypeOK == outcome \in [Calls -> Outcomes] /\ served \in SUBSET Calls

Init == outcome = [c \in Calls |-> "uncalled"] /\ served = {}

Call(c) ==
    /\ outcome[c] = "uncalled"
    /\ outcome' = [outcome EXCEPT ![c] = "called"]
    /\ UNCHANGED served

Serve(c) ==
    /\ outcome[c] # "uncalled" /\ c \notin served
    /\ served' = served \cup {c}
    /\ UNCHANGED outcome

ReturnAnswer(c) ==
    /\ outcome[c] = "called" /\ c \in served
    /\ outcome' = [outcome EXCEPT ![c] = "answer"]
    /\ UNCHANGED served

ReturnError(c) ==
    /\ outcome[c] = "called"
    /\ outcome' = [outcome EXCEPT ![c] = "error"]
    /\ UNCHANGED served

Return(c) == ReturnAnswer(c) \/ ReturnError(c)

Next == \E c \in Calls : Call(c) \/ Serve(c) \/ Return(c)

Spec == Init /\ [][Next]_vars

FairSpec == Spec /\ \A c \in Calls : WF_vars(Return(c))
=============================================================================
