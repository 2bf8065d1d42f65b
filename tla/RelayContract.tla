---------------------------- MODULE RelayContract ----------------------------
(***************************************************************************)
(* What the page may rely on when it sends over the relay: messages are    *)
(* written whole, each at most once, in the order in which they were       *)
(* accepted, without one left out; a disconnect writes all of them, unless *)
(* the connection breaks, and it comes to an end.                          *)
(***************************************************************************)
EXTENDS Sequences, Naturals

CONSTANT Messages

VARIABLES
    accepted,   \* messages whose sending returned without an error, in order
    written,    \* those the relay has got, with all their envelopes
    state       \* "open", "closing", "closed" or "broken"

vars == <<accepted, written, state>>

Init == accepted = <<>> /\ written = {} /\ state = "open"

Accept(m) ==
    /\ state = "open" /\ \A k \in DOMAIN accepted : accepted[k] # m
    /\ accepted' = Append(accepted, m)
    /\ UNCHANGED <<written, state>>

Write(k) ==
    /\ state \in {"open", "closing"}
    /\ accepted[k] \notin written /\ \A j \in 1 .. k - 1 : accepted[j] \in written
    /\ written' = written \cup {accepted[k]}
    /\ UNCHANGED <<accepted, state>>

Disconnect == state = "open" /\ state' = "closing" /\ UNCHANGED <<accepted, written>>

Close ==
    /\ state = "closing" /\ \A k \in DOMAIN accepted : accepted[k] \in written
    /\ state' = "closed"
    /\ UNCHANGED <<accepted, written>>

Break == state \in {"open", "closing"} /\ state' = "broken" /\ UNCHANGED <<accepted, written>>

Next ==
    \/ \E m \in Messages : Accept(m)
    \/ \E k \in DOMAIN accepted : Write(k)
    \/ Disconnect
    \/ Close
    \/ Break

Spec == Init /\ [][Next]_vars

FairSpec == Spec /\ []<>(state # "closing")
=============================================================================
