--------------------------- MODULE MCDesktopClient ---------------------------
(***************************************************************************)
(* DesktopClient with two attempts of one client: either is cancelled,     *)
(* overtaken by the other, cleaned up or lost.  When both connect, the     *)
(* outside world is calm; the theorems of DesktopClientProofs are about    *)
(* all the others.                                                         *)
(***************************************************************************)
EXTENDS DesktopClient, TLC

CONSTANTS Connecting, Preparing

Symmetry == Permutations(Attempts)

\* Every attempt connects directly or prepares a pairing.
DirectOrPrepare == [a \in Attempts |-> {"direct", "prepare"}]

\* One attempt connects, directly or with a pairing; one prepares or connects.
TwoOfKinds == (Connecting :> {"direct", "pair"}) @@ (Preparing :> {"prepare", "direct"})

BothConnect == op[Preparing] # "unused" /\ kind[Preparing] = "direct"

\* An App Server is overloaded for a direct connection only: after a pairing the
\* same steps follow.
Overloads == \E a \in Attempts : \E i \in DOMAIN events[a] : events[a][i].event = "overloaded"

\* Both connect directly, the names in order, to App Servers that accept, are not
\* overloaded and stay, and the user does nothing else.  Only steps of the
\* outside world are left out: an attempt that was overtaken may stop.
Calm ==
    /\ kind[Connecting] = "direct" /\ op[Connecting] # "unused" /\ ~disposed
    /\ ~Overloads /\ \A a \in Attempts : retries[a] = 0 /\ op[a] # "backoff"

Loses(a) == task[a] = "running" /\ task'[a] = "ending"
            /\ (outbox[a] = << >> \/ Head(outbox[a]) # NoAttempt)

CalmStep ==
    /\ ~CancelConnectionAttempt /\ ~Disconnect
    /\ \A a \in Attempts : /\ ~RefuseRequest(a) /\ ~Loses(a)
                           /\ FailAttempt(a) => StopCancelled(a)

Scenarios ==
    /\ BothConnect' => Calm' /\ CalmStep
    /\ kind'[Connecting] = "pair" => ~Overloads'
=============================================================================
