------------------------- MODULE ConnectionContract --------------------------
(***************************************************************************)
(* What the desktop interface may rely on when it connects a client: only  *)
(* the attempt it wanted last can succeed, one at most; an attempt that    *)
(* does not succeed fails, once, and not before what it opened is closed   *)
(* for good; and every attempt comes to its result.                        *)
(***************************************************************************)
CONSTANTS Attempts, NoAttempt

VARIABLES
    wanted,   \* the attempt whose result the interface wants, if any
    result,   \* attempt -> what has become of it
    link      \* attempt -> its connection to the App Server

vars == <<wanted, result, link>>

Results == {"unused", "waiting", "trying", "connected", "prepared", "failed"}

Links == {"none", "open", "closed"}

TypeOK ==
    /\ wanted \in Attempts \cup {NoAttempt}
    /\ result \in [Attempts -> Results] /\ link \in [Attempts -> Links]

Init ==
    /\ wanted = NoAttempt
    /\ result = [a \in Attempts |-> "unused"] /\ link = [a \in Attempts |-> "none"]

Becomes(a, r) == result' = [result EXCEPT ![a] = r]

\* An attempt begins at once, or after the one before it has been told to stop.
Begin(a) ==
    /\ result[a] = "unused"
    /\ \/ Becomes(a, "trying") /\ wanted' = a
       \/ Becomes(a, "waiting") /\ UNCHANGED wanted
    /\ UNCHANGED link

\* It goes on, although the client may have been disposed.
GoOn(a) ==
    /\ result[a] = "waiting"
    /\ Becomes(a, "trying") /\ wanted' \in {a, NoAttempt}
    /\ UNCHANGED link

\* The interface cancels, disconnects or disposes the client.
GiveUp == wanted' = NoAttempt /\ UNCHANGED <<result, link>>

Open(a) ==
    /\ result[a] = "trying" /\ link[a] = "none"
    /\ link' = [link EXCEPT ![a] = "open"]
    /\ UNCHANGED <<wanted, result>>

Close(a) ==
    /\ link[a] = "open"
    /\ link' = [link EXCEPT ![a] = "closed"]
    /\ UNCHANGED <<wanted, result>>

\* A connection may be lost before the interface hears that it is there.
Succeed(a) ==
    /\ result[a] = "trying" /\ wanted = a
    /\ \/ link[a] # "none" /\ (\A b \in Attempts : result[b] # "connected") /\ Becomes(a, "connected")
       \/ link[a] = "none" /\ Becomes(a, "prepared")
    /\ wanted' = NoAttempt
    /\ UNCHANGED link

Fail(a) ==
    /\ result[a] = "trying" /\ link[a] # "open"
    /\ Becomes(a, "failed")
    /\ wanted' = IF wanted = a THEN NoAttempt ELSE wanted
    /\ UNCHANGED link

Next ==
    \/ GiveUp
    \/ \E a \in Attempts : Begin(a) \/ GoOn(a) \/ Open(a) \/ Close(a) \/ Succeed(a) \/ Fail(a)

Spec == Init /\ [][Next]_vars

Settled(a) == result[a] \in {"unused", "connected", "prepared", "failed"}

FairSpec == Spec /\ \A a \in Attempts : []<>Settled(a)
=============================================================================
