--------------------------- MODULE SessionContract ---------------------------
(***************************************************************************)
(* What browser sessions may rely on when they share one App Server: a     *)
(* thread belongs to one session for good; a request is answered at most   *)
(* once, to the session that made it; a question of the App Server (a      *)
(* card) is shown to the session of its thread, and answered at most once, *)
(* by that session, or by the agent if nobody saw it.                      *)
(***************************************************************************)
EXTENDS Sequences, Naturals

CONSTANTS Sessions, NoSession, Threads, NoThread, BrowserIds,
          Cards, Unmade,   \* questions of the App Server, and one it has not asked
          Agent

VARIABLES
    owner,     \* thread -> the session it belongs to, if any
    asked,     \* what sessions asked the App Server, in order
    served,    \* which of it the App Server has answered
    home,      \* answers that sessions got
    about,     \* card -> its thread
    shown,     \* card -> the session that sees it
    answers    \* card -> who has answered it

vars == <<owner, asked, served, home, about, shown, answers>>

Init ==
    /\ owner = [t \in Threads |-> NoSession]
    /\ asked = <<>> /\ served = {} /\ home = {}
    /\ about = [i \in Cards |-> Unmade] /\ shown = [i \in Cards |-> NoSession]
    /\ answers = [i \in Cards |-> <<>>]

\* A thread without an owner becomes s's; an owned one stays with its owner.
Claim(t, s) ==
    owner' = IF t \in Threads /\ owner[t] = NoSession THEN [owner EXCEPT ![t] = s] ELSE owner

Ask(s, id, t) ==
    /\ t \in Threads => owner[t] \in {NoSession, s}
    /\ asked' = Append(asked, [session |-> s, id |-> id, thread |-> t])
    /\ Claim(t, s)
    /\ UNCHANGED <<served, home, about, shown, answers>>

Serve(n) ==
    /\ n \notin served /\ served' = served \cup {n}
    /\ UNCHANGED <<owner, asked, home, about, shown, answers>>

\* With an answer may come a thread that it made or speaks of.
Deliver(n, t) ==
    /\ n \in served /\ \A d \in home : d.of # n
    /\ home' = home \cup {[of |-> n, to |-> asked[n].session, id |-> asked[n].id]}
    /\ Claim(t, asked[n].session)
    /\ UNCHANGED <<asked, served, about, shown, answers>>

Raise(i, t) ==
    /\ about[i] = Unmade /\ about' = [about EXCEPT ![i] = t]
    /\ UNCHANGED <<owner, asked, served, home, shown, answers>>

Open(i) == about[i] # Unmade /\ answers[i] = <<>>

Show(i) ==
    /\ Open(i) /\ about[i] \in Threads /\ shown[i] = NoSession
    /\ owner[about[i]] # NoSession
    /\ shown' = [shown EXCEPT ![i] = owner[about[i]]]
    /\ UNCHANGED <<owner, asked, served, home, about, answers>>

Answer(i) ==
    /\ Open(i)
    /\ answers' = [answers EXCEPT ![i] = <<IF shown[i] = NoSession THEN Agent ELSE shown[i]>>]
    /\ UNCHANGED <<owner, asked, served, home, about, shown>>

Next ==
    \/ \E s \in Sessions, id \in BrowserIds, t \in Threads \cup {NoThread} : Ask(s, id, t)
    \/ \E n \in DOMAIN asked : Serve(n) \/ \E t \in Threads \cup {NoThread} : Deliver(n, t)
    \/ \E i \in Cards :
           Show(i) \/ Answer(i) \/ \E t \in Threads \cup {NoThread} : Raise(i, t)

Spec == Init /\ [][Next]_vars
=============================================================================
