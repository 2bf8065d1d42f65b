------------------------------ MODULE AuthBroker ------------------------------
(***************************************************************************)
(* authenticate of src-tauri/src/auth_broker.rs: every pairing attempt     *)
(* asks it for an access token, one attempt at a time.  On Windows it runs *)
(* the dialogue of CodexAuthBroker; on Android it keeps the credentials    *)
(* itself (android_security.rs), refreshes them with the issuer, which may *)
(* replace the refresh token each time, and runs a device code login.      *)
(***************************************************************************)
EXTENDS CodexAuthBroker

CONSTANTS
  Attempts,      \* pairing attempts
  None,          \* no attempt
  MaxTokens,     \* bound on the refresh tokens the issuer makes
  PollLimit,     \* DEVICE_AUTH_TIMEOUT, in polls
  MaxFailures,   \* transient failures in a row that are retried
  MaxCrashes     \* bound on the restarts of the application

ASSUME AuthAssumption ==
  /\ None \notin Attempts
  /\ {MaxTokens, PollLimit, MaxFailures, MaxCrashes} \subseteq Nat

VARIABLES
  platform,    \* the build
  lock,        \* AUTH_BROKER_LOCK
  cancelled,   \* attempts whose cancel was signalled
  pc,          \* where an attempt is
  outcome,     \* what authenticate returned to it
  held,        \* the credentials it read or received
  poll,        \* poll_device_token: polls made, transient failures in a row
  store,       \* the credentials on the device
  clockAhead,  \* the device's clock makes every token look expired
  live,        \* refresh tokens the issuer accepts
  minted,      \* refresh tokens it has made
  forgiven,    \* history: tokens the issuer revoked or replaced in an answer that got lost
  unrenewed,   \* history: tokens a refresh of which got nothing that can be kept
  crashes

storeVars  == <<store, clockAhead>>
issuerVars == <<live, minted, forgiven, unrenewed>>
attemptVars == <<lock, cancelled, pc, outcome, held, poll>>
vars == <<dialogueVars, platform, attemptVars, storeVars, issuerVars, crashes>>

Tokens   == 0 .. MaxTokens
Auth(ok, t) == [kind |-> "auth", valid |-> ok, refresh |-> t]
NoAuth   == [kind |-> "none", valid |-> FALSE, refresh |-> 0]
Garbage  == [kind |-> "garbage", valid |-> FALSE, refresh |-> 0]
Stores   == {NoAuth, Garbage} \cup {Auth(ok, t) : ok \in BOOLEAN, t \in Tokens}
NoPoll   == [polls |-> 0, failures |-> 0]

Init ==
  /\ DialogueInit
  /\ platform \in {"windows", "android", "other"}
  /\ lock = None /\ cancelled = {}
  /\ pc = [a \in Attempts |-> "idle"]
  /\ outcome = [a \in Attempts |-> "none"]
  /\ held = [a \in Attempts |-> NoAuth]
  /\ poll = [a \in Attempts |-> NoPoll]
  /\ store \in IF platform = "android" THEN {NoAuth, Garbage, Auth(TRUE, 0), Auth(FALSE, 0)}
               ELSE {NoAuth}
  /\ clockAhead \in IF platform = "android" THEN BOOLEAN ELSE {FALSE}
  /\ live = {0} /\ minted = 0 /\ forgiven = {} /\ unrenewed = {} /\ crashes = 0

-----------------------------------------------------------------------------
\* Attempts and the lock.

Go(a, to) == pc' = [pc EXCEPT ![a] = to]

\* authenticate returns and drops its guard.
End(a, o) ==
  /\ Go(a, "over") /\ outcome' = [outcome EXCEPT ![a] = o]
  /\ lock' = IF lock = a THEN None ELSE lock

Stay == UNCHANGED <<lock, outcome>>

Begin(a) ==
  /\ pc[a] = "idle" /\ Go(a, "lock")
  /\ UNCHANGED <<dialogueVars, platform, lock, cancelled, outcome, held, poll, storeVars,
                 issuerVars, crashes>>

Cancel(a) ==
  /\ pc[a] # "over" /\ a \notin cancelled
  /\ cancelled' = cancelled \cup {a}
  /\ UNCHANGED <<dialogueVars, platform, lock, pc, outcome, held, poll, storeVars, issuerVars,
                 crashes>>

\* Where authenticate listens for the cancel while it waits.
Listens == {"lock", "code", "poll"}

CancelSeen(a) ==
  /\ a \in cancelled /\ pc[a] \in Listens \cup {"gate"}
  /\ End(a, "cancelled")
  /\ UNCHANGED <<dialogueVars, platform, cancelled, held, poll, storeVars, issuerVars, crashes>>

\* Goes on while another attempt holds the lock.
TakeLockMistake(a) ==
  /\ pc[a] = "lock"
  /\ IF a \in cancelled
     THEN End(a, "cancelled")
     ELSE /\ lock' = a /\ UNCHANGED outcome
          /\ Go(a, IF platform = "android" THEN "load" ELSE "start")
  /\ UNCHANGED <<dialogueVars, platform, cancelled, held, poll, storeVars, issuerVars, crashes>>

TakeLock(a) ==
  /\ pc[a] = "lock" /\ lock = None
  /\ IF a \in cancelled
     THEN End(a, "cancelled")
     ELSE /\ lock' = a /\ UNCHANGED outcome
          /\ Go(a, IF platform = "android" THEN "load" ELSE "start")
  /\ UNCHANGED <<dialogueVars, platform, cancelled, held, poll, storeVars, issuerVars, crashes>>

-----------------------------------------------------------------------------
\* Windows: one dialogue with a child of its own; other builds have none.

StartDialogue(a) ==
  /\ pc[a] = "start"
  /\ \/ platform = "windows" /\ OpenDialogue /\ Go(a, "dialogue") /\ Stay
     \/ End(a, "error") /\ UNCHANGED dialogueVars          \* no codex, or another build
  /\ UNCHANGED <<platform, cancelled, held, poll, storeVars, issuerVars, crashes>>

InDialogue == \E a \in Attempts : pc[a] = "dialogue"

DialogueStep ==
  /\ InDialogue
  /\ \/ ReadAnswer \/ ReadOther \/ ReadCompleted \/ ReadEnd \/ RpcTimesOut \/ LoginTimesOut
     \/ EndWait /\ \E a \in cancelled : pc[a] = "dialogue"
  /\ UNCHANGED <<platform, attemptVars, storeVars, issuerVars, crashes>>

ChildStep ==
  /\ InDialogue /\ Child
  /\ UNCHANGED <<platform, attemptVars, storeVars, issuerVars, crashes>>

EndDialogue(a) ==
  /\ pc[a] = "dialogue" /\ verdict # "none"
  /\ End(a, verdict) /\ CloseDialogue
  /\ UNCHANGED <<platform, cancelled, held, poll, storeVars, issuerVars, crashes>>

-----------------------------------------------------------------------------
\* Android: the stored credentials.

\* access_token_is_valid: by the device's clock.
IsValid(auth) == auth.valid /\ ~clockAhead

\* load_stored_auth; what cannot be read as credentials is cleared.
LoadAuth(a) ==
  /\ pc[a] = "load"
  /\ \/ End(a, "error") /\ UNCHANGED <<held, store>>       \* the plugin fails
     \/ /\ store.kind # "auth" /\ Go(a, "gate") /\ Stay
        /\ store' = NoAuth /\ UNCHANGED held
     \/ /\ store.kind = "auth" /\ UNCHANGED store
        /\ held' = [held EXCEPT ![a] = store]
        /\ IF IsValid(store) THEN End(a, "token") ELSE Go(a, "refresh") /\ Stay
  /\ UNCHANGED <<dialogueVars, platform, cancelled, poll, clockAhead, issuerVars, crashes>>

\* Tokens the issuer may answer a grant with: a new one, or the old one stays.
Mint(old) ==
  \/ /\ minted < MaxTokens
     /\ minted' = minted + 1
     /\ live' = (live \ old) \cup {minted + 1}
  \/ old # {} /\ UNCHANGED <<minted, live>>

Granted(old) == IF minted' > minted THEN minted' ELSE CHOOSE t \in old : TRUE

\* refresh_stored_auth returns None or what the next load takes for garbage.
NotRenewed(a) == unrenewed' = unrenewed \cup {held[a].refresh}

\* refresh_stored_auth: the issuer accepts and its answer arrives, with what is
\* to be stored; or with an empty refresh token, which is stored as well; or with
\* an access token that is not valid by the device's clock.
RefreshAnswered(a) ==
  /\ pc[a] = "refresh" /\ held[a].refresh \in live
  /\ Mint({held[a].refresh}) /\ Stay
  /\ \/ /\ ~clockAhead /\ Go(a, "store") /\ UNCHANGED unrenewed
        /\ held' = [held EXCEPT ![a] = Auth(TRUE, Granted({held[a].refresh}))]
     \/ /\ ~clockAhead /\ Go(a, "store") /\ NotRenewed(a)
        /\ held' = [held EXCEPT ![a] = Garbage]
     \/ Go(a, "clear") /\ NotRenewed(a) /\ UNCHANGED held
  /\ UNCHANGED <<dialogueVars, platform, cancelled, poll, storeVars, forgiven, crashes>>

\* 400 or 401, whatever the issuer's reason.
RefreshRefused(a) ==
  /\ pc[a] = "refresh"
  /\ Go(a, "clear") /\ NotRenewed(a) /\ Stay
  /\ UNCHANGED <<dialogueVars, platform, cancelled, held, poll, storeVars, live, minted, forgiven,
                 crashes>>

\* The request, its answer or the issuer fails.
RefreshFails(a) ==
  /\ pc[a] = "refresh"
  /\ \/ UNCHANGED issuerVars
     \/ /\ held[a].refresh \in live
        /\ Mint({held[a].refresh})
        /\ forgiven' = forgiven \cup {held[a].refresh} /\ UNCHANGED unrenewed
  /\ End(a, "error")
  /\ UNCHANGED <<dialogueVars, platform, cancelled, held, poll, storeVars, crashes>>

\* The stored token, when what should replace it is not stored.
Forgive ==
  forgiven' = IF store.kind = "auth" THEN forgiven \cup {store.refresh} ELSE forgiven

\* Keeps the token it had sent.
StoreAuthMistake(a) ==
  /\ pc[a] = "store"
  /\ store' = IF store.kind = "auth" THEN [store EXCEPT !.valid = TRUE] ELSE held[a]
  /\ End(a, "token")
  /\ UNCHANGED <<dialogueVars, platform, cancelled, held, poll, clockAhead, issuerVars, crashes>>

\* store_auth, and the return of the access token.
StoreAuth(a) ==
  /\ pc[a] = "store"
  /\ \/ store' = held[a] /\ End(a, "token") /\ UNCHANGED forgiven
     \/ /\ UNCHANGED store /\ End(a, "error") /\ Forgive
  /\ UNCHANGED <<dialogueVars, platform, cancelled, held, poll, clockAhead, live, minted,
                 unrenewed, crashes>>

ClearAuth(a) ==
  /\ pc[a] = "clear"
  /\ \/ store' = NoAuth /\ Go(a, "gate") /\ Stay /\ UNCHANGED forgiven
     \/ UNCHANGED store /\ End(a, "error") /\ Forgive
  /\ UNCHANGED <<dialogueVars, platform, cancelled, held, poll, clockAhead, live, minted,
                 unrenewed, crashes>>

-----------------------------------------------------------------------------
\* Android: the device code login.

Gate(a) ==
  /\ pc[a] = "gate" /\ a \notin cancelled
  /\ Go(a, "code") /\ Stay
  /\ UNCHANGED <<dialogueVars, platform, cancelled, held, poll, storeVars, issuerVars, crashes>>

\* request_device_code, and the prompt.
RequestCode(a) ==
  /\ pc[a] = "code"
  /\ (Go(a, "poll") /\ Stay) \/ End(a, "error")
  /\ UNCHANGED <<dialogueVars, platform, cancelled, held, poll, storeVars, issuerVars, crashes>>

Elapsed(a) == poll[a].polls >= PollLimit

Waited(a, failures) ==
  poll' = [poll EXCEPT ![a] = [polls |-> IF Elapsed(a) THEN @.polls ELSE @.polls + 1,
                               failures |-> failures]]

\* Counts the time anew when it has run out.
PendingMistake(a) ==
  /\ IF Elapsed(a) THEN poll' = [poll EXCEPT ![a] = NoPoll] ELSE Waited(a, 0)
  /\ UNCHANGED pc /\ Stay

\* 403 or 404: the user has not finished.
Pending(a) ==
  IF Elapsed(a) THEN End(a, "error") /\ UNCHANGED poll
                ELSE Waited(a, 0) /\ UNCHANGED pc /\ Stay

\* A timeout or a refused connection.
Transient(a) ==
  IF poll[a].failures < MaxFailures /\ ~Elapsed(a)
  THEN Waited(a, poll[a].failures + 1) /\ UNCHANGED pc /\ Stay
  ELSE End(a, "error") /\ UNCHANGED poll

\* One round of poll_device_token.
Poll(a) ==
  /\ pc[a] = "poll"
  /\ \/ Pending(a)
     \/ Transient(a)
     \/ Go(a, "exchange") /\ Stay /\ UNCHANGED poll
     \/ End(a, "error") /\ UNCHANGED poll
  /\ UNCHANGED <<dialogueVars, platform, cancelled, held, storeVars, issuerVars, crashes>>

\* exchange_device_code.
Exchange(a) ==
  /\ pc[a] = "exchange"
  /\ \/ /\ Mint({})
        /\ held' = [held EXCEPT ![a] = Auth(TRUE, minted')]
        /\ (~clockAhead /\ Go(a, "store") /\ Stay) \/ End(a, "error")
     \/ End(a, "error") /\ UNCHANGED <<held, live, minted>>
  /\ UNCHANGED <<dialogueVars, platform, cancelled, poll, storeVars, forgiven, unrenewed, crashes>>

-----------------------------------------------------------------------------
\* The surroundings.

TokenExpires ==
  /\ store.kind = "auth" /\ store.valid
  /\ store' = Auth(FALSE, store.refresh)
  /\ UNCHANGED <<dialogueVars, platform, attemptVars, clockAhead, issuerVars, crashes>>

\* The user signs out elsewhere.
Revoke ==
  /\ platform = "android" /\ live # {}
  /\ live' = {} /\ forgiven' = forgiven \cup live
  /\ UNCHANGED <<dialogueVars, platform, attemptVars, storeVars, minted, unrenewed, crashes>>

\* Awaits at which the caller's timeout may drop the future.
Awaits == {"lock", "dialogue", "refresh", "code", "poll", "exchange"}

\* PAIR_CONNECT_TIMEOUT.  What the issuer still does with a request in flight is
\* as in RefreshFails.
Drop(a) ==
  /\ pc[a] \in Awaits
  /\ End(a, "error")
  /\ IF pc[a] = "dialogue" THEN CloseDialogue ELSE UNCHANGED dialogueVars
  /\ UNCHANGED <<platform, cancelled, held, poll, storeVars, issuerVars, crashes>>

\* Attempts of the dead process are over; others may follow.
Crash ==
  /\ crashes < MaxCrashes /\ lock # None
  /\ crashes' = crashes + 1
  /\ pc' = [a \in Attempts |-> IF pc[a] = "idle" THEN "idle" ELSE "over"]
  /\ outcome' = [a \in Attempts |-> IF pc[a] \in {"idle", "over"} THEN outcome[a] ELSE "error"]
  /\ lock' = None
  /\ IF \E a \in Attempts : pc[a] \in {"store", "clear"} THEN Forgive ELSE UNCHANGED forgiven
  /\ CloseDialogue
  /\ UNCHANGED <<platform, cancelled, held, poll, storeVars, live, minted, unrenewed>>

-----------------------------------------------------------------------------
Step(a) ==
  \/ CancelSeen(a)
  \/ TakeLock(a)
  \/ StartDialogue(a)
  \/ EndDialogue(a)
  \/ LoadAuth(a)
  \/ RefreshAnswered(a)
  \/ RefreshRefused(a)
  \/ RefreshFails(a)
  \/ StoreAuth(a)
  \/ ClearAuth(a)
  \/ Gate(a)
  \/ RequestCode(a)
  \/ Poll(a)
  \/ Exchange(a)

Next ==
  \/ \E a \in Attempts : Begin(a) \/ Cancel(a) \/ Step(a) \/ Drop(a)
  \/ DialogueStep
  \/ ChildStep
  \/ TokenExpires
  \/ Revoke
  \/ Crash

Spec == Init /\ [][Next]_vars

\* Attempts run, and every wait of the code has a timeout of its own; nothing
\* is assumed of the child, the issuer or the user.
Fairness ==
  /\ \A a \in Attempts : WF_vars(Step(a))
  /\ WF_vars(DialogueStep)

FairSpec == Spec /\ Fairness

-----------------------------------------------------------------------------
(* Properties. *)

Places == {"idle", "lock", "start", "dialogue", "load", "refresh", "store", "clear", "gate",
           "code", "poll", "exchange", "over"}

OuterTypeOK ==
  /\ platform \in {"windows", "android", "other"}
  /\ lock \in Attempts \cup {None} /\ cancelled \subseteq Attempts
  /\ pc \in [Attempts -> Places] /\ outcome \in [Attempts -> Verdicts]
  /\ held \in [Attempts -> Stores]
  /\ poll \in [Attempts -> [polls : 0 .. PollLimit, failures : 0 .. MaxFailures]]
  /\ store \in Stores /\ clockAhead \in BOOLEAN
  /\ live \subseteq Tokens /\ minted \in Tokens /\ forgiven \subseteq Tokens
  /\ unrenewed \subseteq Tokens
  /\ crashes \in 0 .. MaxCrashes

TypeOK == DialogueTypeOK /\ OuterTypeOK

\* An attempt that returned has let go of the lock, and one that holds it is
\* running: no cancel, dropped future or crash leaves the lock behind.
LockIsHeldByARunner == lock # None => pc[lock] \notin {"idle", "lock", "over"}

\* The refresh token on the device is one the issuer accepts: the attempts
\* refresh one after the other and keep what they are given (AUTH_BROKER_LOCK,
\* refresh_stored_auth, store_auth).  Exempt is what the code cannot or does not
\* mend: a token the issuer revoked; one replaced in an answer that got lost; and
\* one whose replacement arrived and was not kept, because the plugin failed to
\* store it or the application died before it did.
StoredTokenIsLive ==
  store.kind = "auth" =>
    \/ store.refresh \in live \cup forgiven
    \/ \E a \in Attempts : pc[a] \in {"store", "clear"}

\* The device loses its credentials only when the refresh of the very token it
\* has got nothing that can be kept: a refusal, an access token that is not valid
\* by the device's clock, an empty refresh token.  What an attempt learned of an
\* older token never costs a newer one.  (Nothing is assumed of the issuer: it
\* may refuse a token and go on accepting it.)
ClearedOnlyUseless ==
  [][store.kind = "auth" /\ store'.kind # "auth" => store.refresh \in unrenewed]_store

\* Every attempt to authenticate ends, whatever the child, the issuer and the
\* user do or fail to do: each wait of auth_broker.rs has a limit.
AttemptsEnd == \A a \in Attempts : (pc[a] # "idle") ~> (pc[a] = "over")
=============================================================================
