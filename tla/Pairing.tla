-------------------------------- MODULE Pairing --------------------------------
(***************************************************************************)
(* Pairing and enrollment (src-tauri/src/pairing.rs): once authenticated,  *)
(* an attempt makes sure this device has a registration (a key in the      *)
(* operating system's store, a client at the server and a file naming      *)
(* both), claims the pair code, chooses the host's environment and opens   *)
(* the relay.  Attempts run in parallel; a cancel, the caller's timeout or *)
(* a crash ends one at any await.                                          *)
(*                                                                         *)
(* An attempt enrolls at most once, so its name also names the key and the *)
(* client it creates; Old names those of an earlier run.                   *)
(***************************************************************************)
EXTENDS Integers, FiniteSets

CONSTANTS
  Attempts,
  Old,         \* the registration an earlier run left
  None, Torn,  \* no registration; a file that does not parse
  Accounts,    \* ChatGPT users
  Envs,        \* environments of the account
  PortCount,   \* ports the step-up may listen on, two in the code
  MaxLooks,    \* times choose_environment looks, fifteen in the code
  MaxEvents    \* bound on what happens to keys, clients and environments by itself

ASSUME PairingAssumption ==
  /\ Old \notin Attempts /\ Old # None /\ Old # Torn /\ None # Torn
  /\ {None, Torn} \cap Attempts = {} /\ None \notin Envs
  /\ {PortCount, MaxEvents} \subseteq Nat /\ MaxLooks \in Nat \ {0}

Registrations == Attempts \cup {Old}
Ports == 1 .. PortCount

VARIABLES
  who,         \* the account a registration or attempt is of
  target,      \* the environment whose pair code the user entered
  file,        \* remote-control-enrollment.json
  keys,        \* keys in the operating system's store
  registered,  \* clients the server knows
  online,      \* environments that are online
  pc,          \* where an attempt is
  pairs,       \* the attempt pairs; otherwise it only prepares
  using,       \* its registration
  listener,    \* the attempt listening on a port
  opened,      \* attempts whose authorize page is open in the browser, with the port
  callbacks,   \* callbacks of the browser under way
  code,        \* whose authorize page the attempt's step-up code is from
  before,      \* environments it saw online before the claim
  arrived,     \* history: environments that came online since, or that the list left out
  chosen,      \* the environment it chose
  looks,       \* times it looked for the environment
  lost,        \* history: keys the system lost and clients the server forgot
  forsaken,    \* history: registrations given up without their key being deleted
  events

deviceVars == <<file, keys>>
serverVars == <<registered, online>>
browserVars == <<listener, opened, callbacks, code>>
choiceVars == <<before, arrived, chosen, looks>>
vars == <<who, target, deviceVars, serverVars, pc, pairs, using, browserVars, choiceVars, lost,
          forsaken, events>>

Init ==
  /\ who \in [Registrations -> Accounts] /\ target \in [Attempts -> Envs]
  /\ file \in {None, Old}
  /\ keys = {file} \ {None} /\ registered = {file} \ {None}
  /\ online = {}
  /\ pc = [a \in Attempts |-> "idle"] /\ pairs = [a \in Attempts |-> FALSE]
  /\ using = [a \in Attempts |-> None]
  /\ listener = [p \in Ports |-> None] /\ opened = {} /\ callbacks = {}
  /\ code = [a \in Attempts |-> None]
  /\ before = [a \in Attempts |-> {}] /\ arrived = [a \in Attempts |-> {}]
  /\ chosen = [a \in Attempts |-> None] /\ looks = [a \in Attempts |-> 0]
  /\ lost = {} /\ forsaken = {} /\ events = 0

Go(a, to) == pc' = [pc EXCEPT ![a] = to]
Fail(a) == Go(a, "failed")

Forsake(files) == forsaken' = forsaken \cup (files \cap Registrations)

-----------------------------------------------------------------------------
\* The registration on the device.

\* connect_with_pair or prepare_for_pairing, authenticated and not cancelled.
Start(a) ==
  /\ pc[a] = "idle" /\ Go(a, "read")
  /\ \E p \in BOOLEAN : pairs' = [pairs EXCEPT ![a] = p]
  /\ UNCHANGED <<who, target, deviceVars, serverVars, using, browserVars, choiceVars, lost,
                 forsaken, events>>

\* read_enrollment: only the account's own.
ReadEnrollment(a) ==
  /\ pc[a] = "read"
  /\ IF file \in Registrations /\ who[file] = who[a]
     THEN using' = [using EXCEPT ![a] = file] /\ Go(a, "check")
     ELSE UNCHANGED using /\ Go(a, "enroll")
  /\ UNCHANGED <<who, target, deviceVars, serverVars, pairs, browserVars, choiceVars, lost,
                 forsaken, events>>

\* sign: needs the key, and the system to let it be used.
CanSign(a) == using[a] \in keys

\* The trial signature of authorize_client.
CheckKey(a) ==
  /\ pc[a] = "check"
  /\ (CanSign(a) /\ Go(a, "refresh")) \/ Go(a, "discard")
  /\ UNCHANGED <<who, target, deviceVars, serverVars, pairs, using, browserVars, choiceVars,
                 lost, forsaken, events>>

\* refresh_enrollment.  An answer that says 404 or "not found", or a signature
\* that fails, gives the registration up; any other error ends the attempt.
Refresh(a) ==
  /\ pc[a] = "refresh"
  /\ \/ using[a] \in registered /\ CanSign(a) /\ Go(a, "authorized")
     \/ Go(a, "discard")
     \/ Fail(a)
  /\ UNCHANGED <<who, target, deviceVars, serverVars, pairs, using, browserVars, choiceVars,
                 lost, forsaken, events>>

\* discard_enrollment: first the file, whatever it holds by now.
DiscardFile(a) ==
  /\ pc[a] = "discard"
  /\ \/ file' = None /\ Go(a, "discardKey") /\ Forsake({file} \ {using[a]})
     \/ UNCHANGED <<file, forsaken>> /\ Fail(a)
  /\ UNCHANGED <<who, target, keys, serverVars, pairs, using, browserVars, choiceVars, lost,
                 events>>

\* The operating system's answer is ignored.
DeleteKey(a) ==
  \/ keys' = keys \ {using[a]} /\ UNCHANGED forsaken
  \/ UNCHANGED keys /\ Forsake({using[a]})

DiscardKey(a) ==
  /\ pc[a] = "discardKey"
  /\ DeleteKey(a) /\ using' = [using EXCEPT ![a] = None]
  /\ Go(a, "enroll")
  /\ UNCHANGED <<who, target, file, serverVars, pairs, browserVars, choiceVars, lost, events>>

-----------------------------------------------------------------------------
\* A new registration.

\* enroll/start, and the account it answers for.
EnrollStart(a) ==
  /\ pc[a] = "enroll"
  /\ Go(a, "create") \/ Fail(a)
  /\ UNCHANGED <<who, target, deviceVars, serverVars, pairs, using, browserVars, choiceVars,
                 lost, forsaken, events>>

\* PlatformDeviceIdentity::create; an error after the key was stored leaves it.
CreateKey(a) ==
  /\ pc[a] = "create"
  /\ \/ /\ keys' = keys \cup {a} /\ using' = [using EXCEPT ![a] = a]
        /\ Go(a, "listen")
        /\ UNCHANGED forsaken
     \/ keys' = keys \cup {a} /\ Forsake({a}) /\ UNCHANGED using /\ Fail(a)
     \/ UNCHANGED <<keys, using, forsaken>> /\ Fail(a)
  /\ UNCHANGED <<who, target, file, serverVars, pairs, browserVars, choiceVars, lost,
                 events>>

Free == {p \in Ports : listener[p] = None}
Quit(a) == [p \in Ports |-> IF listener[p] = a THEN None ELSE listener[p]]

\* bind_oauth_listener and open_browser.
BindListener(a) ==
  /\ pc[a] = "listen"
  /\ \/ \E p \in Free :
          /\ \A q \in Free : p <= q
          /\ listener' = [listener EXCEPT ![p] = a]
          /\ opened' = opened \cup {[by |-> a, port |-> p]}
          /\ Go(a, "browser")
     \/ Go(a, "cleanup") /\ UNCHANGED <<listener, opened>>
  /\ UNCHANGED <<who, target, deviceVars, serverVars, pairs, using, callbacks, code,
                 choiceVars, lost, forsaken, events>>

\* The state of the authorize request.
IsExpected(a, c) == c.by = a

\* wait_for_oauth_callback serves a request; another page's is answered 400.
ServeCallback(a) ==
  /\ pc[a] = "browser"
  /\ \E c \in callbacks :
       /\ listener[c.port] = a
       /\ callbacks' = callbacks \ {c}
       /\ IF IsExpected(a, c)
          THEN /\ code' = [code EXCEPT ![a] = c.by] /\ listener' = Quit(a)
               /\ Go(a, "finish")
          ELSE UNCHANGED <<code, listener, pc>>
  /\ UNCHANGED <<who, target, deviceVars, serverVars, pairs, using, opened, choiceVars,
                 lost, forsaken, events>>

\* Waits as long as the user takes.
CallbackTimesOutMistake(a) == FALSE /\ UNCHANGED vars    \* never

\* 300 seconds without the callback.
CallbackTimesOut(a) ==
  /\ pc[a] = "browser"
  /\ listener' = Quit(a) /\ Go(a, "cleanup")
  /\ UNCHANGED <<who, target, deviceVars, serverVars, pairs, using, opened, callbacks, code,
                 choiceVars, lost, forsaken, events>>

\* Keeps the registration when the server's answer is an error.
FinishEnrollMistake(a) ==
  /\ pc[a] = "finish" /\ Go(a, "write")
  /\ registered' \in {registered, registered \cup {a}}
  /\ UNCHANGED <<who, target, deviceVars, online, pairs, using, browserVars, choiceVars,
                 lost, forsaken, events>>

\* The token exchange, validate_step_up_token, the signature, enroll/finish and
\* validate_remote_token.  The server may have registered what then fails.
FinishEnroll(a) ==
  /\ pc[a] = "finish"
  /\ \/ CanSign(a) /\ registered' = registered \cup {a} /\ Go(a, "write")
     \/ CanSign(a) /\ registered' = registered \cup {a} /\ Go(a, "cleanup")
     \/ UNCHANGED registered /\ Go(a, "cleanup")
  /\ UNCHANGED <<who, target, deviceVars, online, pairs, using, browserVars, choiceVars,
                 lost, forsaken, events>>

\* write_enrollment: fs::write truncates and then fills the file.
BeginWrite(a) ==
  /\ pc[a] = "write"
  /\ \/ file' = Torn /\ Go(a, "writing") /\ Forsake({file})
     \/ UNCHANGED <<file, forsaken>> /\ Go(a, "cleanup")
  /\ UNCHANGED <<who, target, keys, serverVars, pairs, using, browserVars, choiceVars, lost,
                 events>>

\* What another attempt did to the file meanwhile may stay, or mix with this.
FinishWrite(a) ==
  /\ pc[a] = "writing"
  /\ \/ /\ file' \in {a} \cup (IF file = Torn THEN {} ELSE {file, Torn})
        /\ Go(a, "authorized") /\ Forsake({a, file} \ {file'})
     \/ UNCHANGED <<file, forsaken>> /\ Go(a, "cleanup")
  /\ UNCHANGED <<who, target, keys, serverVars, pairs, using, browserVars, choiceVars, lost,
                 events>>

\* Returns the error only.
DeleteOwnKeyMistake(a) ==
  /\ pc[a] = "cleanup" /\ Fail(a)
  /\ UNCHANGED <<who, target, deviceVars, serverVars, pairs, using, browserVars, choiceVars,
                 lost, forsaken, events>>

\* authorize_client after an error: the new key goes.
DeleteOwnKey(a) ==
  /\ pc[a] = "cleanup" /\ Fail(a)
  /\ DeleteKey(a)
  /\ UNCHANGED <<who, target, file, serverVars, pairs, using, browserVars, choiceVars, lost,
                 events>>

-----------------------------------------------------------------------------
\* The pair code, the environment and the relay.

Prepared(a) ==
  /\ pc[a] = "authorized" /\ ~pairs[a] /\ Go(a, "ready")
  /\ UNCHANGED <<who, target, deviceVars, serverVars, pairs, using, browserVars, choiceVars,
                 lost, forsaken, events>>

\* list_environments reads the first page, of a hundred environments, and ignores
\* the cursor: which of the environments are on it is the server's choice.
FirstPages == SUBSET Envs

\* list_environments before the claim.
ListBefore(a) ==
  /\ pc[a] = "authorized" /\ pairs[a]
  /\ \/ \E seen \in FirstPages :
          /\ Go(a, "claim")
          /\ before' = [before EXCEPT ![a] = seen \cap online]
          /\ arrived' = [arrived EXCEPT ![a] = online \ seen]
     \/ Fail(a) /\ UNCHANGED <<before, arrived>>
  /\ UNCHANGED <<who, target, deviceVars, serverVars, pairs, using, browserVars, chosen,
                 looks, lost, forsaken, events>>

\* claim_pair_code; the answer may name the environment.
ClaimCode(a) ==
  /\ pc[a] = "claim"
  /\ \/ /\ using[a] \in registered
        /\ \/ Go(a, "relay") /\ chosen' = [chosen EXCEPT ![a] = target[a]]
           \/ Go(a, "choose") /\ UNCHANGED chosen
     \/ Fail(a) /\ UNCHANGED chosen
  /\ UNCHANGED <<who, target, deviceVars, serverVars, pairs, using, browserVars, before,
                 arrived, looks, lost, forsaken, events>>

\* Any environment that is online will do.
CandidatesMistake(a, seen) == seen \cap online

\* select_paired_environment.
Candidates(a, seen) == (seen \cap online) \ before[a]

\* The bound of choose_environment's loop.
MayLookAgain(a) == looks[a] + 1 < MaxLooks

\* choose_environment looks once a second.
Look(a) ==
  /\ pc[a] = "choose"
  /\ \E seen \in FirstPages :
       \/ \E e \in Candidates(a, seen) :
            /\ chosen' = [chosen EXCEPT ![a] = e] /\ Go(a, "relay")
            /\ UNCHANGED looks
       \/ /\ Candidates(a, seen) = {} /\ MayLookAgain(a)
          /\ looks' = [looks EXCEPT ![a] = @ + 1]
          /\ UNCHANGED <<chosen, pc>>
       \/ /\ Candidates(a, seen) = {} /\ ~MayLookAgain(a)
          /\ Fail(a) /\ UNCHANGED <<chosen, looks>>
       \/ Fail(a) /\ UNCHANGED <<chosen, looks>>      \* the list fails
  /\ UNCHANGED <<who, target, deviceVars, serverVars, pairs, using, browserVars, before,
                 arrived, lost, forsaken, events>>

\* open_relay: the token, the socket, and the challenge signed with the key.
OpenRelay(a) ==
  /\ pc[a] = "relay"
  /\ (using[a] \in registered /\ CanSign(a) /\ Go(a, "connected")) \/ Fail(a)
  /\ UNCHANGED <<who, target, deviceVars, serverVars, pairs, using, browserVars, choiceVars,
                 lost, forsaken, events>>

-----------------------------------------------------------------------------
\* The surroundings.

Awaits == {"refresh", "enroll", "browser", "finish", "authorized", "claim", "choose", "relay"}

\* The cancel or PAIR_CONNECT_TIMEOUT drops the future where it waits; the
\* server may still serve what was sent.
Cancel(a) ==
  /\ pc[a] \in Awaits
  /\ Go(a, "cancelled") /\ listener' = Quit(a) /\ Forsake({using[a]} \ {file})
  /\ registered' \in {registered} \cup
       (IF pc[a] = "finish" /\ CanSign(a) THEN {registered \cup {a}} ELSE {})
  /\ UNCHANGED <<who, target, deviceVars, online, pairs, using, opened, callbacks, code,
                 choiceVars, lost, events>>

Ends == {"failed", "cancelled", "ready", "connected"}
Running(a) == pc[a] \notin Ends \cup {"idle"}

Happens == events < MaxEvents /\ events' = events + 1

Crash ==
  /\ Happens /\ \E a \in Attempts : Running(a)
  /\ pc' = [a \in Attempts |-> IF Running(a) THEN "cancelled" ELSE pc[a]]
  /\ listener' = [p \in Ports |-> None]
  /\ Forsake({using[a] : a \in {b \in Attempts : Running(b)}} \ {file})
  /\ UNCHANGED <<who, target, deviceVars, serverVars, pairs, using, opened, callbacks, code,
                 choiceVars, lost>>

\* The user approves on an authorize page, however old it is.
Approve ==
  /\ \E o \in opened :
       opened' = opened \ {o} /\ callbacks' = callbacks \cup {o}
  /\ UNCHANGED <<who, target, deviceVars, serverVars, pc, pairs, using, listener, code,
                 choiceVars, lost, forsaken, events>>

\* A callback to a port nobody listens on is refused.
CallbackRefused ==
  /\ \E c \in callbacks : listener[c.port] = None /\ callbacks' = callbacks \ {c}
  /\ UNCHANGED <<who, target, deviceVars, serverVars, pc, pairs, using, listener, opened,
                 code, choiceVars, lost, forsaken, events>>

\* The system loses a key, or the server forgets a client.
LoseRegistration ==
  /\ Happens
  /\ \E r \in Registrations :
       /\ lost' = lost \cup {r}
       /\ \/ r \in keys /\ keys' = keys \ {r} /\ UNCHANGED registered
          \/ r \in registered /\ registered' = registered \ {r} /\ UNCHANGED keys
  /\ UNCHANGED <<who, target, file, online, pc, pairs, using, browserVars, choiceVars,
                 forsaken>>

EnvironmentTurns ==
  /\ Happens
  /\ \E e \in Envs :
       \/ /\ e \notin online /\ online' = online \cup {e}
          /\ arrived' = [a \in Attempts |-> arrived[a] \cup {e}]
       \/ e \in online /\ online' = online \ {e} /\ UNCHANGED arrived
  /\ UNCHANGED <<who, target, deviceVars, registered, pc, pairs, using, browserVars, before,
                 chosen, looks, lost, forsaken>>

-----------------------------------------------------------------------------
Step(a) ==
  \/ ReadEnrollment(a)
  \/ CheckKey(a)
  \/ Refresh(a)
  \/ DiscardFile(a)
  \/ DiscardKey(a)
  \/ EnrollStart(a)
  \/ CreateKey(a)
  \/ BindListener(a)
  \/ CallbackTimesOut(a)
  \/ FinishEnroll(a)
  \/ BeginWrite(a)
  \/ FinishWrite(a)
  \/ DeleteOwnKey(a)
  \/ Prepared(a)
  \/ ListBefore(a)
  \/ ClaimCode(a)
  \/ Look(a)
  \/ OpenRelay(a)

Next ==
  \/ \E a \in Attempts : Start(a) \/ Step(a) \/ ServeCallback(a) \/ Cancel(a)
  \/ Crash
  \/ Approve
  \/ CallbackRefused
  \/ LoseRegistration
  \/ EnvironmentTurns

Spec == Init /\ [][Next]_vars

\* Every wait of an attempt has a limit; nothing is assumed of the user, the
\* browser, the server and the hosts.
FairSpec == Spec /\ \A a \in Attempts : WF_vars(Step(a))

-----------------------------------------------------------------------------
(* Properties. *)

Places == Ends \cup Awaits \cup {"idle", "read", "check", "discard", "discardKey", "create",
                                  "listen", "write", "writing", "cleanup"}
Pages == [by : Attempts, port : Ports]

TypeOK ==
  /\ who \in [Registrations -> Accounts] /\ target \in [Attempts -> Envs]
  /\ file \in Registrations \cup {None, Torn}
  /\ keys \subseteq Registrations /\ registered \subseteq Registrations /\ online \subseteq Envs
  /\ pc \in [Attempts -> Places] /\ pairs \in [Attempts -> BOOLEAN]
  /\ using \in [Attempts -> Registrations \cup {None}]
  /\ listener \in [Ports -> Attempts \cup {None}]
  /\ opened \subseteq Pages /\ callbacks \subseteq Pages
  /\ code \in [Attempts -> Attempts \cup {None}]
  /\ before \in [Attempts -> SUBSET Envs] /\ arrived \in [Attempts -> SUBSET Envs]
  /\ chosen \in [Attempts -> Envs \cup {None}] /\ looks \in [Attempts -> 0 .. MaxLooks - 1]
  /\ {lost, forsaken} \subseteq SUBSET Registrations /\ events \in 0 .. MaxEvents

\* The registration file names a key the device has and a client the server
\* registered, unless one of them was lost by itself: whatever attempts,
\* cancels and crashes interleave, a registration is written after both exist
\* and its key is deleted after the file is gone.
RegistrationIsUsable ==
  file \in Registrations => file \in (keys \cap registered) \cup lost

\* Every key on the device belongs to the registration on file or to a running
\* attempt, except those of registrations that a cancel, a crash, a failing
\* create or delete or another attempt's file made it give up: an enrollment
\* that fails deletes its key, a discarded registration takes its key along.
KeysAreAccountedFor ==
  keys \subseteq {file} \cup {using[a] : a \in {b \in Attempts : Running(b)}} \cup forsaken

\* The step-up code an attempt goes on with was granted on its own authorize
\* page, also when an earlier attempt's page answers on the same port late.
StepUpIsItsOwn == \A a \in Attempts : code[a] \in {None, a}

\* Unless another environment came online since the attempt listed them, or was
\* online beyond the page it read, it connects to the environment whose code the
\* user entered.
ConnectsToTheCodesHost ==
  \A a \in Attempts :
    chosen[a] # None => chosen[a] = target[a] \/ arrived[a] \ {target[a]} # {}

\* Every pairing attempt ends, connected or not: each wait of pairing.rs has a
\* limit, and nothing else in it can go round for ever.
PairingEnds == \A a \in Attempts : Running(a) ~> ~Running(a)
=============================================================================
