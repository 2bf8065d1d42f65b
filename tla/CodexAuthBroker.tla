--------------------------- MODULE CodexAuthBroker ---------------------------
(***************************************************************************)
(* The authentication dialogue on Windows: CodexAuthBroker of              *)
(* src-tauri/src/auth_broker.rs talks over stdio to a `codex app-server`   *)
(* started for one attempt, asks it for the account and its token, and     *)
(* runs a device code login when there is none.  The child is modelled     *)
(* from the requests the broker sends it.                                  *)
(***************************************************************************)
EXTENDS Integers, Sequences

CONSTANT MaxNoise     \* bound on the messages of the child nobody asked for

ASSUME NoiseAssumption == MaxNoise \in Nat

VARIABLES
  stage,      \* what CodexAuthBroker::authenticate waits for
  requested,  \* the methods requested so far; a request's id is its place
  toChild,    \* requests the child has not read
  toBroker,   \* lines the broker has not read
  child,      \* "none", "alive" or "ended"
  account,    \* the account the child is signed in with
  login,      \* the child's login: "none", "pending", "succeeded", "failed", "cancelled"
  noise,      \* messages of the child nobody asked for
  verdict     \* what authenticate returned

dialogueVars == <<stage, requested, toChild, toBroker, child, account, login, noise, verdict>>

Methods == {"initialize", "account/read", "getAuthStatus", "account/login/start",
            "account/login/cancel"}
Accounts == {"none", "chatgpt", "apiKey"}
Verdicts == {"none", "token", "error", "cancelled"}
Stages   == {"closed", "initialize", "account", "status", "login", "wait",
             "cancel", "expire", "accountAfter", "statusAfter"}

\* A message: its id (0: none), what it answers or announces, and how it went.
Answer(i, r)  == [id |-> i, is |-> "answer", result |-> r]
Completed(r)  == [id |-> 0, is |-> "completed", result |-> r]     \* of this login
Elsewhere     == [id |-> 0, is |-> "elsewhere", result |-> "ok"]  \* completed, another login
Ask           == [id |-> 1, is |-> "ask", result |-> "ok"]        \* a request of the child
Results       == {"ok", "error"} \cup Accounts
Messages      == [id : Nat, is : {"answer", "completed", "elsewhere", "ask"}, result : Results]

DialogueInit ==
  /\ stage = "closed" /\ requested = << >> /\ toChild = << >> /\ toBroker = << >>
  /\ child = "none" /\ account = "none" /\ login = "none"
  /\ noise = 0 /\ verdict = "none"

-----------------------------------------------------------------------------
\* The broker.

Request(method) ==
  /\ requested' = Append(requested, method)
  /\ toChild' = IF child = "ended" THEN toChild
                ELSE Append(toChild, [id |-> Len(requested) + 1, method |-> method])

NoRequest == UNCHANGED <<requested, toChild>>

Return(v) == stage' = "closed" /\ verdict' = v

\* authenticate_platform starts the child, authenticate its dialogue.
OpenDialogue ==
  /\ stage = "closed" /\ verdict = "none"
  /\ stage' = "initialize" /\ child' = "alive"
  /\ account' \in Accounts
  /\ requested' = <<"initialize">>
  /\ toChild' = <<[id |-> 1, method |-> "initialize"]>>
  /\ toBroker' = << >> /\ login' = "none"
  /\ UNCHANGED <<noise, verdict>>

\* The request of a stage, and the stage after its answer.
Waits == {"initialize", "account", "status", "login", "cancel", "expire", "accountAfter",
          "statusAfter"}

\* cancel_login's caller: the user cancelled, or LOGIN_TIMEOUT is over.
GivingUp == {"cancel", "expire"}
Failure  == IF stage = "cancel" THEN "cancelled" ELSE "error"

HasLine == toBroker # << >>
Line    == Head(toBroker)
IsAnswer == HasLine /\ Line.is = "answer" /\ Line.id = Len(requested)

\* material_from_status: the account's type, then the token.
Material(answer) ==
  CASE answer \in {"apiKey", "error"} -> "error"
    [] answer = "chatgpt"             -> "token"
    [] OTHER                          -> "none"

\* request returns an answer, and authenticate goes on.
ReadAnswer ==
  /\ stage \in Waits /\ IsAnswer
  /\ toBroker' = Tail(toBroker)
  /\ \/ /\ stage = "initialize" /\ Line.result # "error"
        /\ stage' = "account" /\ Request("account/read") /\ UNCHANGED verdict
     \/ /\ stage = "account" /\ Line.result # "error"
        /\ stage' = "status" /\ Request("getAuthStatus") /\ UNCHANGED verdict
     \/ /\ stage = "status" /\ Material(Line.result) = "none"
        /\ stage' = "login" /\ Request("account/login/start") /\ UNCHANGED verdict
     \/ /\ stage = "login" /\ Line.result # "error"
        /\ stage' = "wait" /\ NoRequest /\ UNCHANGED verdict
     \/ /\ stage = "accountAfter" /\ Line.result # "error"
        /\ stage' = "statusAfter" /\ Request("getAuthStatus") /\ UNCHANGED verdict
     \/ /\ stage \in GivingUp /\ Return(Failure) /\ NoRequest
     \/ /\ stage \in {"status", "statusAfter"} /\ Material(Line.result) = "token"
        /\ Return("token") /\ NoRequest
     \/ /\ \/ stage \in {"status", "statusAfter"} /\ Material(Line.result) = "error"
           \/ stage = "statusAfter" /\ Material(Line.result) = "none"
           \/ stage \notin {"status", "statusAfter"} \cup GivingUp /\ Line.result = "error"
        /\ Return("error") /\ NoRequest
  /\ UNCHANGED <<child, account, login, noise>>

\* reject_server_request_if_needed: what is not the answer is dropped, but a
\* request of the child is refused, which changes nothing here.
ReadOther ==
  /\ stage # "closed" /\ HasLine
  /\ ~(stage \in Waits /\ IsAnswer)
  /\ stage = "wait" => Line.is # "completed"
  /\ toBroker' = Tail(toBroker)
  /\ UNCHANGED <<stage, requested, toChild, child, account, login, noise, verdict>>

\* Takes the end of any login for the end of its own.
ReadCompletedMistake ==
  /\ stage = "wait" /\ HasLine /\ Line.is \in {"completed", "elsewhere"}
  /\ toBroker' = Tail(toBroker)
  /\ IF Line.result = "ok"
     THEN stage' = "accountAfter" /\ Request("account/read") /\ UNCHANGED verdict
     ELSE Return("error") /\ NoRequest
  /\ UNCHANGED <<child, account, login, noise>>

\* wait_for_login reads the end of its login.
ReadCompleted ==
  /\ stage = "wait" /\ HasLine /\ Line.is = "completed"
  /\ toBroker' = Tail(toBroker)
  /\ IF Line.result = "ok"
     THEN stage' = "accountAfter" /\ Request("account/read") /\ UNCHANGED verdict
     ELSE Return("error") /\ NoRequest
  /\ UNCHANGED <<child, account, login, noise>>

\* next_line returns None.
ReadEnd ==
  /\ stage # "closed" /\ ~HasLine /\ child = "ended"
  /\ Return(Failure)
  /\ UNCHANGED <<requested, toChild, toBroker, child, account, login, noise>>

\* RPC_TIMEOUT, or CANCEL_TIMEOUT in cancel_login.
RpcTimesOut ==
  /\ stage \in Waits
  /\ Return(Failure)
  /\ UNCHANGED <<requested, toChild, toBroker, child, account, login, noise>>

\* The user's cancel: cancel_login.
EndWait ==
  /\ stage = "wait"
  /\ stage' = "cancel" /\ Request("account/login/cancel")
  /\ UNCHANGED <<toBroker, child, account, login, noise, verdict>>

\* LOGIN_TIMEOUT, which runs on while a cancel waits for its answer: the login is
\* cancelled, once more if need be, and a timeout reported.
LoginTimesOut ==
  /\ stage \in {"wait", "cancel"}
  /\ stage' = "expire" /\ Request("account/login/cancel")
  /\ UNCHANGED <<toBroker, child, account, login, noise, verdict>>

\* The child is killed with the attempt, or when its future is dropped.
CloseDialogue ==
  /\ stage' = "closed" /\ child' = "none" /\ verdict' = "none"
  /\ toChild' = << >> /\ toBroker' = << >> /\ requested' = << >>
  /\ account' = "none" /\ login' = "none"
  /\ UNCHANGED noise

-----------------------------------------------------------------------------
\* The child.

\* Answers the first request it has not read.
ChildAnswers ==
  /\ child = "alive" /\ toChild # << >>
  /\ toChild' = Tail(toChild)
  /\ LET r == Head(toChild)
         done == IF r.method = "getAuthStatus" THEN account ELSE "ok"
     IN
     \/ /\ toBroker' = Append(toBroker, Answer(r.id, done))
        /\ login' = CASE r.method = "account/login/start" -> "pending"
                      [] r.method = "account/login/cancel" /\ login = "pending" -> "cancelled"
                      [] OTHER -> login
     \/ toBroker' = Append(toBroker, Answer(r.id, "error")) /\ UNCHANGED login
  /\ UNCHANGED <<stage, requested, child, account, noise, verdict>>

\* The user finishes the login in the browser, or refuses it.
LoginEnds ==
  /\ child = "alive" /\ login = "pending"
  /\ \/ /\ login' = "succeeded" /\ account' = "chatgpt"
        /\ toBroker' = Append(toBroker, Completed("ok"))
     \/ /\ login' = "failed" /\ UNCHANGED account
        /\ toBroker' = Append(toBroker, Completed("error"))
  /\ UNCHANGED <<stage, requested, toChild, child, noise, verdict>>

ChildSpeaks ==
  /\ child = "alive" /\ noise < MaxNoise
  /\ noise' = noise + 1
  /\ toBroker' \in {Append(toBroker, Ask), Append(toBroker, Elsewhere)}
  /\ UNCHANGED <<stage, requested, toChild, child, account, login, verdict>>

ChildEnds ==
  /\ child = "alive"
  /\ child' = "ended" /\ toChild' = << >>
  /\ UNCHANGED <<stage, requested, toBroker, account, login, noise, verdict>>

-----------------------------------------------------------------------------
Broker ==
  ReadAnswer \/ ReadOther \/ ReadCompleted \/ ReadEnd \/ RpcTimesOut \/ EndWait \/ LoginTimesOut

Child == ChildAnswers \/ LoginEnds \/ ChildSpeaks \/ ChildEnds

(* Properties. *)

DialogueTypeOK ==
  /\ stage \in Stages /\ requested \in Seq(Methods)
  /\ toChild \in Seq([id : Nat, method : Methods]) /\ toBroker \in Seq(Messages)
  /\ child \in {"none", "alive", "ended"} /\ account \in Accounts
  /\ login \in {"none", "pending", "succeeded", "failed", "cancelled"}
  /\ noise \in 0 .. MaxNoise /\ verdict \in Verdicts

\* The broker asks for the account again only after its own login succeeded, and
\* not after another one did (the loginId of account/login/completed).
OnlyItsLoginCounts == stage \in {"accountAfter", "statusAfter"} => login = "succeeded"
=============================================================================
