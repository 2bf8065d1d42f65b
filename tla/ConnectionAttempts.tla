------------------------- MODULE ConnectionAttempts -------------------------
(***************************************************************************)
(* The Tauri side of a desktop connection (src-tauri/src/lib.rs): the      *)
(* registry of connection attempts and of cancellations, the commands that *)
(* open a connection, the table of live connections and the task that      *)
(* serves each of them.                                                    *)
(*                                                                         *)
(* The commands run concurrently, so every lock acquisition and every      *)
(* await is an action of its own.  An attempt id is a fresh UUID and a     *)
(* connection id is drawn from a counter that never repeats, so the        *)
(* connection an attempt opens is named by the attempt.                    *)
(***************************************************************************)
EXTENDS Sequences, FiniteSets

CONSTANTS Attempts,     \* the attempt ids the user interface draws
          NoAttempt     \* JavaScript's null, and connection id 0

ASSUME NoAttemptAssumption == NoAttempt \notin Attempts

VARIABLES
  calls,        \* invokes on their way to a command
  replies,      \* results on their way back to the awaiting operation
  events,       \* per connection: Tauri events not yet delivered, in order
  kind,         \* per attempt: which command it runs
  cmd,          \* per attempt: how far its command has come
  ok,           \* per attempt: whether the command returns Ok
  signal,       \* per attempt: the state of its cancellation watch channel
  attempts,     \* AppState.attempts: the attempts that can be signalled
  cancelled,    \* AppState.cancelled_attempts: cancels that found no attempt
  connections,  \* AppState.connections
  task,         \* per connection: its serving task
  outbox        \* per connection: the task's channel of outgoing messages

rustVars == <<kind, cmd, ok, signal, attempts, cancelled, connections, task, outbox>>
ipcVars  == <<calls, replies, events>>

Kinds   == {"direct", "pair", "prepare"}

\* Initial is a channel created with the value true: the value can be read
\* but changed() never fires for it.  Sent is a value sent after creation.
Signals == {"none", "initial", "sent"}

Phases == {"idle", "took", "registered", "authenticating", "connecting",
           "installed", "dropping", "forgotten", "returned"}

TaskStates == {"none", "running", "ending", "removed", "ended"}

Call(c, a, by)  == [cmd |-> c, about |-> a, by |-> by]
Reply(r, a, good) == [to |-> a, reply |-> r, good |-> good]

RustInit ==
  /\ calls = {} /\ replies = {} /\ events = [a \in Attempts |-> << >>]
  /\ kind = [a \in Attempts |-> "direct"]
  /\ cmd = [a \in Attempts |-> "idle"]
  /\ ok = [a \in Attempts |-> FALSE]
  /\ signal = [a \in Attempts |-> "none"]
  /\ attempts = {} /\ cancelled = {} /\ connections = {}
  /\ task = [a \in Attempts |-> "none"]
  /\ outbox = [a \in Attempts |-> << >>]

-----------------------------------------------------------------------------
\* The commands that open a connection.

\* A direct connection's URL or token is refused before anything is registered.
RefuseRequest(a) ==
  /\ Call("connect", a, a) \in calls
  /\ kind[a] = "direct"
  /\ calls' = calls \ {Call("connect", a, a)}
  /\ cmd' = [cmd EXCEPT ![a] = "returned"]
  /\ replies' = replies \cup {Reply("connect", a, FALSE)}
  /\ UNCHANGED <<events, kind, ok, signal, attempts, cancelled, connections, task, outbox>>

\* begin_connection_attempt, first lock: a cancel that came before the command
\* becomes the initial value of the watch channel.
TakeEarlyCancel(a) ==
  /\ Call("connect", a, a) \in calls
  /\ calls' = calls \ {Call("connect", a, a)}
  /\ cmd' = [cmd EXCEPT ![a] = "took"]
  /\ signal' = [signal EXCEPT ![a] = IF a \in cancelled THEN "initial" ELSE "none"]
  /\ cancelled' = cancelled \ {a}
  /\ UNCHANGED <<replies, events, kind, ok, attempts, connections, task, outbox>>

\* Second lock: the sender becomes visible to cancel_connection_attempt.  The
\* id is fresh, so it replaces no earlier sender.
Register(a) ==
  /\ cmd[a] = "took"
  /\ cmd' = [cmd EXCEPT ![a] = "registered"]
  /\ attempts' = attempts \cup {a}
  /\ UNCHANGED <<ipcVars, kind, ok, signal, cancelled, connections, task, outbox>>

\* Mistake: nobody looks for a cancel that came during the registration.
TakeLateCancelMistake(a) ==
  /\ cmd[a] = "registered"
  /\ cmd' = [cmd EXCEPT ![a] = IF kind[a] = "direct" THEN "connecting" ELSE "authenticating"]
  /\ UNCHANGED <<ipcVars, kind, ok, signal, attempts, cancelled, connections, task, outbox>>

\* Third lock: a cancel that came between the first two is sent now.
TakeLateCancel(a) ==
  /\ cmd[a] = "registered"
  /\ cmd' = [cmd EXCEPT ![a] = IF kind[a] = "direct" THEN "connecting" ELSE "authenticating"]
  /\ signal' = [signal EXCEPT ![a] = IF a \in cancelled THEN "sent" ELSE @]
  /\ cancelled' = cancelled \ {a}
  /\ UNCHANGED <<ipcVars, kind, ok, attempts, connections, task, outbox>>

\* The attempt sees a cancel.  A direct attempt and the last part of a paired
\* one wait for changed(); authentication also reads the channel's value.
StopCancelled(a) ==
  /\ \/ cmd[a] = "connecting" /\ signal[a] = "sent"
     \/ cmd[a] = "authenticating" /\ signal[a] # "none"
  /\ cmd' = [cmd EXCEPT ![a] = "dropping"]
  /\ UNCHANGED <<ipcVars, kind, ok, signal, attempts, cancelled, connections, task, outbox>>

\* Mistake: only a change of the channel counts, as for a direct connection.
AuthenticatedMistake(a) ==
  /\ cmd[a] = "authenticating"
  /\ signal[a] # "sent"
  /\ cmd' = [cmd EXCEPT ![a] = "connecting"]
  /\ UNCHANGED <<ipcVars, kind, ok, signal, attempts, cancelled, connections, task, outbox>>

\* A paired attempt has its token and finds no cancel in the channel.
Authenticated(a) ==
  /\ cmd[a] = "authenticating"
  /\ signal[a] = "none"
  /\ cmd' = [cmd EXCEPT ![a] = "connecting"]
  /\ UNCHANGED <<ipcVars, kind, ok, signal, attempts, cancelled, connections, task, outbox>>

\* The attempt fails: refused, an unexpected HTTP status, or its timeout.
FailAttempt(a) ==
  /\ cmd[a] \in {"authenticating", "connecting"}
  /\ cmd' = [cmd EXCEPT ![a] = "dropping"]
  /\ UNCHANGED <<ipcVars, kind, ok, signal, attempts, cancelled, connections, task, outbox>>

\* The select takes the result of the connection; a cancel that becomes ready
\* with it is not looked at again.  install_connection and the spawn of the
\* task follow without an await; nobody else knows the connection's id yet.
Connect(a) ==
  /\ cmd[a] = "connecting" /\ kind[a] # "prepare"
  /\ cmd' = [cmd EXCEPT ![a] = "installed"]
  /\ ok' = [ok EXCEPT ![a] = TRUE]
  /\ connections' = connections \cup {a}
  /\ task' = [task EXCEPT ![a] = "running"]
  /\ UNCHANGED <<ipcVars, kind, signal, attempts, cancelled, outbox>>

\* prepare_pair_connection ends with the authorized enrollment.
Prepared(a) ==
  /\ cmd[a] = "connecting" /\ kind[a] = "prepare"
  /\ cmd' = [cmd EXCEPT ![a] = "dropping"]
  /\ ok' = [ok EXCEPT ![a] = TRUE]
  /\ UNCHANGED <<ipcVars, kind, signal, attempts, cancelled, connections, task, outbox>>

\* emit_connected: by now the task may have ended already.
EmitConnected(a) ==
  /\ cmd[a] = "installed"
  /\ cmd' = [cmd EXCEPT ![a] = "dropping"]
  /\ events' = [events EXCEPT ![a] = Append(@, [event |-> "connected", to |-> a])]
  /\ UNCHANGED <<calls, replies, kind, ok, signal, attempts, cancelled, connections, task, outbox>>

\* ConnectionAttemptGuard::drop, under one lock and then the other.
ForgetAttempt(a) ==
  /\ cmd[a] = "dropping"
  /\ cmd' = [cmd EXCEPT ![a] = "forgotten"]
  /\ attempts' = attempts \ {a}
  /\ UNCHANGED <<ipcVars, kind, ok, signal, cancelled, connections, task, outbox>>

ReturnAttempt(a) ==
  /\ cmd[a] = "forgotten"
  /\ cmd' = [cmd EXCEPT ![a] = "returned"]
  /\ cancelled' = cancelled \ {a}
  /\ replies' = replies \cup {Reply("connect", a, ok[a])}
  /\ UNCHANGED <<calls, events, kind, ok, signal, attempts, connections, task, outbox>>

-----------------------------------------------------------------------------
\* The short commands.  Replies nobody awaits are left out.

\* cancel_connection_attempt holds the attempts lock over both branches.
HandleCancel(a, by) ==
  /\ Call("cancel", a, by) \in calls
  /\ calls' = calls \ {Call("cancel", a, by)}
  /\ IF a \in attempts
       THEN /\ signal' = [signal EXCEPT ![a] = "sent"]
            /\ UNCHANGED cancelled
       ELSE /\ cancelled' = cancelled \cup {a}
            /\ UNCHANGED signal
  /\ replies' = IF by = NoAttempt THEN replies ELSE replies \cup {Reply("cancel", by, TRUE)}
  /\ UNCHANGED <<events, kind, cmd, ok, attempts, connections, task, outbox>>

\* disconnect_app_server: the entry is removed and the task told to close.
HandleDisconnect(a, by) ==
  /\ Call("disconnect", a, by) \in calls
  /\ calls' = calls \ {Call("disconnect", a, by)}
  /\ connections' = connections \ {a}
  /\ outbox' = IF a \in connections /\ task[a] = "running"
                 THEN [outbox EXCEPT ![a] = Append(@, NoAttempt)] ELSE outbox
  /\ replies' = IF by = NoAttempt THEN replies ELSE replies \cup {Reply("disconnect", by, TRUE)}
  /\ UNCHANGED <<events, kind, cmd, ok, signal, attempts, cancelled, task>>

\* Whether send_app_server_message finds the entry and an open channel.
Sendable(a) == a \in connections /\ task[a] = "running"

\* The initialize request of an operation.  When it cannot be sent nothing
\* answers it, and the operation is rejected.
HandleInitialize(a, by) ==
  /\ Call("initialize", a, by) \in calls
  /\ calls' = calls \ {Call("initialize", a, by)}
  /\ outbox' = IF a \in Attempts /\ Sendable(a)
                 THEN [outbox EXCEPT ![a] = Append(@, by)] ELSE outbox
  /\ UNCHANGED <<replies, events, kind, cmd, ok, signal, attempts, cancelled, connections, task>>

\* The initialized notification: nothing answers it, its result is awaited.
HandleInitialized(a, by) ==
  /\ Call("initialized", a, by) \in calls
  /\ calls' = calls \ {Call("initialized", a, by)}
  /\ replies' = replies \cup {Reply("initialized", by, a \in Attempts /\ Sendable(a))}
  /\ UNCHANGED <<events, rustVars>>

-----------------------------------------------------------------------------
\* The task of a connection.

\* The task writes a request and the App Server answers it, or says that it is
\* overloaded, or never does.
TaskAnswer(a) ==
  /\ task[a] = "running"
  /\ outbox[a] # << >> /\ Head(outbox[a]) # NoAttempt
  /\ \E answer \in {<< >>, <<[event |-> "answer", to |-> Head(outbox[a])]>>,
                    <<[event |-> "overloaded", to |-> Head(outbox[a])]>>} :
       events' = [events EXCEPT ![a] = @ \o answer]
  /\ outbox' = [outbox EXCEPT ![a] = Tail(@)]
  /\ UNCHANGED <<calls, replies, kind, cmd, ok, signal, attempts, cancelled, connections, task>>

\* The task writes a close and stops.
TaskClose(a) ==
  /\ task[a] = "running"
  /\ outbox[a] # << >> /\ Head(outbox[a]) = NoAttempt
  /\ task' = [task EXCEPT ![a] = "ending"]
  /\ outbox' = [outbox EXCEPT ![a] = << >>]
  /\ UNCHANGED <<ipcVars, kind, cmd, ok, signal, attempts, cancelled, connections>>

\* The peer closes, or reading or writing fails.
TaskLost(a) ==
  /\ task[a] = "running"
  /\ task' = [task EXCEPT ![a] = "ending"]
  /\ outbox' = [outbox EXCEPT ![a] = << >>]
  /\ UNCHANGED <<ipcVars, kind, cmd, ok, signal, attempts, cancelled, connections>>

\* finish_connection: remove the entry under the lock, then emit the status.
FinishRemove(a) ==
  /\ task[a] = "ending"
  /\ task' = [task EXCEPT ![a] = "removed"]
  /\ connections' = connections \ {a}
  /\ UNCHANGED <<ipcVars, kind, cmd, ok, signal, attempts, cancelled, outbox>>

FinishEmit(a) ==
  /\ task[a] = "removed"
  /\ task' = [task EXCEPT ![a] = "ended"]
  /\ events' = [events EXCEPT ![a] = Append(@, [event |-> "ended", to |-> a])]
  /\ UNCHANGED <<calls, replies, kind, cmd, ok, signal, attempts, cancelled, connections, outbox>>

-----------------------------------------------------------------------------
AttemptStep(a) ==
  \/ RefuseRequest(a) \/ TakeEarlyCancel(a) \/ Register(a) \/ TakeLateCancel(a)
  \/ StopCancelled(a) \/ Authenticated(a) \/ FailAttempt(a) \/ Connect(a)
  \/ Prepared(a) \/ EmitConnected(a) \/ ForgetAttempt(a) \/ ReturnAttempt(a)

CommandStep(a) ==
  \E by \in Attempts \cup {NoAttempt} :
    HandleCancel(a, by) \/ HandleDisconnect(a, by)

SendStep(a) ==
  \E by \in Attempts : HandleInitialize(a, by) \/ HandleInitialized(a, by)

TaskStep(a) ==
  TaskAnswer(a) \/ TaskClose(a) \/ TaskLost(a) \/ FinishRemove(a) \/ FinishEmit(a)

RustStep ==
  \/ \E a \in Attempts : AttemptStep(a) \/ CommandStep(a) \/ TaskStep(a)
  \/ \E a \in Attempts \cup {NoAttempt} : SendStep(a)
=============================================================================
