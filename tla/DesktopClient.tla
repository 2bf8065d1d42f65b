---------------------------- MODULE DesktopClient ----------------------------
(***************************************************************************)
(* One AppServerClient of the desktop interface (src/lib/appServer.ts)     *)
(* over the Tauri commands of ConnectionAttempts: connecting, preparing a  *)
(* pairing, cancelling, disconnecting and disposing, with the operations   *)
(* of several attempts suspended at their awaits.                          *)
(*                                                                         *)
(* JavaScript runs to completion: a promise that a handler settles         *)
(* continues before the next handler, so a handler and the continuations   *)
(* it releases are one action.  connectGeneration changes only together    *)
(* with activeAttemptId, whose values are fresh, so comparing the ids      *)
(* decides what comparing both decides.                                    *)
(***************************************************************************)
EXTENDS ConnectionAttempts, Naturals

CONSTANTS
  MaxRetries,   \* how often an overloaded request is sent again
  Offered       \* per attempt, the commands the interface may use for it

ASSUME ClientAssumption == MaxRetries \in Nat /\ Offered \in [Attempts -> SUBSET Kinds]

VARIABLES
  active,     \* activeAttemptId
  current,    \* connectionId
  op,         \* per attempt: where its operation awaits
  retries,    \* per attempt: how often its initialize was sent again
  status,     \* per connection: the last status its onStatus handler was given
  disposed

jsVars == <<active, current, op, retries, status, disposed>>
vars   == <<jsVars, ipcVars, rustVars>>

OpStates == {"unused", "yielding", "calling", "discarding", "initializing", "backoff",
             "notifying", "cleaning", "prepared", "done", "failed"}

Init ==
  /\ RustInit
  /\ active = NoAttempt /\ current = NoAttempt
  /\ op = [a \in Attempts |-> "unused"]
  /\ retries = [a \in Attempts |-> 0]
  /\ status = [a \in Attempts |-> "none"]
  /\ disposed = FALSE

IsCurrentAttempt(a) == ~disposed /\ active = a

\* The operations whose request is in the pending map.
Pending == {a \in Attempts : op[a] = "initializing"}

\* An operation whose initialize fails disconnects its connection and waits.
CleanCalls(S) == {Call("disconnect", a, a) : a \in S}

\* rejectAll, with the continuations of the operations it rejects.
RejectAll == [a \in Attempts |-> IF a \in Pending THEN "cleaning" ELSE op[a]]

\* The finally block of an operation that ends.
ReleaseActive(a) == active' = IF active = a THEN NoAttempt ELSE active

\* A cancel that is not awaited.
CancelCall(a) == IF a = NoAttempt THEN {} ELSE {Call("cancel", a, NoAttempt)}

-----------------------------------------------------------------------------
\* Calls of the interface.  It connects a client that has no connection yet.

Unconnected == ~disposed /\ \A a \in Attempts : op[a] # "done"

\* beginConnection up to its first await.
BeginConnection(a, k) ==
  /\ Unconnected /\ op[a] = "unused"
  /\ kind' = [kind EXCEPT ![a] = k]
  /\ active' = a
  /\ IF active = NoAttempt
       THEN /\ calls' = calls \cup {Call("connect", a, a)}
            /\ op' = [op EXCEPT ![a] = "calling"]
            /\ UNCHANGED current
       ELSE /\ calls' = calls \cup {Call("connect", a, a)} \cup CancelCall(active)
                          \cup CleanCalls(Pending)
                          \cup (IF current = NoAttempt THEN {}
                                ELSE {Call("disconnect", current, NoAttempt)})
            /\ op' = [RejectAll EXCEPT ![a] = "calling"]
            /\ current' = NoAttempt
  /\ UNCHANGED <<retries, status, disposed, replies, events,
                 cmd, ok, signal, attempts, cancelled, connections, task, outbox>>

\* preparePair awaits the cancel of the attempt before it, if there is one.
PreparePair(a) ==
  /\ Unconnected /\ op[a] = "unused"
  /\ kind' = [kind EXCEPT ![a] = "prepare"]
  /\ IF active = NoAttempt
       THEN /\ calls' = calls \cup {Call("connect", a, a)}
            /\ op' = [op EXCEPT ![a] = "calling"]
            /\ active' = a
       ELSE /\ calls' = calls \cup {Call("cancel", active, a)}
            /\ op' = [op EXCEPT ![a] = "yielding"]
            /\ UNCHANGED active
  /\ UNCHANGED <<current, retries, status, disposed, replies, events,
                 cmd, ok, signal, attempts, cancelled, connections, task, outbox>>

ContinuePreparePair(a) ==
  /\ op[a] = "yielding"
  /\ Reply("cancel", a, TRUE) \in replies
  /\ replies' = replies \ {Reply("cancel", a, TRUE)}
  /\ calls' = calls \cup {Call("connect", a, a)}
  /\ op' = [op EXCEPT ![a] = "calling"]
  /\ active' = a
  /\ UNCHANGED <<current, retries, status, disposed, events, rustVars>>

\* cancelConnectionAttempt.
CancelConnectionAttempt ==
  /\ ~disposed
  /\ active' = NoAttempt
  /\ op' = RejectAll
  /\ calls' = calls \cup CancelCall(active) \cup CleanCalls(Pending)
  /\ UNCHANGED <<current, retries, status, disposed, replies, events, rustVars>>

\* disconnect, of a client that has its connection; connectionId stays.
Disconnect ==
  /\ ~disposed /\ \E a \in Attempts : op[a] = "done"
  /\ active' = NoAttempt
  /\ op' = RejectAll
  /\ calls' = calls \cup CancelCall(active) \cup CleanCalls(Pending)
                \cup (IF current = NoAttempt THEN {}
                      ELSE {Call("disconnect", current, NoAttempt)})
  /\ UNCHANGED <<current, retries, status, disposed, replies, events, rustVars>>

\* dispose: the client also leaves the event hub.
Dispose ==
  /\ ~disposed
  /\ disposed' = TRUE
  /\ active' = NoAttempt
  /\ op' = RejectAll
  /\ calls' = calls \cup CancelCall(active) \cup CleanCalls(Pending)
  /\ UNCHANGED <<current, retries, status, replies, events, rustVars>>

-----------------------------------------------------------------------------
\* Continuations.

\* The connect command failed, or prepared a pairing.
EndWithoutConnection(a) ==
  /\ op[a] = "calling"
  /\ \E good \in BOOLEAN :
       /\ Reply("connect", a, good) \in replies
       /\ good => kind[a] = "prepare"
       /\ replies' = replies \ {Reply("connect", a, good)}
       /\ op' = [op EXCEPT ![a] = IF good /\ IsCurrentAttempt(a) THEN "prepared" ELSE "failed"]
  /\ ReleaseActive(a)
  /\ UNCHANGED <<current, retries, status, disposed, calls, events, rustVars>>

\* Mistake: a stale attempt only throws.
ContinueConnectedMistake(a) ==
  /\ op[a] = "calling" /\ kind[a] # "prepare"
  /\ Reply("connect", a, TRUE) \in replies
  /\ replies' = replies \ {Reply("connect", a, TRUE)}
  /\ IF IsCurrentAttempt(a)
       THEN /\ op' = [op EXCEPT ![a] = "initializing"]
            /\ calls' = calls \cup {Call("initialize", a, a)}
            /\ current' = a
       ELSE /\ op' = [op EXCEPT ![a] = "failed"]
            /\ UNCHANGED <<calls, current>>
  /\ UNCHANGED <<active, retries, status, disposed, events, rustVars>>

\* The attempt connected: a stale one is disconnected, the current one starts
\* its initialize.
ContinueConnected(a) ==
  /\ op[a] = "calling" /\ kind[a] # "prepare"
  /\ Reply("connect", a, TRUE) \in replies
  /\ replies' = replies \ {Reply("connect", a, TRUE)}
  /\ IF IsCurrentAttempt(a)
       THEN /\ op' = [op EXCEPT ![a] = "initializing"]
            /\ calls' = calls \cup {Call("initialize", a, a)}
            /\ current' = a
       ELSE /\ op' = [op EXCEPT ![a] = "discarding"]
            /\ calls' = calls \cup {Call("disconnect", a, a)}
            /\ UNCHANGED current
  /\ UNCHANGED <<active, retries, status, disposed, events, rustVars>>

\* The disconnect of a stale connection has returned.
FinishDiscard(a) ==
  /\ op[a] = "discarding"
  /\ Reply("disconnect", a, TRUE) \in replies
  /\ replies' = replies \ {Reply("disconnect", a, TRUE)}
  /\ op' = [op EXCEPT ![a] = "failed"]
  /\ ReleaseActive(a)
  /\ UNCHANGED <<current, retries, status, disposed, calls, events, rustVars>>

\* A pending initialize is rejected: it could not be sent, or timed out.
RejectInitialize(a) ==
  /\ op[a] = "initializing"
  /\ op' = [op EXCEPT ![a] = "cleaning"]
  /\ calls' = calls \cup CleanCalls({a})
  /\ UNCHANGED <<active, current, retries, status, disposed, replies, events, rustVars>>

\* Mistake: the connection id is cleared whosever it is.
FinishCleanMistake(a) ==
  /\ op[a] = "cleaning"
  /\ Reply("disconnect", a, TRUE) \in replies
  /\ replies' = replies \ {Reply("disconnect", a, TRUE)}
  /\ op' = [op EXCEPT ![a] = "failed"]
  /\ current' = NoAttempt
  /\ ReleaseActive(a)
  /\ UNCHANGED <<retries, status, disposed, calls, events, rustVars>>

\* The catch of initialize after its disconnect: only its own connection id
\* is cleared.
FinishClean(a) ==
  /\ op[a] = "cleaning"
  /\ Reply("disconnect", a, TRUE) \in replies
  /\ replies' = replies \ {Reply("disconnect", a, TRUE)}
  /\ op' = [op EXCEPT ![a] = "failed"]
  /\ current' = IF current = a THEN NoAttempt ELSE current
  /\ ReleaseActive(a)
  /\ UNCHANGED <<retries, status, disposed, calls, events, rustVars>>

\* Mistake: the retries are not counted.
RetryInitializeMistake(a) ==
  /\ op[a] = "backoff"
  /\ op' = [op EXCEPT ![a] = "initializing"]
  /\ calls' = calls \cup {Call("initialize", current, a)}
  /\ UNCHANGED <<active, current, retries, status, disposed, replies, events, rustVars>>

\* request sends an overloaded initialize again after a delay, to whatever
\* connection the client has by then.
RetryInitialize(a) ==
  /\ op[a] = "backoff"
  /\ op' = [op EXCEPT ![a] = "initializing"]
  /\ retries' = [retries EXCEPT ![a] = @ + 1]
  /\ calls' = calls \cup {Call("initialize", current, a)}
  /\ UNCHANGED <<active, current, status, disposed, replies, events, rustVars>>

\* The initialized notification returned: the attempt is the client's
\* connection if it still is current.
FinishNotify(a) ==
  /\ op[a] = "notifying"
  /\ \E good \in BOOLEAN :
       /\ Reply("initialized", a, good) \in replies
       /\ replies' = replies \ {Reply("initialized", a, good)}
       /\ IF good /\ IsCurrentAttempt(a)
            THEN /\ op' = [op EXCEPT ![a] = "done"]
                 /\ ReleaseActive(a)
                 /\ UNCHANGED calls
            ELSE /\ op' = [op EXCEPT ![a] = "cleaning"]
                 /\ calls' = calls \cup CleanCalls({a})
                 /\ UNCHANGED active
  /\ UNCHANGED <<current, retries, status, disposed, events, rustVars>>

-----------------------------------------------------------------------------
\* Events.

MayRetry(a) == retries[a] < MaxRetries

\* An answer to operation a's initialize: go on, try again, or give up.
Answered(a, event) ==
  /\ op[a] = "initializing"
  /\ IF event = "answer" /\ IsCurrentAttempt(a)
       THEN /\ op' = [op EXCEPT ![a] = "notifying"]
            /\ calls' = calls \cup {Call("initialized", current, a)}
       ELSE IF event = "overloaded" /\ MayRetry(a)
         THEN /\ op' = [op EXCEPT ![a] = "backoff"]
              /\ UNCHANGED calls
         ELSE /\ op' = [op EXCEPT ![a] = "cleaning"]
              /\ calls' = calls \cup CleanCalls({a})
  /\ UNCHANGED status

\* Mistake: the handler is told only of an established connection.
StatusMistake(c, event) ==
  /\ status' = IF op[c] = "done" THEN [status EXCEPT ![c] = event] ELSE status
  /\ IF event = "ended"
       THEN op' = RejectAll /\ calls' = calls \cup CleanCalls(Pending)
       ELSE UNCHANGED <<op, calls>>

\* dispatchStatus: the handler is told, and an end rejects what is pending.
Status(c, event) ==
  /\ status' = [status EXCEPT ![c] = event]
  /\ IF event = "ended"
       THEN op' = RejectAll /\ calls' = calls \cup CleanCalls(Pending)
       ELSE UNCHANGED <<op, calls>>

\* The next event of connection c; the event hub's client ignores those of
\* connections that are not its own.
Deliver(c) ==
  /\ events[c] # << >>
  /\ events' = [events EXCEPT ![c] = Tail(@)]
  /\ LET e == Head(events[c])
         heard == ~disposed /\ current = c
     IN \/ /\ heard /\ e.event \in {"connected", "ended"}
           /\ Status(c, e.event)
        \/ /\ heard /\ e.event \in {"answer", "overloaded"}
           /\ Answered(e.to, e.event)
        \/ /\ ~heard \/ (e.event \in {"answer", "overloaded"} /\ op[e.to] # "initializing")
           /\ UNCHANGED <<op, calls, status>>
  /\ UNCHANGED <<active, current, retries, disposed, replies, rustVars>>

-----------------------------------------------------------------------------
Continue(a) ==
  \/ ContinuePreparePair(a) \/ EndWithoutConnection(a) \/ ContinueConnected(a)
  \/ FinishDiscard(a) \/ RejectInitialize(a) \/ FinishClean(a)
  \/ RetryInitialize(a) \/ FinishNotify(a)

User ==
  \/ \E a \in Attempts : \/ \E k \in Offered[a] \ {"prepare"} : BeginConnection(a, k)
                         \/ "prepare" \in Offered[a] /\ PreparePair(a)
  \/ CancelConnectionAttempt \/ Disconnect \/ Dispose

Next ==
  \/ User
  \/ \E a \in Attempts : Continue(a) \/ Deliver(a)
  \/ RustStep /\ UNCHANGED jsVars

Spec == Init /\ [][Next]_vars

\* Commands and tasks run, timers fire, replies and events arrive.  Nobody has
\* to use the interface and no peer has to answer.
Fairness ==
  /\ \A a \in Attempts :
       /\ WF_vars(Continue(a)) /\ WF_vars(Deliver(a))
       /\ WF_vars(AttemptStep(a) /\ UNCHANGED jsVars)
       /\ \A by \in Attempts \cup {NoAttempt} :
            /\ WF_vars(HandleCancel(a, by) /\ UNCHANGED jsVars)
            /\ WF_vars(HandleDisconnect(a, by) /\ UNCHANGED jsVars)
       /\ WF_vars((TaskAnswer(a) \/ TaskClose(a) \/ FinishRemove(a) \/ FinishEmit(a)) /\ UNCHANGED jsVars)
  /\ \A a \in Attempts \cup {NoAttempt} : WF_vars(SendStep(a) /\ UNCHANGED jsVars)

LiveSpec == Spec /\ Fairness
-----------------------------------------------------------------------------
\* Type correctness of the attempts, the connections and the client.
TypeOK ==
  /\ calls \subseteq [cmd : {"connect", "cancel", "disconnect", "initialize", "initialized"},
                       about : Attempts \cup {NoAttempt}, by : Attempts \cup {NoAttempt}]
  /\ replies \subseteq [to : Attempts, good : BOOLEAN,
                         reply : {"connect", "cancel", "disconnect", "initialized"}]
  /\ events \in [Attempts -> Seq([event : {"connected", "ended", "answer", "overloaded"},
                                  to : Attempts])]
  /\ kind \in [Attempts -> Kinds] /\ cmd \in [Attempts -> Phases]
  /\ ok \in [Attempts -> BOOLEAN] /\ signal \in [Attempts -> Signals]
  /\ attempts \subseteq Attempts /\ cancelled \subseteq Attempts
  /\ connections \subseteq Attempts /\ task \in [Attempts -> TaskStates]
  /\ outbox \in [Attempts -> Seq(Attempts \cup {NoAttempt})]
  /\ active \in Attempts \cup {NoAttempt} /\ current \in Attempts \cup {NoAttempt}
  /\ op \in [Attempts -> OpStates] /\ retries \in [Attempts -> 0..MaxRetries]
  /\ status \in [Attempts -> {"none", "connected", "ended"}] /\ disposed \in BOOLEAN

\* An attempt that failed, was cancelled or was overtaken leaves no connection
\* behind: not when its command still connected after the cancel, nor when the
\* client was disposed or its initialize given up half way.
FailedAttemptsLeaveNoConnection ==
  \A a \in Attempts : op[a] = "failed" => a \notin connections

\* The clean-up of an older attempt never takes the client away from the
\* connection that a newer one has established, as the tests ask of "B".
EstablishedConnectionIsKept ==
  \A a \in Attempts : op[a] = "done" => current = a

\* A cancel that races with the registration of its attempt is not left
\* behind in cancelled_attempts, where a running attempt never looks again.
NoCancelIsStranded ==
  \A a \in Attempts : cmd[a] \in {"authenticating", "connecting"} => a \notin cancelled

\* A pairing that was cancelled before it began opens no connection, although
\* the channel it watches never changes.
PairHonoursEarlyCancel ==
  \A a \in Attempts : kind[a] # "direct" /\ signal[a] = "initial" => cmd[a] # "connecting" /\ ~ok[a]

\* A client is told of the end of its connection even when the connection ends
\* while it is being established, and when the client itself closed it.
EndIsReported ==
  \A a \in Attempts :
    op[a] = "done" /\ task[a] = "ended" /\ events[a] = << >> /\ ~disposed => status[a] = "ended"

-----------------------------------------------------------------------------
\* What the interface sees of the client: the contract's variables.
Wanted == IF disposed THEN NoAttempt ELSE active

ResultOf(o) ==
  CASE o = "yielding" -> "waiting"
    [] o = "done" -> "connected"
    [] o \in {"unused", "prepared", "failed"} -> o
    [] OTHER -> "trying"

Link(a) ==
  IF a \in connections THEN "open" ELSE IF task[a] = "none" THEN "none" ELSE "closed"

Contract == INSTANCE ConnectionContract WITH
              wanted <- Wanted,
              result <- [a \in Attempts |-> ResultOf(op[a])],
              link <- [a \in Attempts |-> Link(a)]

\* The client keeps ConnectionContract: whatever is cancelled, overtaken, lost
\* or disposed in the meantime, an attempt has one result, no failed one opens
\* a connection again, two never establish one, and no operation waits for ever
\* for a promise that nothing settles.
AttemptsKeepContract == Contract!FairSpec

-----------------------------------------------------------------------------
\* lib.rs's test cancellation_before_attempt_registration_is_not_lost asks that
\* a cancel recorded before its attempt registers is not lost: here, that the
\* attempt does not connect all the same.
EarlyCancelIsNotLost ==
  \A a \in Attempts : signal[a] = "initial" => a \notin connections
=============================================================================
