------------------------- MODULE DesktopClientProofs -------------------------
(***************************************************************************)
(* Theorems about the desktop client: type correctness, and the safety     *)
(* properties of DesktopClient, for any number of attempts and retries.    *)
(* The last part, on the end of a connection, also follows the events in   *)
(* their order.                                                            *)
(***************************************************************************)
EXTENDS DesktopClient, TLAPS

(***************************************************************************)
(* The invariants.                                                         *)
(***************************************************************************)
\* Where an operation stands before it has the result of its command.
Early == {"unused", "yielding", "calling"}

\* Where an operation that has a connection awaits before it is established.
Trying == {"initializing", "backoff", "notifying"}

\* A command runs for an operation that awaits it, once, and says in its reply
\* what it did.
CommandInv ==
  /\ \A x, y \in Attempts \cup {NoAttempt} :
       Call("connect", x, y) \in calls =>
         x = y /\ x \in Attempts /\ op[x] = "calling" /\ cmd[x] = "idle"
  /\ \A a \in Attempts :
       /\ op[a] \in {"unused", "yielding"} => cmd[a] = "idle"
       /\ cmd[a] \notin {"idle", "returned"} => op[a] = "calling"
       /\ \A g \in BOOLEAN : Reply("connect", a, g) \in replies =>
            op[a] = "calling" /\ cmd[a] = "returned" /\ g = ok[a]
       /\ cmd[a] = "idle" => ~ok[a] /\ signal[a] = "none"

\* The registry holds every attempt that can be cancelled, and no cancel of it
\* is recorded anywhere else.
RegistryInv ==
  \A a \in Attempts :
    /\ a \in attempts => cmd[a] \notin {"idle", "took", "forgotten", "returned"}
    /\ cmd[a] \in {"registered", "authenticating", "connecting"} => a \in attempts
    /\ cmd[a] \in {"authenticating", "connecting"} => a \notin cancelled
    /\ cmd[a] \in {"took", "registered", "authenticating", "connecting"} => ~ok[a]
    /\ kind[a] # "direct" /\ signal[a] = "initial" => cmd[a] # "connecting" /\ ~ok[a]

\* Only a command that succeeded has a connection, and an operation that failed
\* has seen it disconnected.
ConnectionInv ==
  /\ \A a \in Attempts :
       /\ a \in connections => ok[a] /\ kind[a] # "prepare"
       /\ op[a] = "failed" => a \notin connections
       /\ Reply("disconnect", a, TRUE) \in replies => op[a] \notin Early /\ a \notin connections
  /\ \A x \in Attempts \cup {NoAttempt}, y \in Attempts :
       Call("disconnect", x, y) \in calls => x = y /\ op[y] \notin Early

\* The client's connection is that of the attempt it is trying, and of the
\* attempt it has established.
CurrentInv ==
  \A a \in Attempts :
    /\ op[a] \in Trying \cup {"done"} => kind[a] # "prepare"
    /\ op[a] = "yielding" => kind[a] = "prepare"
    /\ op[a] \in Trying /\ active = a => current = a
    /\ op[a] = "done" => current = a
    /\ op[a] = "done" => \A b \in Attempts : active = b => kind[b] = "prepare"

\* An operation waits to send again only while it may.
BackoffInv == \A a \in Attempts : op[a] = "backoff" => retries[a] < MaxRetries

SafetyInv == CommandInv /\ RegistryInv /\ ConnectionInv /\ CurrentInv

(***************************************************************************)
(* Types.                                                                  *)
(***************************************************************************)
Maybe == Attempts \cup {NoAttempt}

CallSet == [cmd : {"connect", "cancel", "disconnect", "initialize", "initialized"},
            about : Maybe, by : Maybe]

ReplySet == [to : Attempts, good : BOOLEAN,
             reply : {"connect", "cancel", "disconnect", "initialized"}]

EventSet == [event : {"connected", "ended", "answer", "overloaded"}, to : Attempts]

\* What the calls an action makes are: members of CallSet.
LEMMA CallTypes ==
    ASSUME NEW a \in Maybe, NEW b \in Maybe,
           NEW c \in {"connect", "cancel", "disconnect", "initialize", "initialized"}
    PROVE  Call(c, a, b) \in CallSet
BY DEF Call, CallSet

LEMMA CleanCallsTypes ==
    ASSUME NEW S \in SUBSET Attempts PROVE CleanCalls(S) \subseteq CallSet
BY DEF CleanCalls, CallSet, Call, Maybe

LEMMA CancelCallTypes ==
    ASSUME NEW a \in Maybe PROVE CancelCall(a) \subseteq CallSet
BY DEF CancelCall, CallSet, Call, Maybe

LEMMA ReplyTypes ==
    ASSUME NEW a \in Attempts, NEW g \in BOOLEAN,
           NEW r \in {"connect", "cancel", "disconnect", "initialized"}
    PROVE  Reply(r, a, g) \in ReplySet
BY DEF Reply, ReplySet

LEMMA RejectAllTypes ==
    ASSUME op \in [Attempts -> OpStates] PROVE RejectAll \in [Attempts -> OpStates]
BY DEF RejectAll, OpStates

LEMMA AttemptTypes ==
    ASSUME TypeOK, NEW a \in Attempts, AttemptStep(a), UNCHANGED jsVars PROVE TypeOK'
<1>1. calls' \subseteq calls
  BY DEF AttemptStep, RefuseRequest, TakeEarlyCancel, Register, TakeLateCancel, StopCancelled,
     Authenticated, FailAttempt, Connect, Prepared, EmitConnected, ForgetAttempt, ReturnAttempt,
     ipcVars
<1>2. \E g \in BOOLEAN : replies' \subseteq replies \cup {Reply("connect", a, g)}
  BY DEF AttemptStep, RefuseRequest, TakeEarlyCancel, Register, TakeLateCancel, StopCancelled,
     Authenticated, FailAttempt, Connect, Prepared, EmitConnected, ForgetAttempt, ReturnAttempt,
     ipcVars, TypeOK
<1>3. events' \in [Attempts -> Seq(EventSet)]
  <2>1. events \in [Attempts -> Seq(EventSet)]
    BY DEF TypeOK, EventSet
  <2>2. [event |-> "connected", to |-> a] \in EventSet
    BY DEF EventSet
  <2>3. Append(events[a], [event |-> "connected", to |-> a]) \in Seq(EventSet)
    BY <2>1, <2>2
  <2>. QED
    BY <2>1, <2>3 DEF AttemptStep, RefuseRequest, TakeEarlyCancel, Register, TakeLateCancel,
       StopCancelled, Authenticated, FailAttempt, Connect, Prepared, EmitConnected,
       ForgetAttempt, ReturnAttempt, ipcVars
<1>4. replies' \subseteq ReplySet
  BY <1>2, ReplyTypes DEF TypeOK, ReplySet
<1>5. /\ kind' \in [Attempts -> Kinds] /\ cmd' \in [Attempts -> Phases]
      /\ ok' \in [Attempts -> BOOLEAN] /\ signal' \in [Attempts -> Signals]
      /\ attempts' \subseteq Attempts /\ cancelled' \subseteq Attempts
      /\ connections' \subseteq Attempts /\ task' \in [Attempts -> TaskStates]
      /\ outbox' = outbox
  BY DEF TypeOK, AttemptStep, RefuseRequest, TakeEarlyCancel, Register, TakeLateCancel,
     StopCancelled, Authenticated, FailAttempt, Connect, Prepared, EmitConnected,
     ForgetAttempt, ReturnAttempt, Phases, Signals, TaskStates
<1>. QED
  BY <1>1, <1>3, <1>4, <1>5 DEF TypeOK, EventSet, ReplySet, jsVars

LEMMA CommandTypes ==
    ASSUME TypeOK, NEW a \in Maybe, NEW by \in Maybe, UNCHANGED jsVars,
           \/ a \in Attempts /\ (HandleCancel(a, by) \/ HandleDisconnect(a, by))
           \/ by \in Attempts /\ (HandleInitialize(a, by) \/ HandleInitialized(a, by))
    PROVE  TypeOK'
<1>1. calls' \subseteq calls /\ events' = events
  BY DEF HandleCancel, HandleDisconnect, HandleInitialize, HandleInitialized
<1>2. replies' \subseteq ReplySet
  <2>1. replies \subseteq ReplySet
    BY DEF TypeOK, ReplySet
  <2>2. by # NoAttempt => by \in Attempts
    BY DEF Maybe
  <2>3. CASE a \in Attempts /\ (HandleCancel(a, by) \/ HandleDisconnect(a, by))
    <3>1. by \in Attempts => /\ Reply("cancel", by, TRUE) \in ReplySet
                             /\ Reply("disconnect", by, TRUE) \in ReplySet
      BY ReplyTypes
    <3>. QED
      BY <2>1, <2>2, <2>3, <3>1 DEF HandleCancel, HandleDisconnect
  <2>4. CASE by \in Attempts /\ HandleInitialize(a, by)
    BY <2>1, <2>4 DEF HandleInitialize
  <2>5. CASE by \in Attempts /\ HandleInitialized(a, by)
    <3>1. (a \in Attempts /\ Sendable(a)) \in BOOLEAN
      BY DEF Sendable
    <3>. QED
      BY <2>1, <2>5, <3>1, ReplyTypes DEF HandleInitialized
  <2>. QED
    BY <2>3, <2>4, <2>5
<1>3. outbox' \in [Attempts -> Seq(Maybe)]
  <2>1. outbox \in [Attempts -> Seq(Maybe)]
    BY DEF TypeOK, Maybe
  <2>2. ASSUME NEW c \in Attempts, NEW m \in Maybe PROVE Append(outbox[c], m) \in Seq(Maybe)
    BY <2>1, <2>2
  <2>. QED
    BY <2>1, <2>2 DEF HandleCancel, HandleDisconnect, HandleInitialize, HandleInitialized,
       rustVars, Maybe
<1>4. /\ signal' \in [Attempts -> Signals] /\ cancelled' \subseteq Attempts
      /\ connections' \subseteq Attempts
      /\ UNCHANGED <<kind, cmd, ok, attempts, task>>
  BY DEF HandleCancel, HandleDisconnect, HandleInitialize, HandleInitialized, TypeOK, Signals,
     rustVars
<1>. QED
  BY <1>1, <1>2, <1>3, <1>4 DEF TypeOK, ReplySet, jsVars, Maybe

LEMMA TaskTypes ==
    ASSUME TypeOK, NEW a \in Attempts, TaskStep(a), UNCHANGED jsVars PROVE TypeOK'
<1>0. outbox \in [Attempts -> Seq(Maybe)] /\ events \in [Attempts -> Seq(EventSet)]
  BY DEF TypeOK, Maybe, EventSet
<1>1. outbox' \in [Attempts -> Seq(Maybe)]
  <2>1. outbox[a] # << >> => Tail(outbox[a]) \in Seq(Maybe)
    BY <1>0
  <2>2. << >> \in Seq(Maybe)
    OBVIOUS
  <2>3. CASE TaskAnswer(a)
    BY <1>0, <2>1, <2>3 DEF TaskAnswer
  <2>4. CASE TaskClose(a) \/ TaskLost(a)
    BY <1>0, <2>2, <2>4 DEF TaskClose, TaskLost
  <2>5. CASE FinishRemove(a) \/ FinishEmit(a)
    BY <1>0, <2>5 DEF FinishRemove, FinishEmit
  <2>. QED
    BY <2>3, <2>4, <2>5 DEF TaskStep
<1>2. events' \in [Attempts -> Seq(EventSet)]
  <2>1. CASE TaskAnswer(a)
    <3>1. Head(outbox[a]) \in Attempts
      BY <1>0, <2>1 DEF TaskAnswer, Maybe
    <3>2. ASSUME NEW answer \in {<< >>, <<[event |-> "answer", to |-> Head(outbox[a])]>>,
                                 <<[event |-> "overloaded", to |-> Head(outbox[a])]>>}
          PROVE  events[a] \o answer \in Seq(EventSet)
      <4>1. ASSUME NEW e \in EventSet PROVE <<e>> \in Seq(EventSet)
        BY <4>1
      <4>2. /\ [event |-> "answer", to |-> Head(outbox[a])] \in EventSet
            /\ [event |-> "overloaded", to |-> Head(outbox[a])] \in EventSet
        BY <3>1 DEF EventSet
      <4>3. << >> \in Seq(EventSet)
        OBVIOUS
      <4>4. answer \in Seq(EventSet)
        BY <3>2, <4>1, <4>2, <4>3
      <4>. QED
        BY <1>0, <4>4
    <3>. QED
      BY <1>0, <2>1, <3>2 DEF TaskAnswer
  <2>2. CASE FinishEmit(a)
    <3>1. [event |-> "ended", to |-> a] \in EventSet
      BY DEF EventSet
    <3>2. Append(events[a], [event |-> "ended", to |-> a]) \in Seq(EventSet)
      BY <1>0, <3>1
    <3>. QED
      BY <1>0, <2>2, <3>2 DEF FinishEmit
  <2>3. CASE TaskClose(a) \/ TaskLost(a) \/ FinishRemove(a)
    BY <1>0, <2>3 DEF TaskClose, TaskLost, FinishRemove, ipcVars
  <2>. QED
    BY <2>1, <2>2, <2>3 DEF TaskStep
<1>3. /\ connections' \subseteq Attempts /\ task' \in [Attempts -> TaskStates]
      /\ UNCHANGED <<calls, replies, kind, cmd, ok, signal, attempts, cancelled>>
  BY DEF TaskStep, TaskAnswer, TaskClose, TaskLost, FinishRemove, FinishEmit, ipcVars, TypeOK,
     TaskStates
<1>. QED
  BY <1>1, <1>2, <1>3 DEF TypeOK, Maybe, EventSet, jsVars

LEMMA UserTypes == ASSUME TypeOK, User PROVE TypeOK'
<1>0. calls \subseteq CallSet /\ replies' = replies /\ events' = events
  BY DEF TypeOK, CallSet, Maybe, User, BeginConnection, PreparePair, CancelConnectionAttempt,
     Disconnect, Dispose
<1>1. Pending \subseteq Attempts /\ active \in Maybe /\ current \in Maybe
  BY DEF Pending, TypeOK, Maybe
<1>2. calls' \subseteq CallSet
  <2>1. CleanCalls(Pending) \subseteq CallSet /\ CancelCall(active) \subseteq CallSet
    BY <1>1, CleanCallsTypes, CancelCallTypes
  <2>2. ASSUME NEW a \in Attempts PROVE Call("connect", a, a) \in CallSet
    BY CallTypes DEF Maybe
  <2>3. Call("disconnect", current, NoAttempt) \in CallSet
    BY <1>1, CallTypes DEF Maybe
  <2>4. ASSUME NEW a \in Attempts PROVE Call("cancel", active, a) \in CallSet
    BY <1>1, CallTypes DEF Maybe
  <2>. QED
    BY <1>0, <2>1, <2>2, <2>3, <2>4 DEF User, BeginConnection, PreparePair,
       CancelConnectionAttempt, Disconnect, Dispose
<1>3. op \in [Attempts -> OpStates] /\ RejectAll \in [Attempts -> OpStates]
  BY RejectAllTypes DEF TypeOK
<1>4. op' \in [Attempts -> OpStates]
  BY <1>3 DEF User, BeginConnection, PreparePair, CancelConnectionAttempt, Disconnect, Dispose,
     OpStates
<1>5. kind' \in [Attempts -> Kinds]
  <2>1. ASSUME NEW a \in Attempts, NEW k \in Offered[a], BeginConnection(a, k)
        PROVE  kind' \in [Attempts -> Kinds]
    <3>1. Offered[a] \subseteq Kinds
      BY ClientAssumption
    <3>. QED
      BY <2>1, <3>1 DEF TypeOK, BeginConnection
  <2>2. ASSUME NEW a \in Attempts, PreparePair(a) PROVE kind' \in [Attempts -> Kinds]
    BY <2>2 DEF TypeOK, PreparePair, Kinds
  <2>3. CASE CancelConnectionAttempt \/ Disconnect \/ Dispose
    BY <2>3 DEF TypeOK, CancelConnectionAttempt, Disconnect, Dispose, rustVars
  <2>. QED
    BY <2>1, <2>2, <2>3 DEF User
<1>6. active' \in Maybe /\ current' \in Maybe /\ disposed' \in BOOLEAN
  BY DEF TypeOK, Maybe, User, BeginConnection, PreparePair, CancelConnectionAttempt, Disconnect,
     Dispose
<1>7. UNCHANGED <<cmd, ok, signal, attempts, cancelled, connections, task, outbox, retries, status>>
  BY DEF User, BeginConnection, PreparePair, CancelConnectionAttempt, Disconnect, Dispose, rustVars
<1>. QED
  BY <1>0, <1>2, <1>4, <1>5, <1>6, <1>7 DEF TypeOK, CallSet, Maybe

LEMMA ContinueTypes == ASSUME TypeOK, BackoffInv, NEW a \in Attempts, Continue(a) PROVE TypeOK'
<1>0. calls \subseteq CallSet /\ replies' \subseteq replies /\ events' = events /\ UNCHANGED rustVars
  BY DEF TypeOK, CallSet, Maybe, Continue, ContinuePreparePair, EndWithoutConnection,
     ContinueConnected, FinishDiscard, RejectInitialize, FinishClean, RetryInitialize, FinishNotify
<1>1. calls' \subseteq CallSet
  <2>1. CleanCalls({a}) \subseteq CallSet
    BY CleanCallsTypes
  <2>2. /\ Call("connect", a, a) \in CallSet /\ Call("disconnect", a, a) \in CallSet
        /\ Call("initialize", a, a) \in CallSet /\ Call("initialize", current, a) \in CallSet
    BY CallTypes DEF Maybe, TypeOK
  <2>. QED
    BY <1>0, <2>1, <2>2 DEF Continue, ContinuePreparePair, EndWithoutConnection,
       ContinueConnected, FinishDiscard, RejectInitialize, FinishClean, RetryInitialize,
       FinishNotify
<1>2. op' \in [Attempts -> OpStates]
  BY DEF TypeOK, OpStates, Continue, ContinuePreparePair, EndWithoutConnection,
     ContinueConnected, FinishDiscard, RejectInitialize, FinishClean, RetryInitialize, FinishNotify
<1>3. active' \in Maybe /\ current' \in Maybe /\ status' = status /\ disposed' = disposed
  BY DEF TypeOK, Maybe, Continue, ContinuePreparePair, EndWithoutConnection, ReleaseActive,
     ContinueConnected, FinishDiscard, RejectInitialize, FinishClean, RetryInitialize, FinishNotify
<1>4. retries' \in [Attempts -> 0..MaxRetries]
  <2>1. retries \in [Attempts -> 0..MaxRetries] /\ MaxRetries \in Nat
    BY ClientAssumption DEF TypeOK
  <2>2. CASE RetryInitialize(a)
    <3>1. retries[a] \in 0..MaxRetries /\ retries[a] < MaxRetries
      BY <2>1, <2>2 DEF BackoffInv, RetryInitialize
    <3>2. retries[a] + 1 \in 0..MaxRetries
      BY <2>1, <3>1
    <3>. QED
      BY <2>1, <2>2, <3>2 DEF RetryInitialize
  <2>3. CASE ~RetryInitialize(a)
    BY <2>1, <2>3 DEF Continue, ContinuePreparePair, EndWithoutConnection, ContinueConnected,
       FinishDiscard, RejectInitialize, FinishClean, FinishNotify
  <2>. QED
    BY <2>2, <2>3
<1>. QED
  BY <1>0, <1>1, <1>2, <1>3, <1>4 DEF TypeOK, CallSet, Maybe, rustVars

LEMMA DeliverTypes == ASSUME TypeOK, NEW c \in Attempts, Deliver(c) PROVE TypeOK'
<1>0. /\ calls \subseteq CallSet /\ events \in [Attempts -> Seq(EventSet)]
      /\ op \in [Attempts -> OpStates]
  BY DEF TypeOK, CallSet, EventSet, Maybe
<1>1. events' \in [Attempts -> Seq(EventSet)] /\ Head(events[c]) \in EventSet
  <2>1. Tail(events[c]) \in Seq(EventSet) /\ Head(events[c]) \in EventSet
    BY <1>0 DEF Deliver
  <2>. QED
    BY <1>0, <2>1 DEF Deliver
<1>2. DEFINE e == Head(events[c])
<1>3. ASSUME Status(c, e.event), e.event \in {"connected", "ended"}
      PROVE  /\ op' \in [Attempts -> OpStates] /\ calls' \subseteq CallSet
             /\ status' \in [Attempts -> {"none", "connected", "ended"}]
  <2>1. CleanCalls(Pending) \subseteq CallSet
    BY CleanCallsTypes DEF Pending
  <2>2. RejectAll \in [Attempts -> OpStates]
    BY <1>0, RejectAllTypes
  <2>. QED
    BY <1>0, <1>3, <2>1, <2>2 DEF Status, TypeOK
<1>4. ASSUME Answered(e.to, e.event)
      PROVE  op' \in [Attempts -> OpStates] /\ calls' \subseteq CallSet /\ status' = status
  <2>1. e.to \in Attempts
    BY <1>1 DEF EventSet
  <2>2. CleanCalls({e.to}) \subseteq CallSet /\ Call("initialized", current, e.to) \in CallSet
    BY <2>1, CleanCallsTypes, CallTypes DEF TypeOK, Maybe
  <2>. QED
    BY <1>0, <1>4, <2>1, <2>2 DEF Answered, OpStates
<1>5. /\ op' \in [Attempts -> OpStates] /\ calls' \subseteq CallSet
      /\ status' \in [Attempts -> {"none", "connected", "ended"}]
  BY <1>0, <1>3, <1>4 DEF Deliver, TypeOK
<1>6. UNCHANGED <<active, current, retries, disposed, replies, rustVars>>
  BY DEF Deliver
<1>. QED
  BY <1>1, <1>5, <1>6 DEF TypeOK, CallSet, EventSet, Maybe, rustVars

LEMMA BackoffKept == ASSUME TypeOK, BackoffInv, Next PROVE BackoffInv'
<1>0. op \in [Attempts -> OpStates] /\ retries \in [Attempts -> 0..MaxRetries]
  BY DEF TypeOK
<1>1. CASE User
  BY <1>0, <1>1 DEF User, BeginConnection, PreparePair, CancelConnectionAttempt, Disconnect,
     Dispose, RejectAll, BackoffInv
<1>2. ASSUME NEW a \in Attempts, Continue(a) PROVE BackoffInv'
  BY <1>0, <1>2 DEF Continue, ContinuePreparePair, EndWithoutConnection, ContinueConnected,
     FinishDiscard, RejectInitialize, FinishClean, RetryInitialize, FinishNotify, BackoffInv
<1>3. ASSUME NEW c \in Attempts, Deliver(c) PROVE BackoffInv'
  BY <1>0, <1>3 DEF Deliver, Status, Answered, MayRetry, RejectAll, BackoffInv
<1>4. CASE RustStep /\ UNCHANGED jsVars
  BY <1>4 DEF jsVars, BackoffInv
<1>. QED
  BY <1>1, <1>2, <1>3, <1>4 DEF Next

LEMMA NextTypes == ASSUME TypeOK, BackoffInv, Next PROVE TypeOK'
<1>1. CASE User
  BY <1>1, UserTypes
<1>2. ASSUME NEW a \in Attempts, Continue(a) \/ Deliver(a) PROVE TypeOK'
  BY <1>2, ContinueTypes, DeliverTypes
<1>3. CASE RustStep /\ UNCHANGED jsVars
  <2>1. ASSUME NEW a \in Attempts, AttemptStep(a) \/ CommandStep(a) \/ TaskStep(a)
        PROVE  TypeOK'
    BY <1>3, <2>1, AttemptTypes, CommandTypes, TaskTypes DEF CommandStep, Maybe
  <2>2. ASSUME NEW a \in Attempts \cup {NoAttempt}, SendStep(a) PROVE TypeOK'
    BY <1>3, <2>2, CommandTypes DEF SendStep, Maybe
  <2>. QED
    BY <1>3, <2>1, <2>2 DEF RustStep
<1>. QED
  BY <1>1, <1>2, <1>3 DEF Next

LEMMA StutterTypes ==
    ASSUME TypeOK, BackoffInv, UNCHANGED vars PROVE TypeOK' /\ BackoffInv'
BY DEF TypeOK, BackoffInv, vars, jsVars, ipcVars, rustVars

\* Every variable of the desktop client keeps its type.
THEOREM TypeCorrect == Spec => []TypeOK
<1>1. Init => TypeOK /\ BackoffInv
  <2>1. 0 \in 0..MaxRetries
    BY ClientAssumption
  <2>2. \A S : << >> \in Seq(S)
    OBVIOUS
  <2>3. SUFFICES ASSUME Init PROVE TypeOK /\ BackoffInv
    OBVIOUS
  <2>4. BackoffInv
    BY <2>3 DEF Init, BackoffInv
  <2>5. /\ events \in [Attempts -> Seq([event : {"connected", "ended", "answer", "overloaded"},
                                      to : Attempts])]
        /\ outbox \in [Attempts -> Seq(Attempts \cup {NoAttempt})]
        /\ retries \in [Attempts -> 0..MaxRetries]
    BY <2>1, <2>2, <2>3 DEF Init, RustInit
  <2>. QED
    BY <2>3, <2>4, <2>5 DEF Init, RustInit, TypeOK, Kinds, Phases, Signals, TaskStates, OpStates
<1>2. TypeOK /\ BackoffInv /\ [Next]_vars => (TypeOK /\ BackoffInv)'
  BY NextTypes, BackoffKept, StutterTypes
<1>. QED
  BY <1>1, <1>2, PTL DEF Spec

(***************************************************************************)
(* Safety.  First, what a step can do to the calls and the replies.        *)
(***************************************************************************)
LEMMA CallInjective ==
    ASSUME NEW c, NEW x, NEW y, NEW d, NEW u, NEW v, Call(c, x, y) = Call(d, u, v)
    PROVE  c = d /\ x = u /\ y = v
BY DEF Call

LEMMA ReplyInjective ==
    ASSUME NEW r, NEW a, NEW g, NEW s, NEW b, NEW h, Reply(r, a, g) = Reply(s, b, h)
    PROVE  r = s /\ a = b /\ g = h
BY DEF Reply

\* The clean-up and the cancel calls are what they are named for.
LEMMA CleanCallsAre ==
    ASSUME NEW S \in SUBSET Attempts, NEW c, NEW x, NEW y, Call(c, x, y) \in CleanCalls(S)
    PROVE  c = "disconnect" /\ x = y /\ y \in S
BY CallInjective DEF CleanCalls

LEMMA CancelCallsAre ==
    ASSUME NEW a \in Maybe, NEW c, NEW x, NEW y, Call(c, x, y) \in CancelCall(a)
    PROVE  c = "cancel" /\ y = NoAttempt
BY CallInjective DEF CancelCall

LEMMA CommandByAttempt ==
    ASSUME TypeOK, CommandInv, NEW a \in Attempts, AttemptStep(a), UNCHANGED jsVars
    PROVE  CommandInv'
<1>0. /\ cmd \in [Attempts -> Phases] /\ ok \in [Attempts -> BOOLEAN]
      /\ signal \in [Attempts -> Signals]
  BY DEF TypeOK
<1>1. UNCHANGED op
  BY DEF jsVars
<1>2. CASE RefuseRequest(a)
  <2>1. op[a] = "calling" /\ cmd[a] = "idle" /\ ok[a] = FALSE
    BY <1>0, <1>2 DEF RefuseRequest, CommandInv
  <2>2. ASSUME NEW x \in Maybe, NEW y \in Maybe, Call("connect", x, y) \in calls'
        PROVE  x = y /\ x \in Attempts /\ op'[x] = "calling" /\ cmd'[x] = "idle"
    BY <1>0, <1>1, <1>2, <2>2 DEF RefuseRequest, CommandInv, Maybe
  <2>3. ASSUME NEW b \in Attempts, NEW g \in BOOLEAN, Reply("connect", b, g) \in replies'
        PROVE  op'[b] = "calling" /\ cmd'[b] = "returned" /\ g = ok'[b]
    <3>1. CASE Reply("connect", b, g) \in replies
      <4>1. op[b] = "calling" /\ cmd[b] = "returned" /\ g = ok[b]
        BY <2>3, <3>1 DEF CommandInv
      <4>. QED
        BY <1>0, <1>1, <1>2, <2>1, <4>1 DEF RefuseRequest
    <3>2. CASE Reply("connect", b, g) = Reply("connect", a, FALSE)
      <4>1. Reply("connect", b, g).to = b /\ Reply("connect", a, FALSE).to = a
        BY DEF Reply
      <4>2. Reply("connect", b, g).good = g /\ Reply("connect", a, FALSE).good = FALSE
        BY DEF Reply
      <4>3. b = a /\ g = FALSE
        BY <3>2, <4>1, <4>2
      <4>. QED
        BY <1>0, <1>1, <1>2, <2>1, <4>3 DEF RefuseRequest
    <3>. QED
      BY <1>2, <2>3, <3>1, <3>2 DEF RefuseRequest
  <2>4. ASSUME NEW b \in Attempts
        PROVE  /\ op'[b] \in {"unused", "yielding"} => cmd'[b] = "idle"
               /\ cmd'[b] \notin {"idle", "returned"} => op'[b] = "calling"
               /\ cmd'[b] = "idle" => ~ok'[b] /\ signal'[b] = "none"
    BY <1>0, <1>1, <1>2, <2>1 DEF RefuseRequest, CommandInv
  <2>. QED
    BY <2>2, <2>3, <2>4 DEF CommandInv, Maybe
<1>3. CASE TakeEarlyCancel(a)
  <2>1. op[a] = "calling" /\ cmd[a] = "idle"
    BY <1>3 DEF TakeEarlyCancel, CommandInv
  <2>2. ASSUME NEW x \in Maybe, NEW y \in Maybe, Call("connect", x, y) \in calls'
        PROVE  x = y /\ x \in Attempts /\ op'[x] = "calling" /\ cmd'[x] = "idle"
    BY <1>0, <1>1, <1>3, <2>2 DEF TakeEarlyCancel, CommandInv, Maybe
  <2>. QED
    BY <1>0, <1>1, <1>3, <2>1, <2>2 DEF TakeEarlyCancel, CommandInv, Maybe
<1>4. CASE ReturnAttempt(a)
  <2>1. op[a] = "calling" /\ cmd[a] = "forgotten"
    BY <1>4 DEF ReturnAttempt, CommandInv
  <2>3. ASSUME NEW b \in Attempts, NEW g \in BOOLEAN, Reply("connect", b, g) \in replies'
        PROVE  op'[b] = "calling" /\ cmd'[b] = "returned" /\ g = ok'[b]
    BY <1>0, <1>1, <1>4, <2>1, <2>3, ReplyInjective DEF ReturnAttempt, CommandInv
  <2>. QED
    BY <1>0, <1>1, <1>4, <2>1, <2>3 DEF ReturnAttempt, CommandInv
<1>5. CASE Register(a) \/ TakeLateCancel(a) \/ StopCancelled(a) \/ Authenticated(a)
           \/ FailAttempt(a) \/ Connect(a) \/ Prepared(a) \/ EmitConnected(a) \/ ForgetAttempt(a)
  BY <1>0, <1>1, <1>5 DEF Register, TakeLateCancel, StopCancelled, Authenticated, FailAttempt,
     Connect, Prepared, EmitConnected, ForgetAttempt, CommandInv, ipcVars
<1>. QED
  BY <1>2, <1>3, <1>4, <1>5 DEF AttemptStep

LEMMA RegistryByAttempt ==
    ASSUME TypeOK, CommandInv, RegistryInv, NEW a \in Attempts, AttemptStep(a)
    PROVE  RegistryInv'
<1>0. /\ cmd \in [Attempts -> Phases] /\ ok \in [Attempts -> BOOLEAN]
      /\ signal \in [Attempts -> Signals] /\ kind \in [Attempts -> Kinds]
  BY DEF TypeOK
<1>1. CASE RefuseRequest(a) \/ TakeEarlyCancel(a)
  <2>1. cmd[a] = "idle" /\ ~ok[a] /\ signal[a] = "none"
    BY <1>1 DEF RefuseRequest, TakeEarlyCancel, CommandInv
  <2>. QED
    BY <1>0, <1>1, <2>1 DEF RefuseRequest, TakeEarlyCancel, RegistryInv
<1>2. CASE Register(a) \/ TakeLateCancel(a)
  BY <1>0, <1>2 DEF Register, TakeLateCancel, RegistryInv
<1>3. CASE StopCancelled(a) \/ FailAttempt(a) \/ Authenticated(a)
  BY <1>0, <1>3 DEF StopCancelled, FailAttempt, Authenticated, RegistryInv
<1>4. CASE Connect(a) \/ Prepared(a) \/ EmitConnected(a)
  BY <1>0, <1>4 DEF Connect, Prepared, EmitConnected, RegistryInv
<1>5. CASE ForgetAttempt(a) \/ ReturnAttempt(a)
  BY <1>0, <1>5 DEF ForgetAttempt, ReturnAttempt, RegistryInv
<1>. QED
  BY <1>1, <1>2, <1>3, <1>4, <1>5 DEF AttemptStep

LEMMA ConnectionByAttempt ==
    ASSUME TypeOK, CommandInv, RegistryInv, ConnectionInv, NEW a \in Attempts, AttemptStep(a), UNCHANGED jsVars
    PROVE  ConnectionInv'
<1>0. /\ cmd \in [Attempts -> Phases] /\ ok \in [Attempts -> BOOLEAN] /\ UNCHANGED op
  BY DEF TypeOK, jsVars
<1>1. /\ UNCHANGED kind /\ calls' \subseteq calls
      /\ \A b \in Attempts : ok[b] => ok'[b]
  BY <1>0 DEF AttemptStep, RefuseRequest, TakeEarlyCancel, Register, TakeLateCancel,
     StopCancelled, Authenticated, FailAttempt, Connect, Prepared, EmitConnected,
     ForgetAttempt, ReturnAttempt, ipcVars
<1>4. ASSUME NEW b \in Attempts, Reply("disconnect", b, TRUE) \in replies'
      PROVE  Reply("disconnect", b, TRUE) \in replies
  <2>1. Reply("disconnect", b, TRUE) \notin {Reply("connect", a, FALSE), Reply("connect", a, ok[a])}
    BY DEF Reply
  <2>. QED
    BY <1>4, <2>1 DEF AttemptStep, RefuseRequest, TakeEarlyCancel, Register, TakeLateCancel,
       StopCancelled, Authenticated, FailAttempt, Connect, Prepared, EmitConnected,
       ForgetAttempt, ReturnAttempt, ipcVars
<1>2. CASE Connect(a)
  <2>1. op[a] = "calling" /\ kind[a] # "prepare" /\ ok'[a]
    BY <1>0, <1>2 DEF Connect, CommandInv
  <2>. QED
    BY <1>0, <1>1, <1>4, <1>2, <2>1 DEF Connect, ConnectionInv, Early
<1>3. CASE ~Connect(a)
  <2>1. UNCHANGED connections
    BY <1>3 DEF AttemptStep, RefuseRequest, TakeEarlyCancel, Register, TakeLateCancel,
       StopCancelled, Authenticated, FailAttempt, Prepared, EmitConnected, ForgetAttempt,
       ReturnAttempt
  <2>. QED
    BY <1>0, <1>1, <1>4, <2>1 DEF ConnectionInv
<1>. QED
  BY <1>2, <1>3

LEMMA SafetyByCommand ==
    ASSUME TypeOK, CommandInv, RegistryInv, ConnectionInv, UNCHANGED jsVars,
           NEW a \in Maybe, NEW by \in Maybe,
           \/ a \in Attempts /\ (HandleCancel(a, by) \/ HandleDisconnect(a, by))
           \/ by \in Attempts /\ (HandleInitialize(a, by) \/ HandleInitialized(a, by))
    PROVE  CommandInv' /\ RegistryInv' /\ ConnectionInv'
<1>0. /\ cmd \in [Attempts -> Phases] /\ ok \in [Attempts -> BOOLEAN]
      /\ signal \in [Attempts -> Signals]
      /\ UNCHANGED <<op, kind, cmd, ok, attempts>> /\ calls' \subseteq calls
  BY DEF TypeOK, jsVars, HandleCancel, HandleDisconnect, HandleInitialize, HandleInitialized,
     rustVars
<1>1. ASSUME NEW b \in Attempts, NEW g \in BOOLEAN, Reply("connect", b, g) \in replies'
      PROVE  Reply("connect", b, g) \in replies
  BY <1>1 DEF Reply, HandleCancel, HandleDisconnect, HandleInitialize, HandleInitialized
<1>2. CASE a \in Attempts /\ HandleCancel(a, by)
  <2>1. a \in attempts => cmd[a] \notin {"idle", "took", "returned"}
    BY <1>2 DEF RegistryInv
  <2>2. CommandInv'
    <3>1. ASSUME NEW b \in Attempts, cmd'[b] = "idle" PROVE ~ok'[b] /\ signal'[b] = "none"
      BY <1>0, <1>2, <2>1, <3>1 DEF HandleCancel, CommandInv
    <3>. QED
      BY <1>0, <1>1, <3>1 DEF CommandInv
  <2>3. RegistryInv'
    BY <1>0, <1>2 DEF HandleCancel, RegistryInv
  <2>4. ASSUME NEW b \in Attempts, Reply("disconnect", b, TRUE) \in replies'
        PROVE  Reply("disconnect", b, TRUE) \in replies
    BY <1>2, <2>4 DEF Reply, HandleCancel
  <2>5. ConnectionInv'
    BY <1>0, <1>2, <2>4 DEF HandleCancel, ConnectionInv
  <2>. QED
    BY <2>2, <2>3, <2>5
<1>3. CASE a \in Attempts /\ HandleDisconnect(a, by)
  <2>1. by \in Attempts => a = by /\ op[by] \notin Early
    BY <1>3 DEF HandleDisconnect, ConnectionInv, Maybe
  <2>2. CommandInv'
    BY <1>0, <1>1, <1>3 DEF HandleDisconnect, CommandInv
  <2>3. RegistryInv'
    BY <1>0, <1>3 DEF HandleDisconnect, RegistryInv
  <2>4. ASSUME NEW b \in Attempts, Reply("disconnect", b, TRUE) \in replies'
        PROVE  Reply("disconnect", b, TRUE) \in replies \/ (by \in Attempts /\ b = by)
    BY <1>3, <2>4 DEF Reply, HandleDisconnect, Maybe
  <2>5. ConnectionInv'
    BY <1>0, <1>3, <2>1, <2>4 DEF HandleDisconnect, ConnectionInv
  <2>. QED
    BY <2>2, <2>3, <2>5
<1>4. CASE by \in Attempts /\ (HandleInitialize(a, by) \/ HandleInitialized(a, by))
  <2>1. UNCHANGED <<signal, cancelled, connections>>
    BY <1>4 DEF HandleInitialize, HandleInitialized, rustVars
  <2>2. ASSUME NEW b \in Attempts, Reply("disconnect", b, TRUE) \in replies'
        PROVE  Reply("disconnect", b, TRUE) \in replies
    BY <1>4, <2>2 DEF Reply, HandleInitialize, HandleInitialized
  <2>3. CommandInv'
    BY <1>0, <1>1, <2>1 DEF CommandInv
  <2>4. RegistryInv'
    BY <1>0, <2>1 DEF RegistryInv
  <2>5. ConnectionInv'
    BY <1>0, <2>1, <2>2 DEF ConnectionInv
  <2>. QED
    BY <2>3, <2>4, <2>5
<1>. QED
  BY <1>2, <1>3, <1>4

LEMMA SafetyByTask ==
    ASSUME CommandInv, RegistryInv, ConnectionInv, UNCHANGED jsVars,
           NEW a \in Attempts, TaskStep(a)
    PROVE  CommandInv' /\ RegistryInv' /\ ConnectionInv'
<1>1. /\ UNCHANGED <<calls, replies, op, kind, cmd, ok, signal, attempts, cancelled>>
      /\ connections' \subseteq connections
  BY DEF jsVars, TaskStep, TaskAnswer, TaskClose, TaskLost, FinishRemove, FinishEmit, ipcVars
<1>2. CommandInv'
  BY <1>1 DEF CommandInv
<1>3. RegistryInv'
  BY <1>1 DEF RegistryInv
<1>4. ConnectionInv'
  BY <1>1 DEF ConnectionInv
<1>. QED
  BY <1>2, <1>3, <1>4

LEMMA CurrentByRust ==
    ASSUME CurrentInv, RustStep, UNCHANGED jsVars PROVE CurrentInv'
<1>1. UNCHANGED kind
  BY DEF RustStep, AttemptStep, CommandStep, SendStep, TaskStep, RefuseRequest, TakeEarlyCancel,
     Register, TakeLateCancel, StopCancelled, Authenticated, FailAttempt, Connect, Prepared,
     EmitConnected, ForgetAttempt, ReturnAttempt, HandleCancel, HandleDisconnect,
     HandleInitialize, HandleInitialized, TaskAnswer, TaskClose, TaskLost, FinishRemove,
     FinishEmit, rustVars
<1>. QED
  BY <1>1 DEF CurrentInv, jsVars

\* What every action of the user adds to the calls: the connect call of a fresh
\* attempt, cancels, disconnects of operations that are cleaning up, and
\* disconnects nobody awaits.
LEMMA UserCalls ==
    ASSUME TypeOK, User, NEW c, NEW x, NEW y,
           Call(c, x, y) \in calls', Call(c, x, y) \notin calls
    PROVE  \/ c = "cancel"
           \/ c = "disconnect" /\ y = NoAttempt
           \/ c = "disconnect" /\ x = y /\ y \in Pending
              /\ op'[y] = "cleaning"
           \/ c = "connect" /\ x = y /\ x \in Attempts /\ op[x] = "unused" /\ op'[x] = "calling"
<1>0. /\ op \in [Attempts -> OpStates] /\ active \in Maybe /\ Pending \subseteq Attempts
  BY DEF TypeOK, Pending, Maybe
<1>1. \/ Call(c, x, y) \in CancelCall(active)
      \/ Call(c, x, y) = Call("disconnect", current, NoAttempt)
      \/ \E a \in Attempts : Call(c, x, y) = Call("cancel", active, a)
      \/ Call(c, x, y) \in CleanCalls(Pending) /\ (\A a \in Pending : op'[a] = "cleaning")
      \/ \E a \in Attempts : /\ Call(c, x, y) = Call("connect", a, a)
                             /\ op[a] = "unused" /\ op'[a] = "calling"
  <2>1. CASE \E a \in Attempts : \E k \in Offered[a] : BeginConnection(a, k)
    <3>1. PICK a \in Attempts : \E k \in Offered[a] : BeginConnection(a, k)
      BY <2>1
    <3>2. op[a] = "unused" /\ op'[a] = "calling"
      BY <1>0, <3>1 DEF BeginConnection, RejectAll
    <3>3. CASE active = NoAttempt
      BY <3>1, <3>2, <3>3 DEF BeginConnection
    <3>4. CASE active # NoAttempt
      <4>1. \A b \in Pending : op'[b] = "cleaning"
        BY <1>0, <3>1, <3>2, <3>4 DEF BeginConnection, RejectAll, Pending
      <4>. QED
        BY <3>1, <3>2, <3>4, <4>1 DEF BeginConnection
    <3>. QED
      BY <3>3, <3>4
  <2>2. CASE \E a \in Attempts : PreparePair(a)
    BY <1>0, <2>2 DEF PreparePair
  <2>3. CASE CancelConnectionAttempt \/ Disconnect \/ Dispose
    <3>1. \A b \in Pending : op'[b] = "cleaning"
      BY <1>0, <2>3 DEF CancelConnectionAttempt, Disconnect, Dispose, RejectAll, Pending
    <3>. QED
      BY <2>3, <3>1 DEF CancelConnectionAttempt, Disconnect, Dispose
  <2>. QED
    BY <2>1, <2>2, <2>3 DEF User
<1>2. ASSUME Call(c, x, y) \in CleanCalls(Pending), \A a \in Pending : op'[a] = "cleaning"
      PROVE  c = "disconnect" /\ x = y /\ y \in Pending /\ op' # op /\ op'[y] = "cleaning"
  <2>1. c = "disconnect" /\ x = y /\ y \in Pending
    BY <1>0, <1>2, CleanCallsAre
  <2>. QED
    BY <1>2, <2>1 DEF Pending
<1>3. Call(c, x, y) \in CancelCall(active) => c = "cancel"
  BY <1>0, CancelCallsAre
<1>4. Call(c, x, y) = Call("disconnect", current, NoAttempt) => c = "disconnect" /\ y = NoAttempt
  BY DEF Call
<1>5. \A a \in Attempts : Call(c, x, y) = Call("cancel", active, a) => c = "cancel"
  BY DEF Call
<1>6. \A a \in Attempts : Call(c, x, y) = Call("connect", a, a) => c = "connect" /\ x = a /\ y = a
  BY DEF Call
<1>. QED
  BY <1>1, <1>2, <1>3, <1>4, <1>5, <1>6

\* The user's actions move operations: a fresh attempt is called or yields, and
\* pending requests are rejected.
LEMMA UserOps ==
    ASSUME TypeOK, User, NEW b \in Attempts
    PROVE  /\ \/ op'[b] = op[b] /\ kind'[b] = kind[b]
              \/ op[b] = "unused" /\ op'[b] = "calling"
              \/ op[b] = "unused" /\ op'[b] = "yielding" /\ kind'[b] = "prepare"
              \/ op[b] = "initializing" /\ op'[b] = "cleaning" /\ kind'[b] = kind[b]
           /\ UNCHANGED <<replies, cmd, ok, signal, attempts, cancelled, connections>>
<1>0. op \in [Attempts -> OpStates] /\ kind \in [Attempts -> Kinds]
  BY DEF TypeOK
<1>1. RejectAll \in [Attempts -> OpStates] /\
      (RejectAll[b] = op[b] \/ (op[b] = "initializing" /\ RejectAll[b] = "cleaning"))
  BY <1>0, RejectAllTypes DEF RejectAll, Pending
<1>2. CASE CancelConnectionAttempt \/ Disconnect \/ Dispose
  BY <1>1, <1>2 DEF CancelConnectionAttempt, Disconnect, Dispose, rustVars
<1>3. ASSUME NEW a \in Attempts, PreparePair(a)
      PROVE  /\ \/ op'[b] = op[b] /\ kind'[b] = kind[b]
                \/ op[b] = "unused" /\ op'[b] = "calling"
                \/ op[b] = "unused" /\ op'[b] = "yielding" /\ kind'[b] = "prepare"
             /\ UNCHANGED <<replies, cmd, ok, signal, attempts, cancelled, connections>>
  BY <1>0, <1>3 DEF PreparePair, Kinds
<1>4. ASSUME NEW a \in Attempts, NEW k \in Offered[a], BeginConnection(a, k)
      PROVE  /\ \/ op'[b] = op[b] /\ kind'[b] = kind[b]
                \/ op[b] = "unused" /\ op'[b] = "calling"
                \/ op[b] = "initializing" /\ op'[b] = "cleaning" /\ kind'[b] = kind[b]
             /\ UNCHANGED <<replies, cmd, ok, signal, attempts, cancelled, connections>>
  BY <1>0, <1>1, <1>4 DEF BeginConnection
<1>. QED
  BY <1>2, <1>3, <1>4 DEF User

LEMMA SafetyByUser ==
    ASSUME TypeOK, CommandInv, RegistryInv, ConnectionInv, User
    PROVE  CommandInv' /\ RegistryInv' /\ ConnectionInv'
<1>1. ASSUME NEW b \in Attempts, op[b] = "unused"
      PROVE  cmd[b] = "idle" /\ ~ok[b] /\ signal[b] = "none" /\ b \notin connections
  BY <1>1 DEF CommandInv, ConnectionInv
<1>2. CommandInv'
  <2>1. ASSUME NEW x \in Maybe, NEW y \in Maybe, Call("connect", x, y) \in calls'
        PROVE  x = y /\ x \in Attempts /\ op'[x] = "calling" /\ cmd'[x] = "idle"
    <3>1. CASE Call("connect", x, y) \in calls
      <4>1. x = y /\ x \in Attempts /\ op[x] = "calling" /\ cmd[x] = "idle"
        BY <3>1 DEF CommandInv, Maybe
      <4>. QED
        BY <4>1, UserOps
    <3>2. CASE Call("connect", x, y) \notin calls
      <4>1. x = y /\ x \in Attempts /\ op[x] = "unused" /\ op'[x] = "calling"
        BY <2>1, <3>2, UserCalls
      <4>. QED
        BY <1>1, <4>1, UserOps
    <3>. QED
      BY <3>1, <3>2
  <2>2. ASSUME NEW b \in Attempts
        PROVE  /\ op'[b] \in {"unused", "yielding"} => cmd'[b] = "idle"
               /\ cmd'[b] \notin {"idle", "returned"} => op'[b] = "calling"
               /\ \A g \in BOOLEAN : Reply("connect", b, g) \in replies' =>
                    op'[b] = "calling" /\ cmd'[b] = "returned" /\ g = ok'[b]
               /\ cmd'[b] = "idle" => ~ok'[b] /\ signal'[b] = "none"
    <3>1. op[b] = "calling" => op'[b] = "calling"
      BY UserOps
    <3>2. UNCHANGED <<replies, cmd, ok, signal>>
      BY UserOps
    <3>3. op'[b] \in {"unused", "yielding"} => op[b] \in {"unused", "yielding"}
      BY UserOps
    <3>. QED
      BY <3>1, <3>2, <3>3 DEF CommandInv
  <2>. QED
    BY <2>1, <2>2 DEF CommandInv, Maybe
<1>3. RegistryInv'
  <2>1. ASSUME NEW b \in Attempts, kind'[b] # "direct", signal[b] = "initial"
        PROVE  kind[b] # "direct"
    BY <1>1, <2>1, UserOps
  <2>2. \A b \in Attempts : UNCHANGED <<cmd, ok, signal, attempts, cancelled>>
    BY UserOps
  <2>. QED
    BY <2>1, <2>2 DEF RegistryInv
<1>4. ConnectionInv'
  <2>1. ASSUME NEW b \in Attempts
        PROVE  /\ b \in connections' => ok'[b] /\ kind'[b] # "prepare"
               /\ op'[b] = "failed" => b \notin connections'
               /\ Reply("disconnect", b, TRUE) \in replies' => op'[b] \notin Early /\ b \notin connections'
    <3>1. op[b] \notin Early => op'[b] \notin Early
      BY UserOps DEF Early
    <3>2. UNCHANGED <<replies, ok, connections>>
      BY UserOps
    <3>3. b \in connections => kind'[b] = kind[b]
      BY <1>1, UserOps
    <3>4. op'[b] = "failed" => op[b] = "failed"
      BY UserOps
    <3>. QED
      BY <3>1, <3>2, <3>3, <3>4 DEF ConnectionInv
  <2>2. ASSUME NEW x \in Maybe, NEW y \in Attempts, Call("disconnect", x, y) \in calls'
        PROVE  x = y /\ op'[y] \notin Early
    <3>1. CASE Call("disconnect", x, y) \in calls
      <4>1. x = y /\ op[y] \notin Early
        BY <3>1 DEF ConnectionInv, Maybe
      <4>. QED
        BY <4>1, UserOps DEF Early
    <3>2. CASE Call("disconnect", x, y) \notin calls
      BY <2>2, <3>2, UserCalls, NoAttemptAssumption DEF Early
    <3>. QED
      BY <3>1, <3>2
  <2>. QED
    BY <2>1, <2>2 DEF ConnectionInv, Maybe
<1>. QED
  BY <1>2, <1>3, <1>4

LEMMA CurrentByUser == ASSUME TypeOK, CurrentInv, User PROVE CurrentInv'
<1>0. /\ op \in [Attempts -> OpStates] /\ kind \in [Attempts -> Kinds]
      /\ RejectAll \in [Attempts -> OpStates]
  BY RejectAllTypes DEF TypeOK
<1>1. ASSUME NEW a \in Attempts
      PROVE  RejectAll[a] = op[a] \/ (op[a] = "initializing" /\ RejectAll[a] = "cleaning")
  BY <1>0 DEF RejectAll, Pending
<1>2. CASE CancelConnectionAttempt \/ Disconnect \/ Dispose
  <2>1. op' = RejectAll /\ active' = NoAttempt /\ UNCHANGED <<current, kind>>
    BY <1>2 DEF CancelConnectionAttempt, Disconnect, Dispose, rustVars
  <2>. QED
    BY <1>1, <2>1, NoAttemptAssumption DEF CurrentInv, Trying
<1>3. ASSUME NEW a \in Attempts, NEW k \in Offered[a] \ {"prepare"}, BeginConnection(a, k)
      PROVE  CurrentInv'
  <2>1. op' = [op EXCEPT ![a] = "calling"] \/ op' = [RejectAll EXCEPT ![a] = "calling"]
    BY <1>3 DEF BeginConnection
  <2>2. /\ \A b \in Attempts : op[b] # "done"
        /\ op[a] = "unused" /\ active' = a /\ kind' = [kind EXCEPT ![a] = k]
    BY <1>3 DEF BeginConnection, Unconnected
  <2>3. ASSUME NEW b \in Attempts, b # a
        PROVE  /\ op'[b] = op[b] \/ (op[b] = "initializing" /\ op'[b] = "cleaning")
               /\ kind'[b] = kind[b]
    BY <1>0, <1>1, <2>1, <2>2, <2>3
  <2>4. op'[a] = "calling"
    BY <1>0, <2>1
  <2>. QED
    BY <2>2, <2>3, <2>4 DEF CurrentInv, Trying
<1>4. ASSUME NEW a \in Attempts, PreparePair(a) PROVE CurrentInv'
  <2>1. /\ \A b \in Attempts : op[b] # "done"
        /\ op[a] = "unused" /\ kind' = [kind EXCEPT ![a] = "prepare"] /\ UNCHANGED current
    BY <1>4 DEF PreparePair, Unconnected
  <2>2. \/ op' = [op EXCEPT ![a] = "calling"] /\ active' = a
        \/ op' = [op EXCEPT ![a] = "yielding"] /\ active' = active
    BY <1>4 DEF PreparePair
  <2>3. \A b \in Attempts : b # a => op'[b] = op[b] /\ kind'[b] = kind[b]
    BY <1>0, <2>1, <2>2
  <2>4. op'[a] \in {"calling", "yielding"} /\ kind'[a] = "prepare"
    BY <1>0, <2>1, <2>2
  <2>. QED
    BY <2>1, <2>2, <2>3, <2>4 DEF CurrentInv, Trying
<1>. QED
  BY <1>2, <1>3, <1>4 DEF User

\* How a continuation of operation a moves it, and what it adds to the calls.
LEMMA ContinueOps ==
    ASSUME TypeOK, NEW a \in Attempts, Continue(a)
    PROVE  /\ \A b \in Attempts : b # a => op'[b] = op[b]
           /\ replies' \subseteq replies /\ UNCHANGED rustVars
           /\ \/ op[a] = "yielding" /\ op'[a] = "calling"
              \/ op[a] = "calling" /\ op'[a] \in {"prepared", "failed", "initializing", "discarding"}
              \/ op[a] \notin Early /\ op'[a] \notin Early
BY DEF TypeOK, Early, Continue, ContinuePreparePair, EndWithoutConnection, ContinueConnected,
   FinishDiscard, RejectInitialize, FinishClean, RetryInitialize, FinishNotify

LEMMA ContinueCalls ==
    ASSUME TypeOK, NEW a \in Attempts, Continue(a), NEW c, NEW x, NEW y,
           Call(c, x, y) \in calls', Call(c, x, y) \notin calls
    PROVE  \/ c = "initialize"
           \/ c = "disconnect" /\ x = y /\ y = a /\ op'[a] \notin Early
           \/ c = "connect" /\ x = y /\ x = a /\ op[a] = "yielding" /\ op'[a] = "calling"
<1>0. op \in [Attempts -> OpStates]
  BY DEF TypeOK
<1>1. \/ Call(c, x, y) \in {Call("initialize", a, a), Call("initialize", current, a)}
      \/ /\ Call(c, x, y) \in CleanCalls({a}) \cup {Call("disconnect", a, a)}
         /\ op'[a] \notin Early
      \/ /\ Call(c, x, y) = Call("connect", a, a)
         /\ op[a] = "yielding" /\ op'[a] = "calling"
  BY <1>0 DEF Continue, ContinuePreparePair, EndWithoutConnection, ContinueConnected,
     FinishDiscard, RejectInitialize, FinishClean, RetryInitialize, FinishNotify, Early
<1>2. Call(c, x, y) \in CleanCalls({a}) => c = "disconnect" /\ x = y /\ y = a
  BY CleanCallsAre
<1>3. Call(c, x, y) = Call("disconnect", a, a) => c = "disconnect" /\ x = y /\ y = a
  BY DEF Call
<1>4. Call(c, x, y) \in {Call("initialize", a, a), Call("initialize", current, a)} => c = "initialize"
  BY DEF Call
<1>5. Call(c, x, y) = Call("connect", a, a) => c = "connect" /\ x = y /\ x = a
  BY DEF Call
<1>. QED
  BY <1>1, <1>2, <1>3, <1>4, <1>5

\* A continuation that has the result of the command finds no other, and one
\* that fails has its connection closed.
LEMMA ContinueEnds ==
    ASSUME TypeOK, CommandInv, ConnectionInv, NEW a \in Attempts, Continue(a)
    PROVE  /\ op[a] = "calling" => cmd[a] = "returned" /\ \A g \in BOOLEAN : Reply("connect", a, g) \notin replies'
           /\ op[a] # "failed" /\ op'[a] = "failed" => a \notin connections
           /\ op[a] = "calling" => Reply("disconnect", a, TRUE) \notin replies
<1>0. op \in [Attempts -> OpStates] /\ ok \in [Attempts -> BOOLEAN]
  BY DEF TypeOK
<1>1. ASSUME NEW g \in BOOLEAN, Reply("connect", a, g) \in replies,
             replies' = replies \ {Reply("connect", a, g)}
      PROVE  /\ cmd[a] = "returned" /\ g = ok[a]
             /\ \A h \in BOOLEAN : Reply("connect", a, h) \notin replies'
  BY <1>1 DEF CommandInv
<1>2. CASE EndWithoutConnection(a)
  <2>1. PICK g \in BOOLEAN : /\ Reply("connect", a, g) \in replies
                             /\ g => kind[a] = "prepare"
                             /\ replies' = replies \ {Reply("connect", a, g)}
    BY <1>2 DEF EndWithoutConnection
  <2>2. g = ok[a] /\ cmd[a] = "returned"
    BY <1>1, <2>1
  <2>3. a \notin connections
    BY <2>1, <2>2 DEF ConnectionInv
  <2>4. op[a] = "calling"
    BY <1>2 DEF EndWithoutConnection
  <2>. QED
    BY <1>1, <2>1, <2>3, <2>4 DEF ConnectionInv, Early
<1>3. CASE ContinueConnected(a)
  <2>1. op[a] = "calling" /\ op'[a] # "failed"
    BY <1>0, <1>3 DEF ContinueConnected
  <2>. QED
    BY <1>1, <1>3, <2>1 DEF ContinueConnected, ConnectionInv, Early
<1>4. CASE FinishDiscard(a) \/ FinishClean(a)
  BY <1>4 DEF FinishDiscard, FinishClean, ConnectionInv
<1>5. CASE ContinuePreparePair(a) \/ RejectInitialize(a) \/ RetryInitialize(a) \/ FinishNotify(a)
  BY <1>0, <1>5 DEF ContinuePreparePair, RejectInitialize, RetryInitialize, FinishNotify
<1>. QED
  BY <1>2, <1>3, <1>4, <1>5 DEF Continue

LEMMA SafetyByContinue ==
    ASSUME TypeOK, CommandInv, RegistryInv, ConnectionInv, NEW a \in Attempts, Continue(a)
    PROVE  CommandInv' /\ RegistryInv' /\ ConnectionInv'
<1>0. UNCHANGED <<kind, cmd, ok, signal, attempts, cancelled, connections>>
  BY ContinueOps DEF rustVars
<1>1. RegistryInv'
  BY <1>0 DEF RegistryInv
<1>2. CommandInv'
  <2>1. ASSUME NEW x \in Maybe, NEW y \in Maybe, Call("connect", x, y) \in calls'
        PROVE  x = y /\ x \in Attempts /\ op'[x] = "calling" /\ cmd'[x] = "idle"
    <3>1. CASE Call("connect", x, y) \in calls
      <4>1. x = y /\ x \in Attempts /\ op[x] = "calling" /\ cmd[x] = "idle"
        BY <3>1 DEF CommandInv, Maybe
      <4>2. x # a
        BY <4>1, ContinueEnds
      <4>. QED
        BY <1>0, <4>1, <4>2, ContinueOps
    <3>2. CASE Call("connect", x, y) \notin calls
      <4>1. x = y /\ x = a /\ op[a] = "yielding" /\ op'[a] = "calling"
        BY <2>1, <3>2, ContinueCalls
      <4>. QED
        BY <1>0, <4>1 DEF CommandInv
    <3>. QED
      BY <3>1, <3>2
  <2>2. ASSUME NEW b \in Attempts
        PROVE  /\ op'[b] \in {"unused", "yielding"} => cmd'[b] = "idle"
               /\ cmd'[b] \notin {"idle", "returned"} => op'[b] = "calling"
               /\ \A g \in BOOLEAN : Reply("connect", b, g) \in replies' =>
                    op'[b] = "calling" /\ cmd'[b] = "returned" /\ g = ok'[b]
               /\ cmd'[b] = "idle" => ~ok'[b] /\ signal'[b] = "none"
    <3>1. CASE b # a
      BY <1>0, <3>1, ContinueOps DEF CommandInv
    <3>2. CASE b = a
      <4>1. op'[a] \notin {"unused", "yielding"}
        BY ContinueOps DEF Early
      <4>2. cmd[a] \notin {"idle", "returned"} => op'[a] = "calling"
        BY ContinueOps, ContinueEnds DEF CommandInv, Early
      <4>3. ASSUME NEW g \in BOOLEAN, Reply("connect", a, g) \in replies' PROVE FALSE
        <5>1. Reply("connect", a, g) \in replies
          BY <4>3, ContinueOps
        <5>2. op[a] = "calling"
          BY <5>1 DEF CommandInv
        <5>. QED
          BY <4>3, <5>2, ContinueEnds
      <4>. QED
        BY <1>0, <3>2, <4>1, <4>2, <4>3 DEF CommandInv
    <3>. QED
      BY <3>1, <3>2
  <2>. QED
    BY <2>1, <2>2 DEF CommandInv, Maybe
<1>3. ConnectionInv'
  <2>1. ASSUME NEW b \in Attempts
        PROVE  /\ b \in connections' => ok'[b] /\ kind'[b] # "prepare"
               /\ op'[b] = "failed" => b \notin connections'
               /\ Reply("disconnect", b, TRUE) \in replies' => op'[b] \notin Early /\ b \notin connections'
    <3>1. op[b] \notin Early => op'[b] \notin Early
      BY ContinueOps DEF Early
    <3>2. op'[b] = "failed" => b \notin connections
      BY ContinueOps, ContinueEnds DEF ConnectionInv
    <3>3. Reply("disconnect", b, TRUE) \in replies' => Reply("disconnect", b, TRUE) \in replies
      BY ContinueOps
    <3>. QED
      BY <1>0, <3>1, <3>2, <3>3 DEF ConnectionInv
  <2>2. ASSUME NEW x \in Maybe, NEW y \in Attempts, Call("disconnect", x, y) \in calls'
        PROVE  x = y /\ op'[y] \notin Early
    <3>1. CASE Call("disconnect", x, y) \in calls
      <4>1. x = y /\ op[y] \notin Early
        BY <3>1 DEF ConnectionInv, Maybe
      <4>. QED
        BY <4>1, ContinueOps DEF Early
    <3>2. CASE Call("disconnect", x, y) \notin calls
      BY <2>2, <3>2, ContinueCalls
    <3>. QED
      BY <3>1, <3>2
  <2>. QED
    BY <2>1, <2>2 DEF ConnectionInv, Maybe
<1>. QED
  BY <1>1, <1>2, <1>3

LEMMA CurrentByContinue ==
    ASSUME TypeOK, CurrentInv, NEW a \in Attempts, Continue(a) PROVE CurrentInv'
<1>0. op \in [Attempts -> OpStates] /\ UNCHANGED kind
  BY ContinueOps DEF TypeOK, rustVars
<1>1. CASE ContinuePreparePair(a)
  BY <1>0, <1>1 DEF ContinuePreparePair, CurrentInv, Trying
<1>2. CASE EndWithoutConnection(a) \/ FinishDiscard(a)
  <2>1. op'[a] \notin Trying \cup {"done", "yielding"} /\ \A b \in Attempts : b # a => op'[b] = op[b]
    BY <1>0, <1>2 DEF EndWithoutConnection, FinishDiscard, Trying
  <2>2. active' \in {active, NoAttempt} /\ UNCHANGED current
    BY <1>2 DEF EndWithoutConnection, FinishDiscard, ReleaseActive
  <2>. QED
    BY <1>0, <2>1, <2>2, NoAttemptAssumption DEF CurrentInv
<1>3. CASE ContinueConnected(a)
  <2>1. CASE IsCurrentAttempt(a)
    <3>1. active = a /\ current' = a /\ active' = a /\ op' = [op EXCEPT ![a] = "initializing"]
      BY <1>3, <2>1 DEF ContinueConnected, IsCurrentAttempt
    <3>2. kind[a] # "prepare" /\ \A b \in Attempts : op[b] # "done"
      BY <1>3, <3>1 DEF ContinueConnected, CurrentInv
    <3>. QED
      BY <1>0, <3>1, <3>2 DEF CurrentInv, Trying
  <2>2. CASE ~IsCurrentAttempt(a)
    BY <1>0, <1>3, <2>2 DEF ContinueConnected, CurrentInv, Trying
  <2>. QED
    BY <2>1, <2>2
<1>4. CASE RejectInitialize(a) \/ RetryInitialize(a)
  BY <1>0, <1>4 DEF RejectInitialize, RetryInitialize, CurrentInv, Trying
<1>5. CASE FinishClean(a)
  <2>1. op[a] = "cleaning" /\ op' = [op EXCEPT ![a] = "failed"]
    BY <1>5 DEF FinishClean
  <2>2. active' \in {active, NoAttempt} /\ current' = IF current = a THEN NoAttempt ELSE current
    BY <1>5 DEF FinishClean, ReleaseActive
  <2>. QED
    BY <1>0, <2>1, <2>2, NoAttemptAssumption DEF CurrentInv, Trying
<1>6. CASE FinishNotify(a)
  <2>1. \/ op' = [op EXCEPT ![a] = "cleaning"] /\ active' = active
        \/ /\ op' = [op EXCEPT ![a] = "done"] /\ active = a /\ active' = NoAttempt
    BY <1>6 DEF FinishNotify, ReleaseActive, IsCurrentAttempt
  <2>2. op[a] = "notifying" /\ UNCHANGED current
    BY <1>6 DEF FinishNotify
  <2>. QED
    BY <1>0, <2>1, <2>2, NoAttemptAssumption DEF CurrentInv, Trying
<1>. QED
  BY <1>1, <1>2, <1>3, <1>4, <1>5, <1>6 DEF Continue

\* An event moves only operations whose request is pending, and adds only the
\* calls of their next step.
LEMMA DeliverOps ==
    ASSUME TypeOK, NEW e \in Attempts, Deliver(e)
    PROVE  /\ \A b \in Attempts : \/ op'[b] = op[b]
                                  \/ op[b] = "initializing" /\ op'[b] \in {"notifying", "backoff", "cleaning"}
           /\ UNCHANGED <<active, current, replies, rustVars>>
<1>0. op \in [Attempts -> OpStates]
  BY DEF TypeOK
<1>1. ASSUME NEW b \in Attempts
      PROVE  RejectAll[b] = op[b] \/ (op[b] = "initializing" /\ RejectAll[b] = "cleaning")
  BY <1>0 DEF RejectAll, Pending
<1>. QED
  BY <1>0, <1>1 DEF Deliver, Status, Answered

LEMMA DeliverCalls ==
    ASSUME TypeOK, NEW e \in Attempts, Deliver(e), NEW c, NEW x, NEW y,
           Call(c, x, y) \in calls', Call(c, x, y) \notin calls
    PROVE  \/ c = "initialized"
           \/ c = "disconnect" /\ x = y /\ y \in Attempts /\ op'[y] = "cleaning"
<1>0. op \in [Attempts -> OpStates] /\ Pending \subseteq Attempts
  BY DEF TypeOK, Pending
<1>1. CASE Call(c, x, y) \in CleanCalls(Pending) /\ op' = RejectAll
  <2>1. c = "disconnect" /\ x = y /\ y \in Pending
    BY <1>0, <1>1, CleanCallsAre
  <2>. QED
    BY <1>0, <1>1, <2>1 DEF RejectAll
<1>2. ASSUME NEW a, op[a] = "initializing", op' = [op EXCEPT ![a] = "cleaning"],
             Call(c, x, y) \in CleanCalls({a}), a \in Attempts
      PROVE  c = "disconnect" /\ x = y /\ y \in Attempts /\ op'[y] = "cleaning"
  <2>1. c = "disconnect" /\ x = y /\ y = a
    BY <1>2, CleanCallsAre
  <2>. QED
    BY <1>0, <1>2, <2>1
<1>3. ASSUME NEW a, Call(c, x, y) = Call("initialized", current, a) PROVE c = "initialized"
  BY <1>3 DEF Call
<1>4. Head(events[e]).to \in Attempts
  <2>1. events \in [Attempts -> Seq(EventSet)] /\ events[e] # << >>
    BY DEF TypeOK, EventSet, Deliver
  <2>2. Head(events[e]) \in EventSet
    BY <2>1
  <2>. QED
    BY <2>2 DEF EventSet
<1>. QED
  BY <1>1, <1>2, <1>3, <1>4 DEF Deliver, Status, Answered

LEMMA SafetyByDeliver ==
    ASSUME TypeOK, SafetyInv, NEW e \in Attempts, Deliver(e) PROVE SafetyInv'
<1>0. /\ UNCHANGED <<active, current, replies, kind, cmd, ok, signal, attempts, cancelled, connections>>
      /\ \A b \in Attempts : \/ op'[b] = op[b]
                             \/ /\ op[b] = "initializing"
                                /\ op'[b] \in {"notifying", "backoff", "cleaning"}
  BY DeliverOps DEF rustVars
<1>1. ASSUME NEW x, NEW y, Call("connect", x, y) \in calls' PROVE Call("connect", x, y) \in calls
  BY <1>1, DeliverCalls
<1>2. CommandInv'
  <2>1. ASSUME NEW x \in Maybe, NEW y \in Maybe, Call("connect", x, y) \in calls'
        PROVE  x = y /\ x \in Attempts /\ op'[x] = "calling" /\ cmd'[x] = "idle"
    <3>1. x = y /\ x \in Attempts /\ op[x] = "calling" /\ cmd[x] = "idle"
      BY <1>1, <2>1 DEF SafetyInv, CommandInv, Maybe
    <3>. QED
      BY <1>0, <3>1
  <2>. QED
    BY <1>0, <2>1 DEF SafetyInv, CommandInv, Maybe
<1>3. RegistryInv'
  BY <1>0 DEF SafetyInv, RegistryInv
<1>4. ConnectionInv'
  <2>1. ASSUME NEW x \in Maybe, NEW y \in Attempts, Call("disconnect", x, y) \in calls'
        PROVE  x = y /\ op'[y] \notin Early
    <3>1. CASE Call("disconnect", x, y) \in calls
      <4>1. x = y /\ op[y] \notin Early
        BY <3>1 DEF SafetyInv, ConnectionInv, Maybe
      <4>. QED
        BY <1>0, <4>1 DEF Early
    <3>2. CASE Call("disconnect", x, y) \notin calls
      BY <2>1, <3>2, DeliverCalls DEF Early
    <3>. QED
      BY <3>1, <3>2
  <2>. QED
    BY <1>0, <2>1 DEF SafetyInv, ConnectionInv, Maybe, Early
<1>5. CurrentInv'
  BY <1>0 DEF SafetyInv, CurrentInv, Trying
<1>. QED
  BY <1>2, <1>3, <1>4, <1>5 DEF SafetyInv

LEMMA NextSafety == ASSUME TypeOK, SafetyInv, Next PROVE SafetyInv'
<1>1. CASE User
  BY <1>1, SafetyByUser, CurrentByUser DEF SafetyInv
<1>2. ASSUME NEW a \in Attempts, Continue(a) PROVE SafetyInv'
  BY <1>2, SafetyByContinue, CurrentByContinue DEF SafetyInv
<1>3. ASSUME NEW a \in Attempts, Deliver(a) PROVE SafetyInv'
  BY <1>3, SafetyByDeliver
<1>4. CASE RustStep /\ UNCHANGED jsVars
  <2>1. CurrentInv'
    BY <1>4, CurrentByRust DEF SafetyInv
  <2>2. ASSUME NEW a \in Attempts, AttemptStep(a) PROVE CommandInv' /\ RegistryInv' /\ ConnectionInv'
    BY <1>4, <2>2, CommandByAttempt, RegistryByAttempt, ConnectionByAttempt DEF SafetyInv
  <2>3. ASSUME NEW a \in Attempts, CommandStep(a) PROVE CommandInv' /\ RegistryInv' /\ ConnectionInv'
    BY <1>4, <2>3, SafetyByCommand DEF SafetyInv, CommandStep, Maybe
  <2>4. ASSUME NEW a \in Maybe, SendStep(a) PROVE CommandInv' /\ RegistryInv' /\ ConnectionInv'
    BY <1>4, <2>4, SafetyByCommand DEF SafetyInv, SendStep, Maybe
  <2>5. ASSUME NEW a \in Attempts, TaskStep(a) PROVE CommandInv' /\ RegistryInv' /\ ConnectionInv'
    BY <1>4, <2>5, SafetyByTask DEF SafetyInv
  <2>. QED
    BY <1>4, <2>1, <2>2, <2>3, <2>4, <2>5 DEF RustStep, SafetyInv, Maybe
<1>. QED
  BY <1>1, <1>2, <1>3, <1>4 DEF Next

LEMMA Safety == Spec => []SafetyInv
<1>1. Init => SafetyInv
  <2>. SUFFICES ASSUME Init PROVE SafetyInv
    OBVIOUS
  <2>1. CommandInv /\ RegistryInv
    BY DEF Init, RustInit, CommandInv, RegistryInv
  <2>2. ConnectionInv /\ CurrentInv
    BY DEF Init, RustInit, ConnectionInv, CurrentInv, Trying
  <2>. QED
    BY <2>1, <2>2 DEF SafetyInv
<1>2. TypeOK /\ SafetyInv /\ [Next]_vars => SafetyInv'
  <2>1. ASSUME SafetyInv, UNCHANGED vars PROVE SafetyInv'
    <3>1. UNCHANGED <<jsVars, ipcVars, rustVars>>
      BY <2>1 DEF vars
    <3>2. CommandInv'
      BY <2>1, <3>1 DEF SafetyInv, CommandInv, jsVars, ipcVars, rustVars
    <3>3. RegistryInv'
      BY <2>1, <3>1 DEF SafetyInv, RegistryInv, rustVars
    <3>4. ConnectionInv'
      BY <2>1, <3>1 DEF SafetyInv, ConnectionInv, jsVars, ipcVars, rustVars
    <3>5. CurrentInv'
      BY <2>1, <3>1 DEF SafetyInv, CurrentInv, jsVars, rustVars
    <3>. QED
      BY <3>2, <3>3, <3>4, <3>5 DEF SafetyInv
  <2>. QED
    BY <2>1, NextSafety
<1>. QED
  BY <1>1, <1>2, TypeCorrect, PTL DEF Spec

(***************************************************************************)
(* The theorems.                                                           *)
(***************************************************************************)
\* Whatever is cancelled, overtaken or disposed, and however late its command
\* connects, an attempt that failed leaves no connection open.
THEOREM FailedAttemptsAreClosed == Spec => []FailedAttemptsLeaveNoConnection
<1>1. SafetyInv => FailedAttemptsLeaveNoConnection
  BY DEF SafetyInv, ConnectionInv, FailedAttemptsLeaveNoConnection
<1>. QED
  BY <1>1, Safety, PTL

\* The connection a client has established stays the client's connection.
THEOREM EstablishedStays == Spec => []EstablishedConnectionIsKept
<1>1. SafetyInv => EstablishedConnectionIsKept
  BY DEF SafetyInv, CurrentInv, EstablishedConnectionIsKept
<1>. QED
  BY <1>1, Safety, PTL

\* A cancel that races with the registration reaches the attempt.
THEOREM CancelsReachTheirAttempt == Spec => []NoCancelIsStranded
<1>1. SafetyInv => NoCancelIsStranded
  BY DEF SafetyInv, RegistryInv, NoCancelIsStranded
<1>. QED
  BY <1>1, Safety, PTL

\* A pairing cancelled before it began never connects.
THEOREM PairingsHonourEarlyCancels == Spec => []PairHonoursEarlyCancel
<1>1. SafetyInv => PairHonoursEarlyCancel
  BY DEF SafetyInv, RegistryInv, PairHonoursEarlyCancel
<1>. QED
  BY <1>1, Safety, PTL

(***************************************************************************)
(* The end of a connection: where its event is while the client has not    *)
(* been told.                                                              *)
(***************************************************************************)
\* The initialized notification is sent once, by an operation that goes on to
\* await it, and for the operation's own connection.
Unsent == Early \cup {"initializing", "backoff"}

NotifyInv ==
  \A a \in Attempts :
    /\ op[a] \in Unsent =>
         /\ \A x \in Maybe : Call("initialized", x, a) \notin calls
         /\ \A g \in BOOLEAN : Reply("initialized", a, g) \notin replies
    /\ \A x \in Maybe : Call("initialized", x, a) \in calls => x = a

\* An operation that is established, or will be once it sees the result of its
\* notification.
Good(a) ==
  \/ op[a] = "done"
  \/ op[a] = "notifying" /\ active = a /\ Reply("initialized", a, TRUE) \in replies

NoConnected(q) == \A j \in DOMAIN q : q[j].event # "connected"

EndPending(q) ==
  \E i \in DOMAIN q : q[i].event = "ended" /\ \A j \in DOMAIN q : j > i => q[j].event # "connected"

Told(a) == EndPending(events[a]) \/ (status[a] = "ended" /\ NoConnected(events[a]))

\* The connected event comes before the operation has the result of its command,
\* so no such event follows the end of a connection whose operation succeeds.
EndInv == \A a \in Attempts : Good(a) /\ task[a] = "ended" /\ ~disposed => Told(a)

LEMMA EventsType == ASSUME TypeOK, NEW a \in Attempts PROVE events[a] \in Seq(EventSet)
BY DEF TypeOK, EventSet

\* What appending an event that is not "connected" leaves of the two.
LEMMA PendingAfterAppend ==
    ASSUME NEW q \in Seq(EventSet), NEW e \in EventSet, e.event # "connected"
    PROVE  /\ EndPending(q) => EndPending(Append(q, e))
           /\ NoConnected(q) => NoConnected(Append(q, e))
           /\ e.event = "ended" => EndPending(Append(q, e))
<1>1. /\ DOMAIN q = 1..Len(q) /\ DOMAIN Append(q, e) = 1..(Len(q) + 1) /\ Len(q) \in Nat
      /\ \A i \in 1..Len(q) : Append(q, e)[i] = q[i]
      /\ Append(q, e)[Len(q) + 1] = e
  OBVIOUS
<1>2. \A j \in 1..(Len(q) + 1) : j \in 1..Len(q) \/ j = Len(q) + 1
  BY <1>1
<1>3. EndPending(q) => EndPending(Append(q, e))
  <2>1. SUFFICES ASSUME NEW i \in 1..Len(q), q[i].event = "ended",
                        \A j \in 1..Len(q) : j > i => q[j].event # "connected"
                 PROVE  EndPending(Append(q, e))
    BY <1>1 DEF EndPending
  <2>2. i \in 1..(Len(q) + 1) /\ Append(q, e)[i].event = "ended"
    BY <1>1, <2>1
  <2>3. \A j \in 1..(Len(q) + 1) : j > i => Append(q, e)[j].event # "connected"
    BY <1>1, <1>2, <2>1
  <2>. QED
    BY <1>1, <2>2, <2>3 DEF EndPending
<1>4. NoConnected(q) => NoConnected(Append(q, e))
  BY <1>1, <1>2 DEF NoConnected
<1>5. e.event = "ended" => EndPending(Append(q, e))
  <2>1. \A j \in 1..(Len(q) + 1) : ~(j > Len(q) + 1)
    BY <1>1
  <2>2. Len(q) + 1 \in 1..(Len(q) + 1)
    BY <1>1
  <2>. QED
    BY <1>1, <2>1, <2>2 DEF EndPending
<1>. QED
  BY <1>3, <1>4, <1>5

\* What taking the first event leaves of the two.
LEMMA PendingAfterTail ==
    ASSUME NEW q \in Seq(EventSet), q # << >>
    PROVE  /\ EndPending(q) => \/ EndPending(Tail(q))
                               \/ Head(q).event = "ended" /\ NoConnected(Tail(q))
           /\ NoConnected(q) => Head(q).event # "connected" /\ NoConnected(Tail(q))
<1>1. /\ DOMAIN q = 1..Len(q) /\ Len(q) \in Nat /\ Len(q) > 0
      /\ DOMAIN Tail(q) = 1..(Len(q) - 1) /\ Head(q) = q[1]
      /\ \A i \in 1..(Len(q) - 1) : Tail(q)[i] = q[i + 1]
  OBVIOUS
<1>2. \A i \in 1..(Len(q) - 1) : i + 1 \in 1..Len(q)
  BY <1>1
<1>3. ASSUME EndPending(q)
      PROVE  EndPending(Tail(q)) \/ (Head(q).event = "ended" /\ NoConnected(Tail(q)))
  <2>1. PICK i \in 1..Len(q) : q[i].event = "ended" /\ \A j \in 1..Len(q) : j > i => q[j].event # "connected"
    BY <1>1, <1>3 DEF EndPending
  <2>2. CASE i = 1
    BY <1>1, <1>2, <2>1, <2>2 DEF NoConnected
  <2>3. CASE i # 1
    <3>1. i - 1 \in 1..(Len(q) - 1) /\ Tail(q)[i - 1].event = "ended"
      BY <1>1, <2>1, <2>3
    <3>2. \A j \in 1..(Len(q) - 1) : j > i - 1 => Tail(q)[j].event # "connected"
      BY <1>1, <1>2, <2>1
    <3>. QED
      BY <1>1, <3>1, <3>2 DEF EndPending
  <2>. QED
    BY <2>2, <2>3
<1>4. NoConnected(q) => Head(q).event # "connected" /\ NoConnected(Tail(q))
  BY <1>1, <1>2 DEF NoConnected
<1>. QED
  BY <1>3, <1>4

\* A step of the client that neither touches events nor establishes anything
\* keeps EndInv.
LEMMA EndFrame ==
    ASSUME EndInv, UNCHANGED <<events, status, task>>, disposed => disposed',
           disposed \in BOOLEAN, \A b \in Attempts : Good(b)' => Good(b)
    PROVE  EndInv'
<1>. SUFFICES ASSUME NEW b \in Attempts, Good(b)', task'[b] = "ended", ~disposed' PROVE Told(b)'
  BY DEF EndInv
<1>1. Told(b)
  BY DEF EndInv
<1>. QED
  BY <1>1 DEF Told

LEMMA EndByUser ==
    ASSUME TypeOK, NotifyInv, EndInv, User PROVE NotifyInv' /\ EndInv'
<1>1. ASSUME NEW b \in Attempts, NEW x \in Maybe, Call("initialized", x, b) \in calls'
      PROVE  Call("initialized", x, b) \in calls
  BY <1>1, UserCalls
<1>2. NotifyInv'
  BY <1>1, UserOps DEF NotifyInv, Unsent, Early
<1>3. UNCHANGED <<events, status, task, replies>> /\ (disposed => disposed') /\ disposed \in BOOLEAN
  BY DEF TypeOK, User, BeginConnection, PreparePair, CancelConnectionAttempt, Disconnect, Dispose,
     rustVars
<1>4. ASSUME NEW b \in Attempts, op'[b] = "notifying", active' = b PROVE active = b
  <2>0. op \in [Attempts -> OpStates] /\ RejectAll \in [Attempts -> OpStates]
    BY RejectAllTypes DEF TypeOK
  <2>1. active' \in {active, NoAttempt} \/ \E a \in Attempts : active' = a /\ op'[a] = "calling"
    BY <2>0 DEF User, BeginConnection, PreparePair, CancelConnectionAttempt, Disconnect, Dispose
  <2>. QED
    BY <1>4, <2>1, NoAttemptAssumption
<1>5. ASSUME NEW b \in Attempts, Good(b)' PROVE Good(b)
  BY <1>3, <1>4, <1>5, UserOps DEF Good
<1>. QED
  BY <1>2, <1>3, <1>5, EndFrame

LEMMA EndByContinue ==
    ASSUME TypeOK, NotifyInv, EndInv, NEW a \in Attempts, Continue(a) PROVE NotifyInv' /\ EndInv'
<1>0. op \in [Attempts -> OpStates] /\ UNCHANGED <<events, status, disposed, task>>
      /\ replies' \subseteq replies /\ disposed \in BOOLEAN
  BY DEF TypeOK, rustVars, Continue, ContinuePreparePair, EndWithoutConnection,
     ContinueConnected, FinishDiscard, RejectInitialize, FinishClean, RetryInitialize, FinishNotify
<1>1. ASSUME NEW b \in Attempts, NEW x \in Maybe, Call("initialized", x, b) \in calls'
      PROVE  Call("initialized", x, b) \in calls
  BY <1>1, ContinueCalls
<1>2. ASSUME NEW b \in Attempts, op'[b] \in Unsent PROVE op[b] \in Unsent
  BY <1>0, <1>2 DEF Unsent, Early, Continue, ContinuePreparePair, EndWithoutConnection,
     ContinueConnected, FinishDiscard, RejectInitialize, FinishClean, RetryInitialize, FinishNotify
<1>3. NotifyInv'
  BY <1>0, <1>1, <1>2 DEF NotifyInv
<1>4. ASSUME NEW b \in Attempts, Good(b)' PROVE Good(b)
  <2>1. CASE FinishNotify(a)
    <3>1. /\ op[a] = "notifying" /\ active' \in {active, NoAttempt}
          /\ \/ op' = [op EXCEPT ![a] = "cleaning"]
             \/ /\ op' = [op EXCEPT ![a] = "done"] /\ active = a
                /\ Reply("initialized", a, TRUE) \in replies
      BY <2>1 DEF FinishNotify, IsCurrentAttempt, ReleaseActive
    <3>2. CASE b = a
      BY <1>0, <1>4, <3>1, <3>2 DEF Good
    <3>3. CASE b # a
      BY <1>0, <1>4, <3>1, <3>3, NoAttemptAssumption DEF Good
    <3>. QED
      BY <3>2, <3>3
  <2>2. CASE ~FinishNotify(a)
    <3>1. op'[b] \in {"done", "notifying"} => op'[b] = op[b]
      BY <1>0, <2>2 DEF Continue, ContinuePreparePair, EndWithoutConnection, ContinueConnected,
         FinishDiscard, RejectInitialize, FinishClean, RetryInitialize
    <3>2. active' \in {active, NoAttempt} \/ (active' = a /\ op'[a] = "calling")
      BY <1>0, <2>2 DEF Continue, ContinuePreparePair, EndWithoutConnection, ContinueConnected,
         FinishDiscard, RejectInitialize, FinishClean, RetryInitialize, ReleaseActive
    <3>. QED
      BY <1>0, <1>4, <3>1, <3>2, NoAttemptAssumption DEF Good
  <2>. QED
    BY <2>1, <2>2
<1>. QED
  BY <1>0, <1>3, <1>4, EndFrame

LEMMA EndByDeliver ==
    ASSUME TypeOK, CurrentInv, NotifyInv, EndInv, NEW c \in Attempts, Deliver(c)
    PROVE  NotifyInv' /\ EndInv'
<1>0. /\ op \in [Attempts -> OpStates] /\ events \in [Attempts -> Seq(EventSet)]
      /\ status \in [Attempts -> {"none", "connected", "ended"}]
      /\ UNCHANGED <<active, current, replies, disposed, task>>
  BY DEF TypeOK, EventSet, Deliver, rustVars
<1>1. events[c] \in Seq(EventSet) /\ events[c] # << >> /\ Head(events[c]) \in EventSet
      /\ events' = [events EXCEPT ![c] = Tail(@)]
  BY <1>0 DEF Deliver
<1>2. ASSUME NEW b \in Attempts, NEW x \in Maybe, Call("initialized", x, b) \in calls',
             Call("initialized", x, b) \notin calls
      PROVE  x = b /\ op'[b] = "notifying"
  <2>1. Call("initialized", x, b) \notin CleanCalls(Pending)
        /\ \A a \in Attempts : Call("initialized", x, b) \notin CleanCalls({a})
    BY CleanCallsAre DEF Pending
  <2>2. PICK a \in Attempts : /\ op[a] = "initializing" /\ IsCurrentAttempt(a)
                              /\ op' = [op EXCEPT ![a] = "notifying"]
                              /\ Call("initialized", x, b) = Call("initialized", current, a)
    <3>1. Head(events[c]).to \in Attempts
      BY <1>1 DEF EventSet
    <3>. QED
      BY <1>2, <2>1, <3>1 DEF Deliver, Status, Answered
  <2>3. x = current /\ b = a
    BY <2>2, CallInjective
  <2>4. current = a
    BY <2>2 DEF CurrentInv, Trying, IsCurrentAttempt
  <2>. QED
    BY <1>0, <2>2, <2>3, <2>4
<1>3. NotifyInv'
  <2>1. ASSUME NEW b \in Attempts, op'[b] \in Unsent PROVE op[b] \in Unsent
    BY <2>1, DeliverOps DEF Unsent, Early
  <2>. QED
    BY <1>0, <1>2, <2>1 DEF NotifyInv, Unsent, Early
<1>4. ASSUME NEW b \in Attempts, Good(b)' PROVE Good(b)
  <2>1. op'[b] = op[b] \/ (op[b] = "initializing" /\ op'[b] # "done")
    BY DeliverOps
  <2>2. op[b] = "initializing" => Reply("initialized", b, TRUE) \notin replies
    BY DEF NotifyInv, Unsent
  <2>. QED
    BY <1>0, <1>4, <2>1, <2>2 DEF Good
<1>5. ASSUME NEW b \in Attempts, Good(b)', task'[b] = "ended", ~disposed' PROVE Told(b)'
  <2>1. Good(b) /\ Told(b)
    BY <1>0, <1>4, <1>5 DEF EndInv
  <2>2. CASE b # c
    <3>1. events'[b] = events[b] /\ status'[b] = status[b]
      BY <1>0, <1>1, <2>2 DEF Deliver, Status, Answered
    <3>. QED
      BY <2>1, <3>1 DEF Told
  <2>3. CASE b = c
    <3>1. current = c
      BY <2>1, <2>3 DEF Good, CurrentInv, Trying
    <3>2. events'[c] = Tail(events[c])
      BY <1>0, <1>1
    <3>3. Head(events[c]).event = "ended" => status'[c] = "ended"
      BY <1>0, <1>5, <3>1 DEF Deliver, Status
    <3>4. Head(events[c]).event # "connected" => status'[c] \in {status[c], "ended"}
      BY <1>0, <3>3 DEF Deliver, Status, Answered
    <3>5. CASE EndPending(events[c])
      BY <1>1, <2>3, <3>2, <3>3, <3>5, PendingAfterTail DEF Told
    <3>6. CASE status[c] = "ended" /\ NoConnected(events[c])
      BY <1>1, <2>3, <3>2, <3>4, <3>6, PendingAfterTail DEF Told
    <3>. QED
      BY <2>1, <2>3, <3>5, <3>6 DEF Told
  <2>. QED
    BY <2>2, <2>3
<1>. QED
  BY <1>3, <1>5 DEF EndInv

LEMMA EndByAttempt ==
    ASSUME TypeOK, CommandInv, NotifyInv, EndInv, NEW a \in Attempts, AttemptStep(a), UNCHANGED jsVars
    PROVE  NotifyInv' /\ EndInv'
<1>0. /\ task \in [Attempts -> TaskStates] /\ events \in [Attempts -> Seq(EventSet)]
      /\ UNCHANGED <<active, op, status, disposed>> /\ calls' \subseteq calls
  BY DEF TypeOK, EventSet, jsVars, AttemptStep, RefuseRequest, TakeEarlyCancel, Register,
     TakeLateCancel, StopCancelled, Authenticated, FailAttempt, Connect, Prepared, EmitConnected,
     ForgetAttempt, ReturnAttempt, ipcVars
<1>1. ASSUME NEW b \in Attempts, NEW g \in BOOLEAN, Reply("initialized", b, g) \in replies'
      PROVE  Reply("initialized", b, g) \in replies
  <2>1. Reply("initialized", b, g) \notin {Reply("connect", a, FALSE), Reply("connect", a, ok[a])}
    BY DEF Reply
  <2>. QED
    BY <1>1, <2>1 DEF AttemptStep, RefuseRequest, TakeEarlyCancel, Register, TakeLateCancel,
       StopCancelled, Authenticated, FailAttempt, Connect, Prepared, EmitConnected,
       ForgetAttempt, ReturnAttempt, ipcVars
<1>2. NotifyInv'
  BY <1>0, <1>1 DEF NotifyInv
<1>3. ASSUME NEW b \in Attempts PROVE task'[b] = "ended" => task[b] = "ended"
  BY <1>0 DEF AttemptStep, RefuseRequest, TakeEarlyCancel, Register, TakeLateCancel,
     StopCancelled, Authenticated, FailAttempt, Connect, Prepared, EmitConnected,
     ForgetAttempt, ReturnAttempt
<1>4. ASSUME NEW b \in Attempts, Good(b) PROVE events'[b] = events[b]
  <2>1. EmitConnected(a) => op[a] = "calling"
    BY DEF EmitConnected, CommandInv
  <2>2. op[b] # "calling"
    BY <1>4 DEF Good
  <2>. QED
    BY <1>0, <2>1, <2>2 DEF AttemptStep, RefuseRequest, TakeEarlyCancel, Register, TakeLateCancel,
       StopCancelled, Authenticated, FailAttempt, Connect, Prepared, EmitConnected,
       ForgetAttempt, ReturnAttempt, ipcVars
<1>5. ASSUME NEW b \in Attempts, Good(b)', task'[b] = "ended", ~disposed' PROVE Told(b)'
  <2>1. Good(b) /\ Told(b)
    BY <1>0, <1>1, <1>3, <1>5 DEF EndInv, Good
  <2>. QED
    BY <1>0, <1>4, <2>1 DEF Told
<1>. QED
  BY <1>2, <1>5 DEF EndInv

LEMMA EndByCommand ==
    ASSUME TypeOK, NotifyInv, EndInv, UNCHANGED jsVars,
           NEW a \in Maybe, NEW by \in Maybe,
           \/ a \in Attempts /\ (HandleCancel(a, by) \/ HandleDisconnect(a, by))
           \/ by \in Attempts /\ (HandleInitialize(a, by) \/ HandleInitialized(a, by))
    PROVE  NotifyInv' /\ EndInv'
<1>0. /\ UNCHANGED <<active, op, status, disposed, task, events>> /\ calls' \subseteq calls
      /\ disposed \in BOOLEAN
  BY DEF TypeOK, jsVars, HandleCancel, HandleDisconnect, HandleInitialize, HandleInitialized,
     rustVars
<1>1. ASSUME NEW b \in Attempts, NEW g \in BOOLEAN, Reply("initialized", b, g) \in replies',
             Reply("initialized", b, g) \notin replies
      PROVE  /\ b = by /\ by \in Attempts /\ Call("initialized", a, by) \in calls
             /\ g = (a \in Attempts /\ Sendable(a))
  <2>1. Reply("initialized", b, g) \notin {Reply("cancel", by, TRUE), Reply("disconnect", by, TRUE)}
    BY DEF Reply
  <2>2. /\ Call("initialized", a, by) \in calls /\ by \in Attempts
        /\ Reply("initialized", b, g) = Reply("initialized", by, a \in Attempts /\ Sendable(a))
    BY <1>1, <2>1 DEF HandleCancel, HandleDisconnect, HandleInitialize, HandleInitialized
  <2>. QED
    BY <2>2, ReplyInjective
<1>2. NotifyInv'
  BY <1>0, <1>1 DEF NotifyInv
<1>3. ASSUME NEW b \in Attempts, Good(b)', task'[b] = "ended", ~disposed' PROVE Told(b)'
  <2>1. Reply("initialized", b, TRUE) \in replies' => Reply("initialized", b, TRUE) \in replies
    <3>. SUFFICES ASSUME Reply("initialized", b, TRUE) \in replies',
                         Reply("initialized", b, TRUE) \notin replies
                  PROVE  FALSE
      OBVIOUS
    <3>1. b = by /\ Call("initialized", a, by) \in calls /\ a \in Attempts /\ Sendable(a)
      BY <1>1
    <3>2. a = b
      BY <3>1 DEF NotifyInv
    <3>. QED
      BY <1>0, <1>3, <3>1, <3>2 DEF Sendable
  <2>2. Good(b) /\ Told(b)
    BY <1>0, <1>3, <2>1 DEF EndInv, Good
  <2>. QED
    BY <1>0, <2>2 DEF Told
<1>. QED
  BY <1>2, <1>3 DEF EndInv

LEMMA EndByTask ==
    ASSUME TypeOK, NotifyInv, EndInv, NEW a \in Attempts, TaskStep(a), UNCHANGED jsVars
    PROVE  NotifyInv' /\ EndInv'
<1>0. /\ task \in [Attempts -> TaskStates] /\ events \in [Attempts -> Seq(EventSet)]
      /\ events[a] \in Seq(EventSet) /\ outbox[a] \in Seq(Maybe)
      /\ UNCHANGED <<active, op, status, disposed, calls, replies>>
  BY DEF TypeOK, EventSet, Maybe, jsVars, TaskStep, TaskAnswer, TaskClose, TaskLost, FinishRemove,
     FinishEmit, ipcVars
<1>1. NotifyInv'
  BY <1>0 DEF NotifyInv
<1>2. ASSUME NEW b \in Attempts, Good(b)', task'[b] = "ended", ~disposed' PROVE Told(b)'
  <2>1. Good(b)
    BY <1>0, <1>2 DEF Good
  <2>2. CASE b # a
    <3>1. task'[b] = task[b] /\ events'[b] = events[b]
      BY <1>0, <2>2 DEF TaskStep, TaskAnswer, TaskClose, TaskLost, FinishRemove, FinishEmit, ipcVars
    <3>. QED
      BY <1>0, <1>2, <2>1, <3>1 DEF EndInv, Told
  <2>3. CASE b = a
    <3>1. FinishEmit(a)
      BY <1>0, <1>2, <2>3 DEF TaskStep, TaskAnswer, TaskClose, TaskLost, FinishRemove
    <3>2. [event |-> "ended", to |-> a] \in EventSet
      BY DEF EventSet
    <3>3. events'[a] = Append(events[a], [event |-> "ended", to |-> a])
      BY <1>0, <3>1 DEF FinishEmit
    <3>. QED
      BY <1>0, <2>3, <3>2, <3>3, PendingAfterAppend DEF Told
  <2>. QED
    BY <2>2, <2>3
<1>. QED
  BY <1>1, <1>2 DEF EndInv

\* A client is told of the end of its connection, even when the connection ends
\* while it is being established and when the client itself closed it.
THEOREM EndsAreReported == Spec => []EndIsReported
<1>1. Init => NotifyInv /\ EndInv
  BY DEF Init, RustInit, NotifyInv, EndInv, Good
<1>2. TypeOK /\ SafetyInv /\ NotifyInv /\ EndInv /\ [Next]_vars => (NotifyInv /\ EndInv)'
  <2>. SUFFICES ASSUME TypeOK, SafetyInv, NotifyInv, EndInv, [Next]_vars PROVE NotifyInv' /\ EndInv'
    OBVIOUS
  <2>1. CASE User
    BY <2>1, EndByUser
  <2>2. ASSUME NEW a \in Attempts, Continue(a) PROVE NotifyInv' /\ EndInv'
    BY <2>2, EndByContinue
  <2>3. ASSUME NEW a \in Attempts, Deliver(a) PROVE NotifyInv' /\ EndInv'
    BY <2>3, EndByDeliver DEF SafetyInv
  <2>4. CASE RustStep /\ UNCHANGED jsVars
    <3>1. ASSUME NEW a \in Attempts, AttemptStep(a) PROVE NotifyInv' /\ EndInv'
      BY <2>4, <3>1, EndByAttempt DEF SafetyInv
    <3>2. ASSUME NEW a \in Attempts, CommandStep(a) PROVE NotifyInv' /\ EndInv'
      BY <2>4, <3>2, EndByCommand DEF CommandStep, Maybe
    <3>3. ASSUME NEW a \in Maybe, SendStep(a) PROVE NotifyInv' /\ EndInv'
      BY <2>4, <3>3, EndByCommand DEF SendStep, Maybe
    <3>4. ASSUME NEW a \in Attempts, TaskStep(a) PROVE NotifyInv' /\ EndInv'
      BY <2>4, <3>4, EndByTask
    <3>. QED
      BY <2>4, <3>1, <3>2, <3>3, <3>4 DEF RustStep, Maybe
  <2>5. CASE UNCHANGED vars
    <3>1. UNCHANGED <<calls, replies, events, op, active, status, disposed, task>>
      BY <2>5 DEF vars, jsVars, ipcVars, rustVars
    <3>2. NotifyInv'
      BY <3>1 DEF NotifyInv
    <3>. QED
      BY <3>1, <3>2 DEF EndInv, Good, Told
  <2>. QED
    BY <2>1, <2>2, <2>3, <2>4, <2>5 DEF Next
<1>3. EndInv => EndIsReported
  <2>. SUFFICES ASSUME EndInv, NEW a \in Attempts, op[a] = "done", task[a] = "ended",
                       events[a] = << >>, ~disposed
                PROVE  status[a] = "ended"
    BY DEF EndIsReported
  <2>1. Told(a)
    BY DEF EndInv, Good
  <2>2. ~EndPending(events[a])
    BY DEF EndPending
  <2>. QED
    BY <2>1, <2>2 DEF Told
<1>. QED
  BY <1>1, <1>2, <1>3, TypeCorrect, Safety, PTL DEF Spec

(***************************************************************************)
(* The contract.  The user's actions begin an attempt or give up, its last *)
(* continuation is its result, the command opens the connection, and a     *)
(* disconnect or the end of the task closes it.                            *)
(***************************************************************************)
\* A connection has a task from the moment its command succeeds, and what goes
\* on after the command knows that it did.
OpenInv ==
  \A a \in Attempts :
    /\ task[a] = "none" <=> ~(ok[a] /\ kind[a] # "prepare")
    /\ op[a] \in Trying \cup {"done"} => ok[a]

LEMMA TaskFrame ==
    ASSUME TypeOK, RustStep
    PROVE  /\ UNCHANGED kind
           /\ \/ \E a \in Attempts : Connect(a) \/ Prepared(a)
              \/ UNCHANGED ok /\ \A b \in Attempts : task'[b] = "none" <=> task[b] = "none"
<1>0. task \in [Attempts -> TaskStates]
  BY DEF TypeOK
<1>1. ASSUME NEW a \in Attempts, AttemptStep(a), ~Connect(a), ~Prepared(a)
      PROVE  UNCHANGED <<kind, ok, task>>
  BY <1>1 DEF AttemptStep, RefuseRequest, TakeEarlyCancel, Register, TakeLateCancel,
     StopCancelled, Authenticated, FailAttempt, EmitConnected, ForgetAttempt, ReturnAttempt
<1>2. ASSUME NEW a, CommandStep(a) \/ SendStep(a) PROVE UNCHANGED <<kind, ok, task>>
  BY <1>2 DEF CommandStep, SendStep, HandleCancel, HandleDisconnect, HandleInitialize,
     HandleInitialized, rustVars
<1>3. ASSUME NEW a \in Attempts, TaskStep(a)
      PROVE  UNCHANGED <<kind, ok>> /\ \A b \in Attempts : task'[b] = "none" <=> task[b] = "none"
  BY <1>0, <1>3 DEF TaskStep, TaskAnswer, TaskClose, TaskLost, FinishRemove, FinishEmit
<1>4. ASSUME NEW a \in Attempts, Connect(a) \/ Prepared(a) PROVE UNCHANGED kind
  BY <1>4 DEF Connect, Prepared
<1>. QED
  BY <1>1, <1>2, <1>3, <1>4 DEF RustStep

LEMMA OpenByRust ==
    ASSUME TypeOK, SafetyInv, OpenInv, RustStep, UNCHANGED jsVars
    PROVE  OpenInv'
<1>0. /\ task \in [Attempts -> TaskStates] /\ ok \in [Attempts -> BOOLEAN]
      /\ UNCHANGED <<op, kind>>
  BY TaskFrame DEF TypeOK, jsVars
<1>1. CASE UNCHANGED ok /\ \A b \in Attempts : task'[b] = "none" <=> task[b] = "none"
  BY <1>0, <1>1 DEF OpenInv
<1>2. ASSUME NEW a \in Attempts, Connect(a) PROVE OpenInv'
  <2>1. /\ ok' = [ok EXCEPT ![a] = TRUE] /\ task' = [task EXCEPT ![a] = "running"]
        /\ kind[a] # "prepare"
    BY <1>2 DEF Connect
  <2>. QED
    BY <1>0, <2>1 DEF OpenInv
<1>3. ASSUME NEW a \in Attempts, Prepared(a) PROVE OpenInv'
  <2>1. ok' = [ok EXCEPT ![a] = TRUE] /\ UNCHANGED task /\ kind[a] = "prepare"
    BY <1>3 DEF Prepared
  <2>. QED
    BY <1>0, <2>1 DEF OpenInv
<1>. QED
  BY <1>1, <1>2, <1>3, TaskFrame

LEMMA OpenStep ==
    ASSUME TypeOK, SafetyInv, OpenInv, [Next]_vars
    PROVE  OpenInv'
<1>0. op \in [Attempts -> OpStates] /\ ok \in [Attempts -> BOOLEAN]
  BY DEF TypeOK
<1>1. CASE User
  <2>1. UNCHANGED <<ok, task>>
    BY <1>1 DEF User, BeginConnection, PreparePair, CancelConnectionAttempt, Disconnect, Dispose,
       rustVars
  <2>2. ASSUME NEW b \in Attempts
        PROVE  /\ op'[b] \in Trying \cup {"done"} => op[b] \in Trying \cup {"done"}
               /\ kind'[b] = kind[b] \/ ~ok[b]
    <3>1. op[b] = "unused" => ~ok[b]
      BY DEF SafetyInv, CommandInv
    <3>. QED
      BY <1>1, <3>1, UserOps DEF Trying
  <2>. QED
    BY <2>1, <2>2 DEF OpenInv
<1>2. ASSUME NEW a \in Attempts, Continue(a) PROVE OpenInv'
  <2>1. UNCHANGED <<ok, kind, task>> /\ \A b \in Attempts : b # a => op'[b] = op[b]
    BY <1>2, ContinueOps DEF rustVars
  <2>2. op'[a] \in Trying \cup {"done"} => op[a] \in Trying \cup {"done"} \/ ok[a]
    <3>1. CASE ContinueConnected(a)
      BY <3>1 DEF ContinueConnected, SafetyInv, CommandInv
    <3>2. CASE ~ContinueConnected(a)
      BY <1>0, <1>2, <3>2 DEF Continue, ContinuePreparePair, EndWithoutConnection, FinishDiscard,
         RejectInitialize, FinishClean, RetryInitialize, FinishNotify, Trying
    <3>. QED
      BY <3>1, <3>2
  <2>. QED
    BY <2>1, <2>2 DEF OpenInv
<1>3. ASSUME NEW c \in Attempts, Deliver(c) PROVE OpenInv'
  <2>1. UNCHANGED <<ok, kind, task>>
    BY <1>3, DeliverOps DEF rustVars
  <2>2. \A b \in Attempts : op'[b] \in Trying \cup {"done"} => op[b] \in Trying \cup {"done"}
    BY <1>3, DeliverOps DEF Trying
  <2>. QED
    BY <2>1, <2>2 DEF OpenInv
<1>4. CASE UNCHANGED vars
  BY <1>4 DEF vars, jsVars, rustVars, OpenInv
<1>. QED
  BY <1>1, <1>2, <1>3, <1>4, OpenByRust DEF Next

LEMMA ResultValues ==
    /\ ResultOf("unused") = "unused" /\ ResultOf("yielding") = "waiting"
    /\ ResultOf("done") = "connected" /\ ResultOf("prepared") = "prepared"
    /\ ResultOf("failed") = "failed"
    /\ \A o \in {"calling", "discarding", "cleaning"} \cup Trying : ResultOf(o) = "trying"
    /\ \A o \in OpStates : ResultOf(o) = "connected" => o = "done"
BY DEF ResultOf, Trying, OpStates

LEMMA ContractInit == Init => Contract!Init
BY ResultValues DEF Init, RustInit, Contract!Init, Wanted, Link

\* The contract's view of a step that leaves all, or all but one, results alone.
LEMMA ResultsStay ==
    ASSUME \A b \in Attempts : ResultOf(op'[b]) = ResultOf(op[b])
    PROVE  [a \in Attempts |-> ResultOf(op[a])]' = [a \in Attempts |-> ResultOf(op[a])]
OBVIOUS

LEMMA ResultMoves ==
    ASSUME NEW a \in Attempts, NEW r, ResultOf(op'[a]) = r,
           \A b \in Attempts : b # a => ResultOf(op'[b]) = ResultOf(op[b])
    PROVE  Contract!Becomes(a, r)
BY DEF Contract!Becomes

LEMMA LinksStay ==
    ASSUME connections' = connections,
           \A b \in Attempts : task'[b] = "none" <=> task[b] = "none"
    PROVE  [a \in Attempts |-> Link(a)]' = [a \in Attempts |-> Link(a)]
BY DEF Link

LEMMA ContractByUser ==
    ASSUME TypeOK, User
    PROVE  Contract!Next
<1>0. op \in [Attempts -> OpStates]
  BY DEF TypeOK
<1>1. UNCHANGED <<connections, task>>
  BY DEF User, BeginConnection, PreparePair, CancelConnectionAttempt, Disconnect, Dispose, rustVars
<1>2. [a \in Attempts |-> Link(a)]' = [a \in Attempts |-> Link(a)]
  BY <1>1, LinksStay
<1>3. \A b \in Attempts : ResultOf(RejectAll[b]) = ResultOf(op[b])
  BY <1>0, ResultValues DEF RejectAll, Pending, Trying
<1>4. ASSUME NEW a \in Attempts, NEW k, BeginConnection(a, k) PROVE Contract!Next
  <2>1. /\ op[a] = "unused" /\ active' = a /\ ~disposed /\ ~disposed'
        /\ op' = [op EXCEPT ![a] = "calling"] \/ op' = [RejectAll EXCEPT ![a] = "calling"]
    BY <1>4 DEF BeginConnection, Unconnected
  <2>2. op'[a] = "calling" /\ \A b \in Attempts : b # a => ResultOf(op'[b]) = ResultOf(op[b])
    BY <1>0, <1>3, <2>1 DEF RejectAll
  <2>3. Contract!Becomes(a, "trying")
    BY <2>2, ResultMoves, ResultValues
  <2>4. Contract!Begin(a)
    BY <1>2, <2>1, <2>3, ResultValues DEF Contract!Begin, Wanted
  <2>. QED
    BY <2>4 DEF Contract!Next
<1>5. ASSUME NEW a \in Attempts, PreparePair(a) PROVE Contract!Next
  <2>1. /\ op[a] = "unused" /\ ~disposed /\ ~disposed'
        /\ \/ op' = [op EXCEPT ![a] = "calling"] /\ active' = a
           \/ op' = [op EXCEPT ![a] = "yielding"] /\ active' = active
    BY <1>5 DEF PreparePair, Unconnected
  <2>2. /\ \A b \in Attempts : b # a => ResultOf(op'[b]) = ResultOf(op[b])
        /\ \/ op'[a] = "calling" /\ active' = a
           \/ op'[a] = "yielding" /\ active' = active
    BY <1>0, <2>1
  <2>3. \/ Contract!Becomes(a, "trying") /\ Wanted' = a
        \/ Contract!Becomes(a, "waiting") /\ Wanted' = Wanted
    BY <2>1, <2>2, ResultMoves, ResultValues DEF Wanted
  <2>4. Contract!Begin(a)
    BY <1>2, <2>1, <2>3, ResultValues DEF Contract!Begin
  <2>. QED
    BY <2>4 DEF Contract!Next
<1>6. CASE CancelConnectionAttempt \/ Disconnect \/ Dispose
  <2>1. op' = RejectAll /\ active' = NoAttempt
    BY <1>6 DEF CancelConnectionAttempt, Disconnect, Dispose
  <2>2. Contract!GiveUp
    BY <1>2, <1>3, <2>1, ResultsStay DEF Contract!GiveUp, Wanted
  <2>. QED
    BY <2>2 DEF Contract!Next
<1>. QED
  BY <1>4, <1>5, <1>6 DEF User

LEMMA ContractByContinue ==
    ASSUME TypeOK, SafetyInv, OpenInv, NEW a \in Attempts, Continue(a)
    PROVE  [Contract!Next]_(Contract!vars)
<1>0. op \in [Attempts -> OpStates] /\ active \in Maybe /\ ok \in [Attempts -> BOOLEAN]
  BY DEF TypeOK, Maybe
<1>1. UNCHANGED <<connections, task, disposed>>
  BY DEF Continue, ContinuePreparePair, EndWithoutConnection, ContinueConnected, FinishDiscard,
     RejectInitialize, FinishClean, RetryInitialize, FinishNotify, rustVars
<1>2. [b \in Attempts |-> Link(b)]' = [b \in Attempts |-> Link(b)]
  BY <1>1, LinksStay
<1>3. \A b \in Attempts : b # a => ResultOf(op'[b]) = ResultOf(op[b])
  BY ContinueOps
<1>4. ASSUME ResultOf(op'[a]) = ResultOf(op[a]), active' = active
      PROVE  UNCHANGED Contract!vars
  BY <1>1, <1>2, <1>3, <1>4, ResultsStay DEF Contract!vars, Wanted
<1>5. ASSUME op[a] \in {"calling", "discarding", "cleaning"}, op'[a] = "failed",
             a \notin connections, ReleaseActive(a)
      PROVE  Contract!Next
  <2>1. Contract!Becomes(a, "failed") /\ ResultOf(op[a]) = "trying"
    BY <1>3, <1>5, ResultMoves, ResultValues
  <2>2. Link(a) # "open"
    BY <1>5 DEF Link
  <2>3. Wanted' = IF Wanted = a THEN NoAttempt ELSE Wanted
    BY <1>1, <1>5 DEF ReleaseActive, Wanted
  <2>4. Contract!Fail(a)
    BY <1>2, <2>1, <2>2, <2>3 DEF Contract!Fail
  <2>. QED
    BY <2>4 DEF Contract!Next
<1>6. CASE ContinuePreparePair(a)
  <2>1. op[a] = "yielding" /\ op'[a] = "calling" /\ active' = a
    BY <1>0, <1>6 DEF ContinuePreparePair
  <2>2. Contract!Becomes(a, "trying") /\ ResultOf(op[a]) = "waiting"
    BY <1>3, <2>1, ResultMoves, ResultValues
  <2>3. Contract!GoOn(a)
    BY <1>1, <1>2, <2>1, <2>2 DEF Contract!GoOn, Wanted
  <2>. QED
    BY <2>3 DEF Contract!Next
<1>7. CASE EndWithoutConnection(a)
  <2>1. PICK good \in BOOLEAN :
               /\ op[a] = "calling" /\ Reply("connect", a, good) \in replies
               /\ good => kind[a] = "prepare"
               /\ op'[a] = IF good /\ IsCurrentAttempt(a) THEN "prepared" ELSE "failed"
    BY <1>0, <1>7 DEF EndWithoutConnection
  <2>2. good = ok[a] /\ a \notin connections /\ task[a] = "none" /\ ReleaseActive(a)
    BY <1>0, <1>7, <2>1 DEF EndWithoutConnection, SafetyInv, CommandInv, ConnectionInv, OpenInv
  <2>3. CASE op'[a] = "failed"
    BY <1>5, <2>1, <2>2, <2>3
  <2>4. CASE op'[a] = "prepared" /\ IsCurrentAttempt(a)
    <3>1. Contract!Becomes(a, "prepared") /\ ResultOf(op[a]) = "trying"
      BY <1>3, <2>1, <2>4, ResultMoves, ResultValues
    <3>2. Wanted = a /\ Wanted' = NoAttempt /\ Link(a) = "none"
      BY <1>1, <2>2, <2>4 DEF IsCurrentAttempt, ReleaseActive, Wanted, Link
    <3>3. Contract!Succeed(a)
      BY <1>2, <3>1, <3>2 DEF Contract!Succeed
    <3>. QED
      BY <3>3 DEF Contract!Next
  <2>. QED
    BY <2>1, <2>3, <2>4
<1>8. CASE ContinueConnected(a)
  <2>1. op[a] = "calling" /\ op'[a] \in {"initializing", "discarding"} /\ active' = active
    BY <1>0, <1>8 DEF ContinueConnected
  <2>. QED
    BY <1>4, <2>1, ResultValues DEF Trying
<1>9. CASE FinishDiscard(a) \/ FinishClean(a)
  <2>1. /\ op[a] \in {"discarding", "cleaning"} /\ op'[a] = "failed" /\ ReleaseActive(a)
        /\ Reply("disconnect", a, TRUE) \in replies
    BY <1>0, <1>9 DEF FinishDiscard, FinishClean
  <2>2. a \notin connections
    BY <2>1 DEF SafetyInv, ConnectionInv
  <2>. QED
    BY <1>5, <2>1, <2>2
<1>10. CASE RejectInitialize(a) \/ RetryInitialize(a)
  <2>1. op[a] \in Trying /\ op'[a] \in {"cleaning", "initializing"} /\ active' = active
    BY <1>0, <1>10 DEF RejectInitialize, RetryInitialize, Trying
  <2>. QED
    BY <1>4, <2>1, ResultValues DEF Trying
<1>11. CASE FinishNotify(a)
  <2>1. /\ op[a] = "notifying"
        /\ \/ op'[a] = "done" /\ IsCurrentAttempt(a) /\ ReleaseActive(a)
           \/ op'[a] = "cleaning" /\ active' = active
    BY <1>0, <1>11 DEF FinishNotify
  <2>2. CASE op'[a] = "cleaning" /\ active' = active
    BY <1>4, <2>1, <2>2, ResultValues DEF Trying
  <2>3. CASE op'[a] = "done" /\ IsCurrentAttempt(a) /\ ReleaseActive(a)
    <3>1. Contract!Becomes(a, "connected") /\ ResultOf(op[a]) = "trying"
      BY <1>3, <2>1, <2>3, ResultMoves, ResultValues DEF Trying
    <3>2. Wanted = a /\ Wanted' = NoAttempt
      BY <1>1, <2>3 DEF IsCurrentAttempt, ReleaseActive, Wanted
    <3>3. kind[a] # "prepare" /\ ok[a]
      BY <2>1 DEF SafetyInv, CurrentInv, OpenInv, Trying
    <3>4. Link(a) # "none"
      BY <3>3 DEF OpenInv, Link
    <3>5. \A b \in Attempts : op[b] # "done"
      BY <2>3, <3>3 DEF SafetyInv, CurrentInv, IsCurrentAttempt
    <3>6. \A b \in Attempts : ResultOf(op[b]) # "connected"
      BY <1>0, <3>5, ResultValues
    <3>7. Contract!Succeed(a)
      BY <1>2, <3>1, <3>2, <3>4, <3>6 DEF Contract!Succeed
    <3>. QED
      BY <3>7 DEF Contract!Next
  <2>. QED
    BY <2>1, <2>2, <2>3
<1>. QED
  BY <1>6, <1>7, <1>8, <1>9, <1>10, <1>11 DEF Continue

LEMMA ContractByRust ==
    ASSUME TypeOK, SafetyInv, OpenInv, RustStep, UNCHANGED jsVars
    PROVE  [Contract!Next]_(Contract!vars)
<1>0. /\ task \in [Attempts -> TaskStates] /\ ok \in [Attempts -> BOOLEAN]
      /\ UNCHANGED <<op, active, disposed>>
  BY DEF TypeOK, jsVars
<1>1. Wanted' = Wanted /\ [b \in Attempts |-> ResultOf(op[b])]' = [b \in Attempts |-> ResultOf(op[b])]
  BY <1>0, ResultsStay DEF Wanted
<1>2. ASSUME UNCHANGED connections, \A b \in Attempts : task'[b] = "none" <=> task[b] = "none"
      PROVE  UNCHANGED Contract!vars
  BY <1>1, <1>2, LinksStay DEF Contract!vars
<1>3. ASSUME NEW a \in Attempts, connections' = connections \ {a},
             \A b \in Attempts : task'[b] = "none" <=> task[b] = "none"
      PROVE  [Contract!Next]_(Contract!vars)
  <2>1. CASE a \notin connections
    BY <1>2, <1>3, <2>1
  <2>2. CASE a \in connections
    <3>1. task[a] # "none"
      BY <2>2 DEF SafetyInv, ConnectionInv, OpenInv
    <3>2. Link(a) = "open" /\ Link(a)' = "closed"
      BY <1>3, <2>2, <3>1 DEF Link
    <3>3. \A b \in Attempts : b # a => Link(b)' = Link(b)
      BY <1>3 DEF Link
    <3>4. Contract!Close(a)
      BY <1>1, <3>2, <3>3 DEF Contract!Close
    <3>. QED
      BY <3>4 DEF Contract!Next
  <2>. QED
    BY <2>1, <2>2
<1>4. ASSUME NEW a \in Attempts, Connect(a) PROVE Contract!Next
  <2>1. op[a] = "calling" /\ ~ok[a] /\ kind[a] # "prepare" /\ cmd[a] = "connecting"
    BY <1>4 DEF Connect, SafetyInv, CommandInv, RegistryInv
  <2>2. task[a] = "none" /\ a \notin connections
    BY <2>1 DEF SafetyInv, ConnectionInv, OpenInv
  <2>3. connections' = connections \cup {a} /\ task' = [task EXCEPT ![a] = "running"]
    BY <1>4 DEF Connect
  <2>4. Link(a) = "none" /\ Link(a)' = "open"
    BY <2>2, <2>3 DEF Link
  <2>5. \A b \in Attempts : b # a => Link(b)' = Link(b)
    BY <1>0, <2>3 DEF Link
  <2>6. ResultOf(op[a]) = "trying"
    BY <2>1, ResultValues
  <2>7. Contract!Open(a)
    BY <1>1, <2>4, <2>5, <2>6 DEF Contract!Open
  <2>. QED
    BY <2>7 DEF Contract!Next
<1>5. ASSUME NEW a \in Attempts, AttemptStep(a), ~Connect(a) PROVE UNCHANGED <<connections, task>>
  BY <1>5 DEF AttemptStep, RefuseRequest, TakeEarlyCancel, Register, TakeLateCancel,
     StopCancelled, Authenticated, FailAttempt, Prepared, EmitConnected, ForgetAttempt,
     ReturnAttempt
<1>6. ASSUME NEW a \in Attempts, CommandStep(a)
      PROVE  UNCHANGED task /\ (connections' = connections \/ connections' = connections \ {a})
  BY <1>6 DEF CommandStep, HandleCancel, HandleDisconnect
<1>7. ASSUME NEW a, SendStep(a) PROVE UNCHANGED <<connections, task>>
  BY <1>7 DEF SendStep, HandleInitialize, HandleInitialized, rustVars
<1>8. ASSUME NEW a \in Attempts, TaskStep(a)
      PROVE  /\ connections' = connections \/ connections' = connections \ {a}
             /\ \A b \in Attempts : task'[b] = "none" <=> task[b] = "none"
  BY <1>0, <1>8 DEF TaskStep, TaskAnswer, TaskClose, TaskLost, FinishRemove, FinishEmit
<1>. QED
  BY <1>2, <1>3, <1>4, <1>5, <1>6, <1>7, <1>8 DEF RustStep

LEMMA ContractStep ==
    TypeOK /\ SafetyInv /\ OpenInv /\ [Next]_vars => [Contract!Next]_(Contract!vars)
<1>. SUFFICES ASSUME TypeOK, SafetyInv, OpenInv, [Next]_vars
              PROVE  [Contract!Next]_(Contract!vars)
  OBVIOUS
<1>1. ASSUME \/ \E c \in Attempts : Deliver(c)
             \/ UNCHANGED vars
      PROVE  UNCHANGED Contract!vars
  <2>1. /\ UNCHANGED <<active, disposed, connections, task>>
        /\ \A b \in Attempts : ResultOf(op'[b]) = ResultOf(op[b])
    <3>1. CASE UNCHANGED vars
      BY <3>1 DEF vars, jsVars, rustVars
    <3>2. ASSUME NEW c \in Attempts, Deliver(c)
          PROVE  /\ UNCHANGED <<active, disposed, connections, task>>
                 /\ \A b \in Attempts : ResultOf(op'[b]) = ResultOf(op[b])
      <4>1. UNCHANGED <<active, disposed, connections, task>>
        BY <3>2 DEF Deliver, rustVars
      <4>. QED
        BY <3>2, <4>1, DeliverOps, ResultValues DEF Trying
    <3>. QED
      BY <1>1, <3>1, <3>2
  <2>. QED
    BY <2>1, ResultsStay, LinksStay DEF Contract!vars, Wanted
<1>. QED
  BY <1>1, ContractByUser, ContractByContinue, ContractByRust DEF Next

\* The client implements the safety part of ConnectionContract.
THEOREM AttemptsImplementContract == Spec => Contract!Spec
<1>1. Init => OpenInv
  BY DEF Init, RustInit, OpenInv, Trying
<1>2. TypeOK /\ SafetyInv /\ OpenInv /\ [Next]_vars => OpenInv'
  BY OpenStep
<1>. QED
  BY <1>1, <1>2, ContractInit, ContractStep, Safety, TypeCorrect, PTL DEF Spec, Contract!Spec
=============================================================================
