--------------------------- MODULE AppServerClient ---------------------------
(***************************************************************************)
(* crates/app-server-client: one `codex app-server` child behind a stdio   *)
(* pipe of JSON lines.  Any number of tasks call request_value; one task   *)
(* reads the child's lines and hands each to the call that waits for it or *)
(* to the subscribers.                                                     *)
(*                                                                         *)
(* This module has the state and the steps of the client.  Who calls it,   *)
(* and what the child says, is up to the modules that extend it.           *)
(***************************************************************************)
EXTENDS Integers, Sequences

CONSTANTS
    Calls,           \* calls of request_value
    NoCall,          \* "not in the pending map"
    MaxId,           \* bound on the u64 ids drawn from next_id
    NotificationCap  \* capacity of the broadcast channel (512 in the code)

ASSUME NoCallAssumption == NoCall \notin Calls
ASSUME ClientBoundsAssumption == MaxId \in Nat /\ NotificationCap \in Nat \ {0}

VARIABLES
    nextId,         \* next_id
    call,           \* call -> program counter, id and result of request_value
    pending,        \* id -> the call whose oneshot sender the map holds
    reply,          \* call -> what its oneshot channel holds
    asked,          \* requests the child has been sent: their id, and by which call
    answered,       \* requests the child has answered
    reader,         \* the read_messages task
    stopping,       \* progress of shutdown
    subscribed,     \* someone receives notifications
    notifications   \* what the subscriber has yet to receive

callVars   == <<nextId, call, pending, reply, asked>>
readerVars == <<answered, reader, stopping, subscribed, notifications>>

Ids == 1 .. MaxId

Questions == [id : Ids, by : Calls]

(* An answer is abstracted to the call whose request it answers.           *)
Replies == [kind : {"answer"}, to : Calls]
           \cup [kind : {"none", "closed", "unwritten", "timeout"}, to : {NoCall}]
Failure(kind) == [kind |-> kind, to |-> NoCall]
NoReply == Failure("none")

CallPcs == {"idle", "writing", "failed", "waiting", "expired", "done"}
CallRecords == [pc : CallPcs, id : 0 .. MaxId, result : Replies]
IdleCall == [pc |-> "idle", id |-> 0, result |-> NoReply]

(* All but the notifications, whose messages the extending modules choose. *)
ClientTypeOK ==
    /\ nextId \in 1 .. MaxId + 1
    /\ call \in [Calls -> CallRecords]
    /\ \A c \in Calls : call[c].pc # "idle" => call[c].id \in Ids
    /\ pending \in [Ids -> Calls \cup {NoCall}]
    /\ reply \in [Calls -> Replies]
    /\ asked \in SUBSET Questions
    /\ answered \in SUBSET Questions
    /\ reader \in {"running", "draining", "ended"}
    /\ stopping \in {"no", "killed", "over"}
    /\ subscribed \in BOOLEAN

ClientInit ==
    /\ nextId = 1
    /\ call = [c \in Calls |-> IdleCall]
    /\ pending = [n \in Ids |-> NoCall]
    /\ reply = [c \in Calls |-> NoReply]
    /\ asked = {} /\ answered = {}
    /\ reader = "running"
    /\ stopping = "no"
    /\ subscribed = FALSE
    /\ notifications = <<>>

-----------------------------------------------------------------------------
(* request_value.                                                          *)

(* The definitions named ...Mistake are changes a maintainer could make to *)
(* the operator that follows them; a run shows what each would break.      *)

\* Takes the lowest id that is not pending.
FreshIdMistake == CHOOSE n \in Ids : /\ pending[n] = NoCall
                                     /\ \A k \in 1 .. n - 1 : pending[k] # NoCall

FreshId == nextId

(* The id is drawn and the oneshot sender inserted.  The lock is awaited   *)
(* between the two, but nobody can tell: ids are never drawn twice.        *)
Register(c) ==
    /\ call[c].pc = "idle"
    /\ nextId <= MaxId
    /\ nextId' = nextId + 1
    /\ call' = [call EXCEPT ![c].pc = "writing", ![c].id = FreshId]
    /\ pending' = [pending EXCEPT ![FreshId] = c]
    /\ UNCHANGED <<reply, asked, readerVars>>

(* The pipe takes the line, whether or not the child will read it.        *)
Write(c) ==
    /\ call[c].pc = "writing"
    /\ call' = [call EXCEPT ![c].pc = "waiting"]
    /\ asked' = asked \cup {[id |-> call[c].id, by |-> c]}
    /\ UNCHANGED <<nextId, pending, reply, readerVars>>

(* The line is too long, or the child has closed its end of the pipe.      *)
WriteFails(c) ==
    /\ call[c].pc = "writing"
    /\ call' = [call EXCEPT ![c].pc = "failed"]
    /\ UNCHANGED <<nextId, pending, reply, asked, readerVars>>

TakeReply(c) ==
    /\ call[c].pc = "waiting"
    /\ reply[c] # NoReply
    /\ call' = [call EXCEPT ![c].pc = "done", ![c].result = reply[c]]
    /\ UNCHANGED <<nextId, pending, reply, asked, readerVars>>

\* Gives up only while the child can still answer.
ExpireMistake(c) ==
    /\ call[c].pc = "waiting"
    /\ reply[c] = NoReply
    /\ reader = "running"
    /\ call' = [call EXCEPT ![c].pc = "expired"]
    /\ UNCHANGED <<nextId, pending, reply, asked, readerVars>>

(* After thirty seconds; a reply that is already there wins.               *)
Expire(c) ==
    /\ call[c].pc = "waiting"
    /\ reply[c] = NoReply
    /\ call' = [call EXCEPT ![c].pc = "expired"]
    /\ UNCHANGED <<nextId, pending, reply, asked, readerVars>>

\* Returns the error and leaves the sender in the map.
ForgetMistake(c) ==
    /\ call[c].pc \in {"failed", "expired"}
    /\ call' = [call EXCEPT
                   ![c].pc = "done",
                   ![c].result = IF call[c].pc = "failed" THEN Failure("unwritten")
                                                          ELSE Failure("timeout")]
    /\ UNCHANGED <<nextId, pending, reply, asked, readerVars>>

(* The error path waits for the lock before it removes the sender: until   *)
(* then the reader may still take it out and answer a receiver nobody      *)
(* listens to.                                                             *)
Forget(c) ==
    /\ call[c].pc \in {"failed", "expired"}
    /\ pending' = [pending EXCEPT ![call[c].id] = NoCall]
    /\ call' = [call EXCEPT
                   ![c].pc = "done",
                   ![c].result = IF call[c].pc = "failed" THEN Failure("unwritten")
                                                          ELSE Failure("timeout")]
    /\ UNCHANGED <<nextId, reply, asked, readerVars>>

-----------------------------------------------------------------------------
(* read_messages.                                                          *)

(* broadcast::Sender::send: nobody to send to, or the oldest message goes  *)
(* when the channel is full; the Lagged error it causes at the receiver is *)
(* ignored by the only receiver there is.                                  *)
Queued(m) ==
    IF ~subscribed THEN notifications
    ELSE IF Len(notifications) < NotificationCap THEN Append(notifications, m)
    ELSE Append(Tail(notifications), m)

OwnAnswer(q) == [kind |-> "ownAnswer", id |-> q.id, to |-> q.by]

\* Tells the subscribers of every line, also of the one a call waits for.
ReadAnswerMistake(q) ==
    /\ reader = "running"
    /\ q \in asked \ answered
    /\ answered' = answered \cup {q}
    /\ notifications' = Queued(OwnAnswer(q))
    /\ IF pending[q.id] # NoCall
       THEN /\ pending' = [pending EXCEPT ![q.id] = NoCall]
            /\ reply' = [reply EXCEPT ![pending[q.id]] = [kind |-> "answer", to |-> q.by]]
       ELSE UNCHANGED <<pending, reply>>
    /\ UNCHANGED <<nextId, call, asked, reader, stopping, subscribed>>

(* The child answers a request: the line is for the call that waits for    *)
(* its id or, when there is none any more, for the subscribers.            *)
ReadAnswer(q) ==
    /\ reader = "running"
    /\ q \in asked \ answered
    /\ answered' = answered \cup {q}
    /\ IF pending[q.id] # NoCall
       THEN /\ pending' = [pending EXCEPT ![q.id] = NoCall]
            /\ reply' = [reply EXCEPT ![pending[q.id]] = [kind |-> "answer", to |-> q.by]]
            /\ UNCHANGED notifications
       ELSE /\ notifications' = Queued(OwnAnswer(q))
            /\ UNCHANGED <<pending, reply>>
    /\ UNCHANGED <<nextId, call, asked, reader, stopping, subscribed>>

(* Every other line.                                                       *)
ReadOther(m) ==
    /\ reader = "running"
    /\ notifications' = Queued(m)
    /\ UNCHANGED <<callVars, answered, reader, stopping, subscribed>>

(* The child closed its output, or sent a line over 32 MiB.                *)
ReaderStops ==
    /\ reader = "running"
    /\ reader' = "draining"
    /\ UNCHANGED <<callVars, answered, stopping, subscribed, notifications>>

CloseAllPending ==
    /\ pending' = [n \in Ids |-> NoCall]
    /\ reply' = [c \in Calls |->
                    IF \E n \in Ids : pending[n] = c THEN Failure("closed")
                    ELSE reply[c]]

Drain ==
    /\ reader = "draining"
    /\ reader' = "ended"
    /\ CloseAllPending
    /\ UNCHANGED <<nextId, call, asked, answered, stopping, subscribed, notifications>>

-----------------------------------------------------------------------------
(* subscribe, and shutdown: the reader is aborted and the child killed,    *)
(* then the pending calls are closed - unless the kill failed.             *)
Subscribe ==
    /\ ~subscribed
    /\ subscribed' = TRUE
    /\ UNCHANGED <<callVars, answered, reader, stopping, notifications>>

ShutdownKill ==
    /\ stopping = "no"
    /\ stopping' = "killed"
    /\ reader' = "ended"
    /\ UNCHANGED <<callVars, answered, subscribed, notifications>>

ShutdownFails ==
    /\ stopping = "killed"
    /\ stopping' = "over"
    /\ UNCHANGED <<callVars, answered, reader, subscribed, notifications>>

ShutdownDrain ==
    /\ stopping = "killed"
    /\ stopping' = "over"
    /\ CloseAllPending
    /\ UNCHANGED <<nextId, call, asked, answered, reader, subscribed, notifications>>
=============================================================================
