---------------------------- MODULE AppServerCalls ----------------------------
(***************************************************************************)
(* The App Server client with concurrent callers: every call of            *)
(* request_value races the child's answers, its own timeout, the end of    *)
(* the reader and a shutdown.  Calls is in the names of the specification, *)
(* which one proof module holds beside that of the Host Agent.             *)
(***************************************************************************)
EXTENDS AppServerClient

CONSTANT Notices   \* lines of the child that answer no numbered request

ASSUME NoticesAssumption == \A q \in Questions : OwnAnswer(q) \notin Notices

callsVars == <<callVars, readerVars>>

CallsTypeOK ==
    /\ ClientTypeOK
    /\ notifications \in Seq(Notices \cup {OwnAnswer(q) : q \in Questions})

CallsInit == ClientInit

(* The subscriber takes its next message.                                  *)
Receive ==
    /\ notifications # <<>>
    /\ notifications' = Tail(notifications)
    /\ UNCHANGED <<callVars, answered, reader, stopping, subscribed>>

(* The caller's own steps after it has asked.                              *)
Proceed(c) ==
    \/ Write(c)
    \/ WriteFails(c)
    \/ TakeReply(c)
    \/ Expire(c)
    \/ Forget(c)

Caller(c) == Register(c) \/ Proceed(c)

ReaderTask ==
    \/ \E q \in Questions : ReadAnswer(q)
    \/ \E m \in Notices : ReadOther(m)
    \/ ReaderStops
    \/ Drain

Shutdown == ShutdownKill \/ ShutdownFails \/ ShutdownDrain

CallsNext ==
    \/ \E c \in Calls : Caller(c)
    \/ ReaderTask
    \/ Shutdown
    \/ Subscribe
    \/ Receive

CallsSpec == CallsInit /\ [][CallsNext]_callsVars

(* A caller that can go on does: its task is scheduled, its timer fires,   *)
(* and the child takes what is written to it or its pipe breaks.  Nothing  *)
(* is assumed of the child's answers, nor of the reader.                   *)
FairCallsSpec == CallsSpec /\ \A c \in Calls : WF_callsVars(Proceed(c))

-----------------------------------------------------------------------------
(* The answer a call returns is the answer to its own request, though a    *)
(* late answer to an earlier one may arrive while it waits.                *)
RightAnswer ==
    \A c \in Calls : call[c].result.kind = "answer" =>
        call[c].result.to = c

(* The pending map holds only the senders of calls in progress: whatever   *)
(* ends a call takes its entry away, once.                                 *)
NoPendingLeft ==
    \A n \in Ids : pending[n] # NoCall =>
        /\ call[pending[n]].pc \notin {"idle", "done"}
        /\ call[pending[n]].id = n

(* An answer that reaches the subscribers is one no call takes any more:   *)
(* no caller both misses its answer and has it published.                  *)
PublishedAnswersAreLate ==
    \A i \in 1 .. Len(notifications), q \in Questions :
        notifications[i] = OwnAnswer(q) =>
            /\ call[q.by].pc \in {"expired", "done"}
            /\ call[q.by].result.kind # "answer"

(* What the contract sees: where each call stands for its caller, and      *)
(* which calls the child has answered.                                     *)
CallOutcome(c) ==
    IF call[c].pc = "idle" THEN "uncalled"
    ELSE IF call[c].pc # "done" THEN "called"
    ELSE IF call[c].result.kind = "answer" THEN "answer" ELSE "error"

Contract == INSTANCE CallContract WITH
    outcome <- [c \in Calls |-> CallOutcome(c)],
    served  <- {q.by : q \in answered}

(* Every call returns once, with its own answer or an error, and it does   *)
(* return whatever becomes of the reader: request_value keeps the contract.*)
KeepsContract == Contract!FairSpec
=============================================================================
