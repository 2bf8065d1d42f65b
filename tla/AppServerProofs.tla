---------------------------- MODULE AppServerProofs ----------------------------
(***************************************************************************)
(* Theorems about the App Server client and the Host Agent that is built   *)
(* on it: lemmas about the steps of the client, which both rest on; then   *)
(* type correctness, the safety properties and the contract of the client  *)
(* with concurrent callers; then type correctness and every safety         *)
(* property of the Host Agent.  The two specifications stay apart: Calls   *)
(* is in the names of the client's.                                        *)
(***************************************************************************)
EXTENDS AppServerCalls, HostAgent, TLAPS

(***************************************************************************)
(* The client: its steps keep its types, and what a bounded queue holds    *)
(* after a message.                                                        *)
(***************************************************************************)
LEMMA QueuedType ==
    ASSUME NEW S, notifications \in Seq(S), NEW m \in S
    PROVE  Queued(m) \in Seq(S)
<1>1. CASE Len(notifications) < NotificationCap
  BY <1>1 DEF Queued
<1>2. CASE ~(Len(notifications) < NotificationCap)
  <2>1. notifications # <<>>
    BY <1>2, ClientBoundsAssumption
  <2>2. Tail(notifications) \in Seq(S)
    BY <2>1
  <2>3. Append(Tail(notifications), m) \in Seq(S)
    BY <2>2
  <2>. QED
    BY <1>2, <2>3 DEF Queued
<1>. QED
  BY <1>1, <1>2

(* What was queued before, shifted by one if the oldest message went, or   *)
(* the new message in the last place.                                      *)
LEMMA QueuedElements ==
    ASSUME NEW S, notifications \in Seq(S), NEW m \in S, NEW i \in 1 .. Len(Queued(m))
    PROVE  \/ Queued(m)[i] = m
           \/ \E j \in 1 .. Len(notifications) : Queued(m)[i] = notifications[j]
<1>1. CASE ~subscribed
  BY <1>1 DEF Queued
<1>2. CASE subscribed /\ Len(notifications) < NotificationCap
  BY <1>2 DEF Queued
<1>3. CASE subscribed /\ ~(Len(notifications) < NotificationCap)
  <2>1. notifications # <<>>
    BY <1>3, ClientBoundsAssumption
  <2> DEFINE rest == Tail(notifications)
  <2>2. rest \in Seq(S) /\ Len(rest) = Len(notifications) - 1
    BY <2>1
  <2>3. \A j \in 1 .. Len(rest) : rest[j] = notifications[j + 1]
    BY <2>1
  <2>4. Queued(m) = Append(rest, m)
    BY <1>3 DEF Queued
  <2> HIDE DEF rest
  <2>5. Len(Queued(m)) = Len(rest) + 1
    BY <2>2, <2>4
  <2>6. CASE i = Len(rest) + 1
    BY <2>2, <2>4, <2>6
  <2>7. CASE i # Len(rest) + 1
    <3>1. i \in 1 .. Len(rest)
      BY <2>2, <2>5, <2>7
    <3>2. Queued(m)[i] = rest[i]
      BY <2>2, <2>4, <3>1
    <3>. QED
      BY <2>2, <2>3, <3>1, <3>2
  <2>. QED
    BY <2>6, <2>7
<1>. QED
  BY <1>1, <1>2, <1>3

(* The same with positions: every old message moved up by the same number  *)
(* of places, none or one.                                                 *)
LEMMA QueuedOrder ==
    ASSUME NEW S, notifications \in Seq(S), NEW m \in S
    PROVE  \E shift \in {0, 1} : \A i \in 1 .. Len(Queued(m)) :
               \/ /\ i + shift \in 1 .. Len(notifications)
                  /\ Queued(m)[i] = notifications[i + shift]
               \/ i = Len(Queued(m)) /\ Queued(m)[i] = m
<1>1. CASE ~subscribed
  BY <1>1 DEF Queued
<1>2. CASE subscribed /\ Len(notifications) < NotificationCap
  BY <1>2 DEF Queued
<1>3. CASE subscribed /\ ~(Len(notifications) < NotificationCap)
  <2>1. notifications # <<>>
    BY <1>3, ClientBoundsAssumption
  <2> DEFINE rest == Tail(notifications)
  <2>2. rest \in Seq(S) /\ Len(rest) = Len(notifications) - 1
    BY <2>1
  <2>3. \A j \in 1 .. Len(rest) : rest[j] = notifications[j + 1]
    BY <2>1
  <2>4. Queued(m) = Append(rest, m)
    BY <1>3 DEF Queued
  <2> HIDE DEF rest
  <2>5. Len(Queued(m)) = Len(rest) + 1 /\ Queued(m)[Len(rest) + 1] = m
    BY <2>2, <2>4
  <2>6. \A j \in 1 .. Len(rest) : Queued(m)[j] = rest[j]
    BY <2>2, <2>4
  <2>. QED
    BY <2>2, <2>3, <2>5, <2>6
<1>. QED
  BY <1>1, <1>2, <1>3

(***************************************************************************)
(* Types.                                                                  *)
(***************************************************************************)
LEMMA CallTypes ==
    ASSUME ClientTypeOK, NEW c \in Calls,
           \/ Register(c) \/ Write(c) \/ WriteFails(c) \/ TakeReply(c)
           \/ Expire(c) \/ Forget(c)
    PROVE  ClientTypeOK'
<1>. USE DEF ClientTypeOK, Ids
<1>0. /\ call \in [Calls -> CallRecords]
      /\ MaxId \in Nat
  BY ClientBoundsAssumption
<1>1. ASSUME Register(c) PROVE ClientTypeOK'
  <2>1. nextId \in Ids /\ nextId' \in 1 .. MaxId + 1
    BY <1>0, <1>1 DEF Register
  <2>2. call' = [call EXCEPT ![c] = [call[c] EXCEPT !.pc = "writing", !.id = nextId]]
    BY <1>1 DEF Register, FreshId
  <2>3. [call[c] EXCEPT !.pc = "writing", !.id = nextId] \in CallRecords
    <3>1. call[c] \in CallRecords /\ nextId \in 0 .. MaxId
      BY <1>0, <2>1
    <3>2. "writing" \in CallPcs
      BY DEF CallPcs
    <3>. QED
      BY <3>1, <3>2 DEF CallRecords
  <2>4. call' \in [Calls -> CallRecords] /\ call'[c].id = nextId
    BY <1>0, <2>2, <2>3 DEF CallRecords
  <2>5. \A d \in Calls : call'[d].pc # "idle" => call'[d].id \in Ids
    BY <1>0, <2>1, <2>2, <2>4
  <2>6. pending' \in [Ids -> Calls \cup {NoCall}]
    BY <1>1, <2>1 DEF Register, FreshId
  <2>. QED
    BY <1>1, <2>1, <2>4, <2>5, <2>6 DEF Register, readerVars
<1>2. ASSUME Write(c) PROVE ClientTypeOK'
  <2>1. /\ call' \in [Calls -> CallRecords]
        /\ \A d \in Calls : call'[d].id = call[d].id
        /\ \A d \in Calls \ {c} : call'[d].pc = call[d].pc
    BY <1>0, <1>2 DEF Write, CallRecords, CallPcs
  <2>2. [id |-> call[c].id, by |-> c] \in Questions
    BY <1>2 DEF Write, Questions
  <2>3. asked' \in SUBSET Questions
    BY <1>2, <2>2 DEF Write
  <2>. QED
    BY <1>2, <2>1, <2>3 DEF Write, readerVars
<1>3. ASSUME WriteFails(c) PROVE ClientTypeOK'
  BY <1>0, <1>3 DEF WriteFails, readerVars, CallRecords, CallPcs
<1>4. ASSUME TakeReply(c) PROVE ClientTypeOK'
  BY <1>0, <1>4 DEF TakeReply, readerVars, CallRecords, CallPcs
<1>5. ASSUME Expire(c) PROVE ClientTypeOK'
  BY <1>0, <1>5 DEF Expire, readerVars, CallRecords, CallPcs
<1>6. ASSUME Forget(c) PROVE ClientTypeOK'
  <2>1. Failure("unwritten") \in Replies /\ Failure("timeout") \in Replies
    BY DEF Failure, Replies
  <2>. QED
    BY <1>0, <1>6, <2>1 DEF Forget, readerVars, CallRecords, CallPcs
<1>. QED
  BY <1>1, <1>2, <1>3, <1>4, <1>5, <1>6

LEMMA ReaderTypes ==
    ASSUME ClientTypeOK,
           \/ \E q \in Questions : ReadAnswer(q)
           \/ \E m : ReadOther(m)
           \/ ReaderStops \/ Drain
    PROVE  ClientTypeOK'
<1>. USE DEF ClientTypeOK
<1>1. ASSUME NEW q \in Questions, ReadAnswer(q) PROVE ClientTypeOK'
  <2>1. q.id \in Ids /\ q.by \in Calls
    BY DEF Questions
  <2>2. pending' \in [Ids -> Calls \cup {NoCall}] /\ reply' \in [Calls -> Replies]
    BY <1>1, <2>1 DEF ReadAnswer, Replies
  <2>. QED
    BY <1>1, <2>2 DEF ReadAnswer
<1>2. ASSUME NEW m, ReadOther(m) PROVE ClientTypeOK'
  BY <1>2 DEF ReadOther, callVars
<1>3. ASSUME ReaderStops PROVE ClientTypeOK'
  BY <1>3 DEF ReaderStops, callVars
<1>4. ASSUME Drain PROVE ClientTypeOK'
  BY <1>4 DEF Drain, CloseAllPending, Replies, Failure
<1>. QED
  BY <1>1, <1>2, <1>3, <1>4

LEMMA ControlTypes ==
    ASSUME ClientTypeOK, ShutdownKill \/ ShutdownFails \/ ShutdownDrain \/ Subscribe
    PROVE  ClientTypeOK'
<1>. USE DEF ClientTypeOK
<1>1. ASSUME ShutdownKill PROVE ClientTypeOK'
  BY <1>1 DEF ShutdownKill, callVars
<1>2. ASSUME ShutdownFails PROVE ClientTypeOK'
  BY <1>2 DEF ShutdownFails, callVars
<1>3. ASSUME ShutdownDrain PROVE ClientTypeOK'
  BY <1>3 DEF ShutdownDrain, CloseAllPending, Replies, Failure
<1>4. ASSUME Subscribe PROVE ClientTypeOK'
  BY <1>4 DEF Subscribe, callVars
<1>. QED
  BY <1>1, <1>2, <1>3, <1>4

LEMMA ClientInitTypes == ClientInit => ClientTypeOK /\ notifications = <<>>
<1>. SUFFICES ASSUME ClientInit PROVE ClientTypeOK /\ notifications = <<>>
  OBVIOUS
<1>1. NoReply \in Replies /\ IdleCall \in CallRecords
  BY ClientBoundsAssumption DEF CallRecords, CallPcs, IdleCall, NoReply, Failure, Replies
<1>2. 1 \in 1 .. MaxId + 1
  BY ClientBoundsAssumption
<1>. QED
  BY <1>1, <1>2 DEF ClientInit, ClientTypeOK, IdleCall

-----------------------------------------------------------------------------
(***************************************************************************)
(* Types.                                                                  *)
(***************************************************************************)
LEMMA CallsTypeStep == CallsTypeOK /\ [CallsNext]_callsVars => CallsTypeOK'
<1>. SUFFICES ASSUME CallsTypeOK, [CallsNext]_callsVars PROVE CallsTypeOK'
  OBVIOUS
<1> DEFINE M == Notices \cup {OwnAnswer(q) : q \in Questions}
<1>0. ClientTypeOK /\ notifications \in Seq(M)
  BY DEF CallsTypeOK
<1>1. ASSUME NEW c \in Calls, Caller(c) PROVE CallsTypeOK'
  <2>1. UNCHANGED notifications
    BY <1>1 DEF Caller, Proceed, Register, Write, WriteFails, TakeReply, Expire, Forget,
       readerVars
  <2>. QED
    BY <1>0, <1>1, <2>1, CallTypes DEF Caller, Proceed, CallsTypeOK
<1>2. ASSUME ReaderTask PROVE CallsTypeOK'
  <2>1. ASSUME NEW q \in Questions, ReadAnswer(q) PROVE notifications' \in Seq(M)
    <3>1. Queued(OwnAnswer(q)) \in Seq(M)
      BY <1>0, QueuedType
    <3>. QED
      BY <1>0, <2>1, <3>1 DEF ReadAnswer
  <2>2. ASSUME NEW m \in Notices, ReadOther(m) PROVE notifications' \in Seq(M)
    <3>1. Queued(m) \in Seq(M)
      BY <1>0, QueuedType
    <3>. QED
      BY <2>2, <3>1 DEF ReadOther
  <2>3. ASSUME ReaderStops \/ Drain PROVE notifications' \in Seq(M)
    BY <1>0, <2>3 DEF ReaderStops, Drain
  <2>4. notifications' \in Seq(M)
    BY <1>2, <2>1, <2>2, <2>3 DEF ReaderTask
  <2>5. ClientTypeOK'
    BY <1>0, <1>2, ReaderTypes DEF ReaderTask
  <2>. QED
    BY <2>4, <2>5 DEF CallsTypeOK
<1>3. ASSUME Shutdown \/ Subscribe PROVE CallsTypeOK'
  <2>1. UNCHANGED notifications
    BY <1>3 DEF Shutdown, ShutdownKill, ShutdownFails, ShutdownDrain, Subscribe
  <2>. QED
    BY <1>0, <1>3, <2>1, ControlTypes DEF Shutdown, CallsTypeOK
<1>4. ASSUME UNCHANGED callsVars PROVE CallsTypeOK'
  BY <1>4 DEF CallsTypeOK, ClientTypeOK, callVars, readerVars, callsVars
<1>5. ASSUME Receive PROVE CallsTypeOK'
  <2>1. notifications' \in Seq(M)
    BY <1>0, <1>5 DEF Receive
  <2>. QED
    BY <1>5, <2>1 DEF Receive, CallsTypeOK, ClientTypeOK, callVars
<1>. QED
  BY <1>1, <1>2, <1>3, <1>4, <1>5 DEF CallsNext

(* Every variable keeps its type, for any number of calls and ids.         *)
THEOREM CallsTypeCorrect == CallsSpec => []CallsTypeOK
<1>1. CallsInit => CallsTypeOK
  BY ClientInitTypes DEF CallsInit, CallsTypeOK
<1>. QED
  BY <1>1, CallsTypeStep, PTL DEF CallsSpec

(***************************************************************************)
(* Safety.  Ids are drawn once, so the pending map, the child's questions  *)
(* and the calls agree on which id is whose; a call that is out of the map *)
(* and still waits has its reply, unless the reader is over.               *)
(***************************************************************************)
IdInv ==
    /\ \A c \in Calls : call[c].pc # "idle" => call[c].id < nextId
    /\ \A c, d \in Calls : (call[c].pc # "idle" /\ call[d].pc # "idle"
                            /\ call[c].id = call[d].id) => c = d
    /\ NoPendingLeft

AnswerInv ==
    /\ answered \subseteq asked
    /\ \A q \in asked : /\ call[q.by].pc \in {"waiting", "expired", "done"}
                        /\ call[q.by].id = q.id
    /\ \A c \in Calls :
           /\ reply[c].kind = "answer" => \E q \in answered : q.by = c /\ reply[c].to = c
           /\ call[c].result # NoReply => call[c].pc = "done"
           /\ call[c].result.kind = "answer" =>
                  \E q \in answered : q.by = c /\ call[c].result.to = c

WaitInv ==
    /\ \A n \in Ids : pending[n] # NoCall => reply[pending[n]] = NoReply
    /\ \A c \in Calls : call[c].pc = "idle" => reply[c] = NoReply
    /\ \A c \in Calls :
           (call[c].pc \in {"writing", "waiting"} /\ pending[call[c].id] # c)
               => reader = "ended" \/ reply[c].kind = "answer"
    /\ \A i \in 1 .. Len(notifications), q \in Questions :
           notifications[i] = OwnAnswer(q) => q \in answered
    /\ PublishedAnswersAreLate
    /\ stopping # "no" => reader = "ended"

CallsInv == IdInv /\ AnswerInv /\ WaitInv

LEMMA CallsSafetyCaller == ASSUME CallsTypeOK, CallsInv, NEW c \in Calls, Caller(c) PROVE CallsInv'
<1>. USE DEF CallsInv, IdInv, AnswerInv, WaitInv, NoPendingLeft, PublishedAnswersAreLate
<1>0. /\ call \in [Calls -> CallRecords]
      /\ pending \in [Ids -> Calls \cup {NoCall}]
      /\ reply \in [Calls -> Replies]
      /\ asked \subseteq Questions
      /\ nextId \in Nat \ {0}
      /\ \A d \in Calls : call[d].pc # "idle" => call[d].id \in Ids
      /\ \A q \in Questions : q.by \in Calls /\ q.id \in Ids
  BY ClientBoundsAssumption DEF CallsTypeOK, ClientTypeOK, Questions
<1>1. ASSUME Register(c) PROVE CallsInv'
  <2>1. /\ call[c].pc = "idle"
        /\ nextId \in Ids /\ nextId' = nextId + 1
        /\ pending' = [pending EXCEPT ![nextId] = c]
        /\ UNCHANGED <<reply, asked, readerVars>>
    BY <1>0, <1>1, ClientBoundsAssumption DEF Register, FreshId, Ids
  <2>2. /\ call'[c].pc = "writing" /\ call'[c].id = nextId /\ call'[c].result = call[c].result
        /\ \A d \in Calls \ {c} : call'[d] = call[d]
    BY <1>0, <1>1 DEF Register, FreshId, CallRecords
  <2>3. call[c].result = NoReply
    BY <2>1
  <2>4. \A q \in asked : q.by # c
    BY <2>1
  <2>5. pending[nextId] = NoCall
    BY <1>0, <2>1
  <2>6. IdInv'
    <3>1. \A d \in Calls \ {c} : call[d].pc # "idle" => call[d].id # nextId
      BY <1>0
    <3>2. NoPendingLeft'
      BY <1>0, <2>1, <2>2
    <3>3. \A d \in Calls : call'[d].pc # "idle" => call'[d].id < nextId'
      <4>1. \A d \in Calls \ {c} : call[d].pc # "idle" => call[d].id < nextId + 1
        BY <1>0, ClientBoundsAssumption DEF Ids
      <4>. QED
        BY <1>0, <2>1, <2>2, <4>1
    <3>4. \A d, e \in Calls : (call'[d].pc # "idle" /\ call'[e].pc # "idle"
                              /\ call'[d].id = call'[e].id) => d = e
      BY <2>2, <3>1
    <3>. QED
      BY <3>2, <3>3, <3>4
  <2>7. AnswerInv'
    BY <1>0, <2>1, <2>2, <2>3, <2>4 DEF readerVars, NoReply, Failure
  <2>8. WaitInv'
    <3>1. \A d \in Calls \ {c} : call[d].pc # "idle" => call[d].id # nextId
      BY <1>0
    <3>. QED
      BY <1>0, <2>1, <2>2, <2>4, <3>1 DEF readerVars
  <2>. QED
    BY <2>6, <2>7, <2>8
<1>2. ASSUME Write(c) PROVE CallsInv'
  <2>1. /\ call[c].pc = "writing"
        /\ asked' = asked \cup {[id |-> call[c].id, by |-> c]}
        /\ UNCHANGED <<nextId, pending, reply, readerVars>>
    BY <1>2 DEF Write
  <2>2. /\ call'[c].pc = "waiting" /\ call'[c].id = call[c].id
        /\ call'[c].result = call[c].result
        /\ \A d \in Calls \ {c} : call'[d] = call[d]
    BY <1>0, <1>2 DEF Write, CallRecords
  <2>3. IdInv'
    BY <1>0, <2>1, <2>2
  <2>4. AnswerInv'
    BY <1>0, <2>1, <2>2 DEF readerVars, NoReply, Failure
  <2>5. WaitInv'
    BY <1>0, <2>1, <2>2 DEF readerVars
  <2>. QED
    BY <2>3, <2>4, <2>5
<1>3. ASSUME WriteFails(c) PROVE CallsInv'
  <2>1. /\ call[c].pc = "writing"
        /\ UNCHANGED <<nextId, pending, reply, asked, readerVars>>
    BY <1>3 DEF WriteFails
  <2>2. /\ call'[c].pc = "failed" /\ call'[c].id = call[c].id
        /\ call'[c].result = call[c].result
        /\ \A d \in Calls \ {c} : call'[d] = call[d]
    BY <1>0, <1>3 DEF WriteFails, CallRecords
  <2>3. IdInv'
    BY <1>0, <2>1, <2>2
  <2>4. AnswerInv'
    BY <1>0, <2>1, <2>2 DEF readerVars, NoReply, Failure
  <2>5. WaitInv'
    BY <1>0, <2>1, <2>2 DEF readerVars
  <2>. QED
    BY <2>3, <2>4, <2>5
<1>4. ASSUME TakeReply(c) PROVE CallsInv'
  <2>1. /\ call[c].pc = "waiting" /\ reply[c] # NoReply
        /\ UNCHANGED <<nextId, pending, reply, asked, readerVars>>
    BY <1>4 DEF TakeReply
  <2>2. /\ call'[c].pc = "done" /\ call'[c].id = call[c].id
        /\ call'[c].result = reply[c]
        /\ \A d \in Calls \ {c} : call'[d] = call[d]
    BY <1>0, <1>4 DEF TakeReply, CallRecords
  <2>3. IdInv'
    BY <1>0, <2>1, <2>2
  <2>4. AnswerInv'
    BY <1>0, <2>1, <2>2 DEF readerVars, NoReply, Failure
  <2>5. WaitInv'
    BY <1>0, <2>1, <2>2 DEF readerVars
  <2>. QED
    BY <2>3, <2>4, <2>5
<1>5. ASSUME Expire(c) PROVE CallsInv'
  <2>1. /\ call[c].pc = "waiting" /\ reply[c] = NoReply
        /\ UNCHANGED <<nextId, pending, reply, asked, readerVars>>
    BY <1>5 DEF Expire
  <2>2. /\ call'[c].pc = "expired" /\ call'[c].id = call[c].id
        /\ call'[c].result = call[c].result
        /\ \A d \in Calls \ {c} : call'[d] = call[d]
    BY <1>0, <1>5 DEF Expire, CallRecords
  <2>3. IdInv'
    BY <1>0, <2>1, <2>2
  <2>4. AnswerInv'
    BY <1>0, <2>1, <2>2 DEF readerVars, NoReply, Failure
  <2>5. WaitInv'
    BY <1>0, <2>1, <2>2 DEF readerVars
  <2>. QED
    BY <2>3, <2>4, <2>5
<1>6. ASSUME Forget(c) PROVE CallsInv'
  <2>1. /\ call[c].pc \in {"failed", "expired"}
        /\ pending' = [pending EXCEPT ![call[c].id] = NoCall]
        /\ UNCHANGED <<nextId, reply, asked, readerVars>>
    BY <1>6 DEF Forget
  <2>2. /\ call'[c].pc = "done" /\ call'[c].id = call[c].id
        /\ call'[c].result.kind # "answer"
        /\ \A d \in Calls \ {c} : call'[d] = call[d]
    BY <1>0, <1>6 DEF Forget, CallRecords, Failure
  <2>3. IdInv'
    BY <1>0, <2>1, <2>2, NoCallAssumption
  <2>4. AnswerInv'
    BY <1>0, <2>1, <2>2 DEF readerVars, NoReply, Failure
  <2>5. WaitInv'
    BY <1>0, <2>1, <2>2, NoCallAssumption DEF readerVars
  <2>. QED
    BY <2>3, <2>4, <2>5
<1>. QED
  BY <1>1, <1>2, <1>3, <1>4, <1>5, <1>6 DEF Caller, Proceed

LEMMA CallsSafetyReader == ASSUME CallsTypeOK, CallsInv, ReaderTask PROVE CallsInv'
<1>. USE DEF CallsInv, IdInv, AnswerInv, WaitInv, NoPendingLeft, PublishedAnswersAreLate
<1> DEFINE M == Notices \cup {OwnAnswer(r) : r \in Questions}
<1>0. /\ call \in [Calls -> CallRecords]
      /\ pending \in [Ids -> Calls \cup {NoCall}]
      /\ reply \in [Calls -> Replies]
      /\ asked \subseteq Questions
      /\ notifications \in Seq(M)
      /\ \A d \in Calls : call[d].pc # "idle" => call[d].id \in Ids
      /\ \A q \in Questions : q.by \in Calls /\ q.id \in Ids
  BY DEF CallsTypeOK, ClientTypeOK, Questions
<1>1. ASSUME NEW q \in Questions, ReadAnswer(q) PROVE CallsInv'
  <2>1. /\ reader = "running"
        /\ q \in asked /\ q \notin answered
        /\ answered' = answered \cup {q}
        /\ UNCHANGED <<nextId, call, asked, reader, stopping>>
    BY <1>1 DEF ReadAnswer
  <2>2. CASE pending[q.id] # NoCall
    <3>1. /\ pending' = [pending EXCEPT ![q.id] = NoCall]
          /\ reply' = [reply EXCEPT ![pending[q.id]] = [kind |-> "answer", to |-> q.by]]
          /\ UNCHANGED notifications
      BY <1>1, <2>2 DEF ReadAnswer
    <3>2. pending[q.id] = q.by
      BY <1>0, <2>1, <2>2
    <3>3. /\ reply'[q.by] = [kind |-> "answer", to |-> q.by]
          /\ \A d \in Calls \ {q.by} : reply'[d] = reply[d]
      BY <1>0, <3>1, <3>2
    <3>4. IdInv'
      BY <1>0, <2>1, <3>1, NoCallAssumption
    <3>5. AnswerInv'
      BY <1>0, <2>1, <3>3
    <3>6. WaitInv'
      <4>1. \A n \in Ids : pending'[n] # NoCall => pending'[n] = pending[n] /\ pending[n] # q.by
        BY <1>0, <3>1, <3>2, NoCallAssumption
      <4>. QED
        BY <1>0, <2>1, <3>1, <3>2, <3>3, <4>1, NoCallAssumption DEF NoReply, Failure
    <3>. QED
      BY <3>4, <3>5, <3>6
  <2>3. CASE pending[q.id] = NoCall
    <3>1. notifications' = Queued(OwnAnswer(q)) /\ UNCHANGED <<pending, reply>>
      BY <1>1, <2>3 DEF ReadAnswer
    <3>2. OwnAnswer(q) \in M
      OBVIOUS
    <3>3. /\ call[q.by].pc \in {"expired", "done"}
          /\ call[q.by].result.kind # "answer"
      <4>1. /\ call[q.by].pc \in {"waiting", "expired", "done"}
            /\ call[q.by].id = q.id
        BY <2>1
      <4>2. \A p \in answered : p.by # q.by
        <5>1. \A p \in answered : p \in Questions /\ call[p.by].id = p.id
          BY <1>0
        <5>. QED
          BY <2>1, <4>1, <5>1 DEF Questions
      <4>3. reply[q.by].kind # "answer" /\ call[q.by].result.kind # "answer"
        BY <1>0, <4>2
      <4>4. q.by # NoCall
        BY <1>0, NoCallAssumption
      <4>. QED
        BY <1>0, <2>1, <2>3, <4>1, <4>3, <4>4
    <3>4. \A r \in Questions : OwnAnswer(r) = OwnAnswer(q) => r = q
      BY DEF OwnAnswer, Questions
    <3>5. \A i \in 1 .. Len(notifications') : notifications'[i] = OwnAnswer(q)
              \/ \E j \in 1 .. Len(notifications) : notifications'[i] = notifications[j]
      BY <1>0, <3>1, <3>2, QueuedElements
    <3>. QED
      BY <1>0, <2>1, <3>1, <3>3, <3>4, <3>5
  <2>. QED
    BY <2>2, <2>3
<1>2. ASSUME NEW m \in Notices, ReadOther(m) PROVE CallsInv'
  <2>1. /\ notifications' = Queued(m)
        /\ UNCHANGED <<callVars, answered, reader, stopping>>
    BY <1>2 DEF ReadOther
  <2>2. \A i \in 1 .. Len(notifications') : notifications'[i] = m
            \/ \E j \in 1 .. Len(notifications) : notifications'[i] = notifications[j]
    BY <1>0, <2>1, QueuedElements
  <2>3. \A q \in Questions : OwnAnswer(q) # m
    BY NoticesAssumption
  <2>. QED
    BY <1>0, <2>1, <2>2, <2>3 DEF callVars
<1>3. ASSUME ReaderStops PROVE CallsInv'
  BY <1>0, <1>3 DEF ReaderStops, callVars
<1>4. ASSUME Drain PROVE CallsInv'
  BY <1>0, <1>4, NoCallAssumption DEF Drain, CloseAllPending, Failure, NoReply
<1>. QED
  BY <1>1, <1>2, <1>3, <1>4 DEF ReaderTask

LEMMA CallsSafetyStep == CallsTypeOK /\ CallsInv /\ [CallsNext]_callsVars => CallsInv'
<1>. SUFFICES ASSUME CallsTypeOK, CallsInv, [CallsNext]_callsVars PROVE CallsInv'
  OBVIOUS
<1>. USE DEF CallsInv, IdInv, AnswerInv, WaitInv, NoPendingLeft, PublishedAnswersAreLate
<1>1. ASSUME ShutdownKill PROVE CallsInv'
  BY <1>1 DEF ShutdownKill, callVars
<1>2. ASSUME ShutdownFails \/ Subscribe \/ UNCHANGED callsVars PROVE CallsInv'
  BY <1>2 DEF ShutdownFails, Subscribe, callVars, readerVars, callsVars
<1>3. ASSUME Receive PROVE CallsInv'
  <2>1. /\ notifications # <<>> /\ notifications' = Tail(notifications)
        /\ UNCHANGED <<callVars, answered, reader, stopping>>
    BY <1>3 DEF Receive
  <2>2. \A i \in 1 .. Len(notifications') :
            i + 1 \in 1 .. Len(notifications) /\ notifications'[i] = notifications[i + 1]
    BY <2>1 DEF CallsTypeOK
  <2>. QED
    BY <2>1, <2>2 DEF callVars
<1>4. ASSUME ShutdownDrain PROVE CallsInv'
  BY <1>4, NoCallAssumption DEF ShutdownDrain, CloseAllPending, CallsTypeOK, ClientTypeOK,
     Failure, NoReply
<1>. QED
  BY <1>1, <1>2, <1>3, <1>4, CallsSafetyCaller, CallsSafetyReader DEF CallsNext, Shutdown

LEMMA CallsSafetyInit == CallsInit => CallsInv
BY NoCallAssumption DEF CallsInit, ClientInit, CallsInv, IdInv, AnswerInv, WaitInv, NoPendingLeft,
   PublishedAnswersAreLate, IdleCall, NoReply, Failure

LEMMA CallsSafe == CallsSpec => []CallsInv
BY CallsSafetyInit, CallsSafetyStep, CallsTypeCorrect, PTL DEF CallsSpec

(* A call that returns an answer returns the answer to its own request.    *)
THEOREM CallsGetTheirAnswer == CallsSpec => []RightAnswer
<1>1. CallsTypeOK /\ CallsInv => RightAnswer
  BY DEF CallsInv, AnswerInv, RightAnswer
<1>. QED
  BY <1>1, CallsSafe, CallsTypeCorrect, PTL

(* The pending map never outlives a call.                                  *)
THEOREM PendingIsExact == CallsSpec => []NoPendingLeft
<1>1. CallsInv => NoPendingLeft
  BY DEF CallsInv, IdInv
<1>. QED
  BY <1>1, CallsSafe, PTL

(* Subscribers only see answers that no call takes.                        *)
THEOREM OnlyLateAnswersArePublished == CallsSpec => []PublishedAnswersAreLate
<1>1. CallsInv => PublishedAnswersAreLate
  BY DEF CallsInv, WaitInv
<1>. QED
  BY <1>1, CallsSafe, PTL

(***************************************************************************)
(* The contract.  A caller's last step returns, the reader's step that     *)
(* takes an answer serves, and everything else stutters.                   *)
(***************************************************************************)
LEMMA ContractInit == CallsInit => Contract!Init
BY DEF CallsInit, ClientInit, Contract!Init, CallOutcome, IdleCall

LEMMA ContractStep ==
    CallsTypeOK /\ CallsInv /\ [CallsNext]_callsVars => [Contract!Next]_(Contract!vars)
<1>. SUFFICES ASSUME CallsTypeOK, CallsInv, [CallsNext]_callsVars
              PROVE  [Contract!Next]_(Contract!vars)
  OBVIOUS
<1> DEFINE outcome == [c \in Calls |-> CallOutcome(c)]
           served  == {q.by : q \in answered}
<1>0. /\ call \in [Calls -> CallRecords]
      /\ answered \subseteq Questions
  BY DEF CallsTypeOK, ClientTypeOK
<1>1. ASSUME UNCHANGED <<call, answered>> PROVE UNCHANGED Contract!vars
  BY <1>1 DEF Contract!vars, CallOutcome
<1>2. ASSUME NEW c \in Calls, Register(c) PROVE Contract!Next
  <2>1. /\ call[c].pc = "idle" /\ call'[c].pc = "writing"
        /\ \A d \in Calls \ {c} : call'[d] = call[d]
        /\ UNCHANGED answered
    BY <1>0, <1>2 DEF Register, CallRecords, readerVars
  <2>2. outcome[c] = "uncalled" /\ outcome' = [outcome EXCEPT ![c] = "called"]
    BY <2>1 DEF CallOutcome
  <2>3. Contract!Call(c)
    BY <2>1, <2>2 DEF Contract!Call
  <2>. QED
    BY <2>3 DEF Contract!Next
<1>3. ASSUME NEW c \in Calls, Write(c) \/ WriteFails(c) \/ Expire(c)
      PROVE  UNCHANGED Contract!vars
  <2>1. /\ call[c].pc \in {"writing", "waiting"}
        /\ call'[c].pc \in {"waiting", "failed", "expired"}
        /\ \A d \in Calls \ {c} : call'[d] = call[d]
        /\ UNCHANGED answered
    BY <1>0, <1>3 DEF Write, WriteFails, Expire, CallRecords, readerVars
  <2>2. outcome' = outcome
    BY <2>1 DEF CallOutcome
  <2>. QED
    BY <2>1, <2>2 DEF Contract!vars
<1>4. ASSUME NEW c \in Calls, TakeReply(c) \/ Forget(c) PROVE Contract!Next
  <2>1. /\ call[c].pc \notin {"idle", "done"} /\ call'[c].pc = "done"
        /\ \A d \in Calls \ {c} : call'[d] = call[d]
        /\ UNCHANGED answered
    BY <1>0, <1>4 DEF TakeReply, Forget, CallRecords, readerVars
  <2>2. outcome[c] = "called"
    BY <2>1 DEF CallOutcome
  <2>3. CASE call'[c].result.kind = "answer"
    <3>1. TakeReply(c) /\ reply[c].kind = "answer"
      BY <1>0, <1>4, <2>3 DEF TakeReply, Forget, CallRecords, Failure
    <3>2. c \in served
      BY <3>1 DEF CallsInv, AnswerInv
    <3>3. outcome' = [outcome EXCEPT ![c] = "answer"]
      BY <2>1, <2>3 DEF CallOutcome
    <3>4. Contract!ReturnAnswer(c)
      BY <2>1, <2>2, <3>2, <3>3 DEF Contract!ReturnAnswer
    <3>. QED
      BY <3>4 DEF Contract!Next, Contract!Return
  <2>4. CASE call'[c].result.kind # "answer"
    <3>1. outcome' = [outcome EXCEPT ![c] = "error"]
      BY <2>1, <2>4 DEF CallOutcome
    <3>2. Contract!ReturnError(c)
      BY <2>1, <2>2, <3>1 DEF Contract!ReturnError
    <3>. QED
      BY <3>2 DEF Contract!Next, Contract!Return
  <2>. QED
    BY <2>3, <2>4
<1>5. ASSUME NEW q \in Questions, ReadAnswer(q) PROVE Contract!Next
  <2>1. /\ q \in asked /\ q \notin answered /\ answered' = answered \cup {q}
        /\ UNCHANGED call
    BY <1>5 DEF ReadAnswer
  <2>2. q.by \in Calls /\ q.by \notin served
    <3>1. /\ answered \subseteq asked
          /\ \A p \in asked : call[p.by].id = p.id
      BY DEF CallsInv, AnswerInv
    <3>2. \A p \in answered : p.by = q.by => p = q
      BY <1>0, <2>1, <3>1 DEF Questions
    <3>. QED
      BY <2>1, <3>2 DEF Questions
  <2>3. outcome[q.by] # "uncalled"
    BY <2>1, <2>2 DEF CallsInv, AnswerInv, CallOutcome
  <2>4. outcome' = outcome /\ served' = served \cup {q.by}
    BY <2>1 DEF CallOutcome
  <2>5. Contract!Serve(q.by)
    BY <2>2, <2>3, <2>4 DEF Contract!Serve
  <2>. QED
    BY <2>2, <2>5 DEF Contract!Next
<1>6. ASSUME \/ \E m \in Notices : ReadOther(m)
             \/ ReaderStops \/ Drain \/ Shutdown \/ Subscribe \/ Receive \/ UNCHANGED callsVars
      PROVE  UNCHANGED <<call, answered>>
  BY <1>6 DEF ReadOther, ReaderStops, Drain, Shutdown, ShutdownKill, ShutdownFails,
     ShutdownDrain, Subscribe, Receive, callVars, readerVars, callsVars
<1>. QED
  BY <1>1, <1>2, <1>3, <1>4, <1>5, <1>6 DEF CallsNext, Caller, Proceed, ReaderTask

(* request_value implements the safety part of its contract.               *)
THEOREM CallsKeepTheContract == CallsSpec => Contract!Spec
BY ContractInit, ContractStep, CallsSafe, CallsTypeCorrect, PTL DEF CallsSpec, Contract!Spec

-----------------------------------------------------------------------------
(***************************************************************************)
(* Frames: which part of the state a kind of step leaves alone.            *)
(***************************************************************************)
LEMMA HandshakeFrame ==
    ASSUME Handshake \/ AgentEnds
    PROVE  UNCHANGED <<notifications, rewritten, threadOwner, requestOwner, serverVars, sentVars>>
BY DEF Handshake, AgentEnds, StartCall, ContinueCall, Initialized, Listed, Greet, Register,
   Write, WriteFails, TakeReply, Expire, Forget, Subscribe, ShutdownKill, agentVars, readerVars

LEMMA SaysFrame ==
    ASSUME AppServer
    PROVE  UNCHANGED <<agentVars, requests, answers, sentVars>>
BY DEF AppServer, AnswersCall, AnswersBrowser, AsksBrowser, AsksSecret, Notifies, OutputEnds,
   serverVars

LEMMA MessageFields ==
    ASSUME NEW m \in Messages
    PROVE  /\ m.kind \in {"ownAnswer", "webAnswer", "serverRequest", "secretRequest",
                          "notification"}
           /\ m.kind = "webAnswer" => /\ m.key \in Keys /\ m.of \in Keys
                                      /\ m.thread \in MaybeThreads
           /\ m.kind \in {"serverRequest", "secretRequest"} => /\ m.id \in ServerIds
                                                               /\ m.thread \in MaybeThreads
BY DEF Messages, OwnAnswer

(***************************************************************************)
(* Types.                                                                  *)
(***************************************************************************)
ClientVars == <<callVars, answered, reader, stopping, subscribed>>

LEMMA ClientUnchanged ==
    ASSUME ClientTypeOK, UNCHANGED ClientVars PROVE ClientTypeOK'
BY DEF ClientTypeOK, ClientVars, callVars

LEMMA HandshakeTypes == ASSUME TypeOK, Handshake \/ AgentEnds PROVE TypeOK'
<1>1. ClientTypeOK
  BY DEF TypeOK
<1>2. ClientTypeOK'
  <2>1. ASSUME NEW c \in Calls, StartCall(c) \/ ContinueCall(c) PROVE ClientTypeOK'
    BY <1>1, <2>1, CallTypes DEF StartCall, ContinueCall
  <2>2. ASSUME Initialized \/ Listed PROVE ClientTypeOK'
    BY <1>1, <2>2, ClientUnchanged DEF Initialized, Listed, ClientVars, readerVars
  <2>3. ASSUME Greet \/ AgentEnds PROVE ClientTypeOK'
    BY <1>1, <2>3, ControlTypes DEF Greet, AgentEnds
  <2>. QED
    BY <2>1, <2>2, <2>3 DEF Handshake
<1>3. phase' \in {"initialize", "list", "hello", "serving", "ended"}
  BY DEF Handshake, AgentEnds, StartCall, ContinueCall, Initialized, Listed, Greet,
     agentVars, TypeOK
<1>. QED
  BY <1>2, <1>3, HandshakeFrame DEF TypeOK, serverVars, sentVars

LEMMA AppServerTypes == ASSUME TypeOK, AppServer PROVE TypeOK'
<1>0. ClientTypeOK /\ notifications \in Seq(Messages)
  BY DEF TypeOK
<1>1. ASSUME NEW m \in Messages, ReadOther(m)
      PROVE  ClientTypeOK' /\ notifications' \in Seq(Messages)
  <2>1. Queued(m) \in Seq(Messages)
    BY <1>0, QueuedType
  <2>2. notifications' \in Seq(Messages)
    BY <1>1, <2>1 DEF ReadOther
  <2>. QED
    BY <1>0, <1>1, <2>2, ReaderTypes
<1>2. ASSUME NEW q \in Questions, AnswersCall(q) PROVE TypeOK'
  <2>1. OwnAnswer(q) \in Messages
    BY DEF Messages
  <2>2. Queued(OwnAnswer(q)) \in Seq(Messages)
    BY <1>0, <2>1, QueuedType
  <2>3. notifications' \in Seq(Messages)
    BY <1>0, <1>2, <2>2 DEF AnswersCall, ReadAnswer
  <2>4. ClientTypeOK'
    BY <1>0, <1>2, ReaderTypes DEF AnswersCall
  <2>. QED
    BY <1>2, <2>3, <2>4 DEF AnswersCall, TypeOK, agentVars, serverVars, sentVars
<1>3. ASSUME NEW n \in Keys, NEW t \in MaybeThreads, AnswersBrowser(n, t) PROVE TypeOK'
  <2>1. requests[n].key \in Keys /\ n \in 1 .. Len(requests)
    <3>1. n \in 1 .. Len(requests)
      BY <1>3 DEF AnswersBrowser
    <3>2. requests[n] \in Requests
      BY <3>1 DEF TypeOK
    <3>. QED
      BY <3>1, <3>2 DEF Requests
  <2>2. WebAnswer(n, t) \in Messages
    BY <2>1 DEF WebAnswer, Messages
  <2>3. ClientTypeOK' /\ notifications' \in Seq(Messages)
    BY <1>1, <1>3, <2>2 DEF AnswersBrowser
  <2>4. replied' \in SUBSET (1 .. Len(requests')) /\ known' \in SUBSET Threads
    BY <1>3, <2>1 DEF AnswersBrowser, TypeOK, MaybeThreads
  <2>. QED
    BY <1>3, <2>3, <2>4 DEF AnswersBrowser, TypeOK, agentVars, sentVars
<1>4. ASSUME NEW i \in ServerIds, NEW t \in MaybeThreads, AsksBrowser(i, t) PROVE TypeOK'
  <2>1. ServerRequest(i, t) \in Messages
    BY DEF ServerRequest, Messages
  <2>2. ClientTypeOK' /\ notifications' \in Seq(Messages)
    BY <1>1, <1>4, <2>1 DEF AsksBrowser
  <2>. QED
    BY <1>4, <2>2 DEF AsksBrowser, TypeOK, agentVars, sentVars
<1>5. ASSUME NEW i \in ServerIds, AsksSecret(i) PROVE TypeOK'
  <2>1. SecretRequest(i) \in Messages
    BY DEF SecretRequest, Messages, MaybeThreads
  <2>2. ClientTypeOK' /\ notifications' \in Seq(Messages)
    BY <1>1, <1>5, <2>1 DEF AsksSecret
  <2>. QED
    BY <1>5, <2>2 DEF AsksSecret, TypeOK, agentVars, sentVars, MaybeThreads
<1>6. ASSUME NEW t \in MaybeThreads, Notifies(t) PROVE TypeOK'
  <2>1. Notification(t) \in Messages
    BY DEF Notification, Messages
  <2>2. ClientTypeOK' /\ notifications' \in Seq(Messages)
    BY <1>1, <1>6, <2>1 DEF Notifies
  <2>. QED
    BY <1>6, <2>2 DEF Notifies, TypeOK, agentVars, serverVars, sentVars
<1>7. ASSUME OutputEnds PROVE TypeOK'
  <2>1. ClientTypeOK' /\ UNCHANGED notifications
    BY <1>0, <1>7, ReaderTypes DEF OutputEnds, ReaderStops, Drain
  <2>. QED
    BY <1>7, <2>1 DEF OutputEnds, TypeOK, agentVars, serverVars, sentVars
<1>. QED
  BY <1>2, <1>3, <1>4, <1>5, <1>6, <1>7 DEF AppServer

LEMMA ClaimType ==
    ASSUME TypeOK, NEW t, NEW s \in Sessions
    PROVE  ClaimThreadOwner(threadOwner, t, s) \in [Threads -> Sessions \cup {NoSession}]
BY DEF TypeOK, ClaimThreadOwner

LEMMA BrowserTypes == ASSUME TypeOK, FromBrowser PROVE TypeOK'
<1>1. ASSUME NEW s \in Sessions, NEW id \in BrowserIds, NEW t \in MaybeThreads,
             NEW starts \in BOOLEAN, BrowserRequest(s, id, t, starts)
      PROVE  TypeOK'
  <2>1. FreshKey(s, id) \in Keys
    BY <1>1, MaxRequestsAssumption DEF BrowserRequest, FreshKey, Keys, TypeOK
  <2>2. rewritten' \in [Keys -> Entries \cup {NoEntry}]
    BY <1>1, <2>1 DEF BrowserRequest, TypeOK, Entries
  <2>3. /\ requests' \in Seq(Requests) /\ Len(requests') <= MaxRequests
        /\ Len(requests') = Len(requests) + 1
    <3>1. [session |-> s, id |-> id, key |-> FreshKey(s, id),
           thread |-> t, starts |-> starts] \in Requests
      BY <2>1 DEF Requests, MaybeThreads
    <3>. QED
      BY <1>1, <3>1, MaxRequestsAssumption DEF BrowserRequest, TypeOK
  <2>4. replied' \in SUBSET (1 .. Len(requests'))
    BY <1>1, <2>3 DEF BrowserRequest, TypeOK
  <2>5. threadOwner' \in [Threads -> Sessions \cup {NoSession}]
    BY <1>1, ClaimType DEF BrowserRequest
  <2>6. ClientTypeOK'
    BY <1>1, ClientUnchanged DEF BrowserRequest, TypeOK, ClientVars, readerVars
  <2>. QED
    BY <1>1, <2>2, <2>3, <2>4, <2>5, <2>6 DEF BrowserRequest, TypeOK, readerVars, sentVars
<1>2. ASSUME NEW s \in Sessions, NEW i \in ServerIds, BrowserResponse(s, i) PROVE TypeOK'
  <2>1. answers' \in [ServerIds -> Seq(Sessions \cup {Agent})]
    <3>1. Append(answers[i], s) \in Seq(Sessions \cup {Agent})
      BY DEF TypeOK
    <3>. QED
      BY <1>2, <3>1 DEF BrowserResponse, TypeOK
  <2>2. ClientTypeOK'
    BY <1>2, ClientUnchanged DEF BrowserResponse, TypeOK, ClientVars, readerVars
  <2>. QED
    BY <1>2, <2>1, <2>2 DEF BrowserResponse, TypeOK, readerVars, sentVars
<1>. QED
  BY <1>1, <1>2 DEF FromBrowser

LEMMA HeadType ==
    ASSUME TypeOK, NEW m, NextMessage(m)
    PROVE  /\ m \in Messages /\ ClientTypeOK'
           /\ notifications' \in Seq(Messages) /\ phase' = phase
BY ClientUnchanged DEF NextMessage, TypeOK, ClientVars

LEMMA MessageTypes == ASSUME TypeOK, FromAppServer PROVE TypeOK'
<1>. PICK m : \/ ForwardAnswer(m) \/ PublishAnswer(m) \/ RefuseRequest(m)
              \/ ForwardRequest(m) \/ ForwardNotification(m)
  BY DEF FromAppServer
<1>0. /\ m \in Messages /\ ClientTypeOK'
      /\ notifications' \in Seq(Messages) /\ phase' = phase
  BY HeadType DEF ForwardAnswer, PublishAnswer, RefuseRequest, ForwardRequest,
     ForwardNotification
<1>1. CASE ForwardAnswer(m)
  <2> DEFINE asker == rewritten[m.key]
  <2>1. m.key \in Keys /\ m.of \in Keys /\ asker # NoEntry
    BY <1>0, <1>1, MessageFields DEF ForwardAnswer, IsBrowserAnswer
  <2>2. asker \in Entries
    BY <2>1 DEF TypeOK
  <2>3. asker.session \in Sessions /\ asker.id \in BrowserIds
    BY <2>2 DEF Entries
  <2> HIDE DEF asker
  <2>4. threadOwner' \in [Threads -> Sessions \cup {NoSession}]
    BY <1>1, <2>3, ClaimType DEF ForwardAnswer, asker
  <2>5. delivered' \in SUBSET [of : Keys, to : Sessions, id : BrowserIds]
    BY <1>1, <2>1, <2>3 DEF ForwardAnswer, TypeOK, asker
  <2>6. rewritten' \in [Keys -> Entries \cup {NoEntry}]
    BY <1>1 DEF ForwardAnswer, TypeOK
  <2>. QED
    BY <1>0, <1>1, <2>4, <2>5, <2>6 DEF ForwardAnswer, TypeOK, serverVars
<1>2. CASE PublishAnswer(m)
  BY <1>0, <1>2 DEF PublishAnswer, TypeOK, serverVars
<1>3. CASE RefuseRequest(m)
  <2>1. m.id \in ServerIds
    BY <1>0, <1>3, MessageFields DEF RefuseRequest
  <2>2. Append(answers[m.id], Agent) \in Seq(Sessions \cup {Agent})
    BY <2>1 DEF TypeOK
  <2>3. answers' \in [ServerIds -> Seq(Sessions \cup {Agent})]
    BY <1>3, <2>2 DEF RefuseRequest, TypeOK
  <2>. QED
    BY <1>0, <1>3, <2>3 DEF RefuseRequest, TypeOK, sentVars
<1>4. CASE ForwardRequest(m)
  <2>1. m.thread \in MaybeThreads
    BY <1>0, <1>4, MessageFields DEF ForwardRequest
  <2>2. OwnerOf(m.thread) \in Sessions \cup {NoSession}
    BY <2>1 DEF OwnerOf, TypeOK, MaybeThreads
  <2>. QED
    BY <1>0, <1>4, <2>2 DEF ForwardRequest, TypeOK, serverVars
<1>5. CASE ForwardNotification(m)
  BY <1>0, <1>5 DEF ForwardNotification, TypeOK, serverVars, sentVars
<1>. QED
  BY <1>1, <1>2, <1>3, <1>4, <1>5

LEMMA TypeStep == TypeOK /\ [Next]_vars => TypeOK'
<1>. SUFFICES ASSUME TypeOK, [Next]_vars PROVE TypeOK'
  OBVIOUS
<1>1. ASSUME UNCHANGED vars PROVE TypeOK'
  BY <1>1 DEF vars, callVars, readerVars, agentVars, serverVars, sentVars, TypeOK, ClientTypeOK
<1>. QED
  BY <1>1, HandshakeTypes, AppServerTypes, BrowserTypes, MessageTypes DEF Next

(* Every variable keeps its type, for any sets of sessions and threads and *)
(* any bounds.                                                             *)
THEOREM TypeCorrect == Spec => []TypeOK
<1>1. Init => TypeOK
  BY ClientInitTypes, MaxRequestsAssumption DEF Init, TypeOK
<1>. QED
  BY <1>1, TypeStep, PTL DEF Spec

(***************************************************************************)
(* The inductive invariant.                                                *)
(*                                                                         *)
(* QueueInv: a message in the broadcast channel still has its effect ahead *)
(* of it, and no two messages there are about the same request.            *)
(*                                                                         *)
(* HomeInv: rewritten_ids agrees with the requests, has every one that the *)
(* App Server has not answered, and none whose session has its answer.     *)
(*                                                                         *)
(* OwnerInv, CardInv: threads are owned by the session whose requests name *)
(* them, and a card is with the owner of its thread until it is answered.  *)
(***************************************************************************)
IsRequest(m) == m.kind \in {"serverRequest", "secretRequest"}

Waiting(m) ==
    /\ m.kind = "webAnswer" =>
           m.of \in replied /\ m.key = m.of /\ rewritten[m.of] # NoEntry
    /\ IsRequest(m) =>
           asks[m.id] = m.thread /\ told[m.id] = NoSession /\ answers[m.id] = <<>>

Apart(m, x) ==
    /\ (m.kind = "webAnswer" /\ x.kind = "webAnswer") => m.of # x.of
    /\ (IsRequest(m) /\ IsRequest(x)) => m.id # x.id

QueueInv ==
    /\ \A i \in 1 .. Len(notifications) : Waiting(notifications[i])
    /\ \A i, j \in 1 .. Len(notifications) :
           i # j => Apart(notifications[i], notifications[j])

EntryOf(n) == [session |-> requests[n].session, id |-> requests[n].id]

HomeInv ==
    /\ \A n \in 1 .. Len(requests) : requests[n].key = n
    /\ \A n \in 1 .. Len(requests) : n \notin replied => rewritten[n] # NoEntry
    /\ \A k \in Keys : rewritten[k] # NoEntry =>
           k \in 1 .. Len(requests) /\ rewritten[k] = EntryOf(k)
    /\ \A d \in delivered : /\ d.of \in replied /\ d.of \in 1 .. Len(requests)
                            /\ rewritten[d.of] = NoEntry
    /\ AnswersGoHome

OwnerInv ==
    \A n \in 1 .. Len(requests) : requests[n].thread \in Threads =>
        threadOwner[requests[n].thread] = requests[n].session

CardInv ==
    /\ \A i \in ServerIds :
           /\ told[i] # NoSession =>
                  asks[i] \in Threads /\ threadOwner[asks[i]] = told[i]
           /\ asks[i] = Unmade => told[i] = NoSession /\ answers[i] = <<>>
           /\ requestOwner[i] # NoSession =>
                  requestOwner[i] = told[i] /\ answers[i] = <<>>
    /\ AnsweredOnceByItsReader

SafetyInv == QueueInv /\ HomeInv /\ OwnerInv /\ CardInv

(***************************************************************************)
(* Queue steps: a message is added, one is taken, or neither.              *)
(***************************************************************************)
LEMMA QueueKept ==
    ASSUME TypeOK, QueueInv, notifications' = notifications,
           \A x \in Messages : Waiting(x) => Waiting(x)'
    PROVE  QueueInv'
BY DEF QueueInv, TypeOK

\* The next message has its effect ahead of it.
LEMMA HeadWaits ==
    ASSUME TypeOK, QueueInv, NEW m, NextMessage(m) PROVE m \in Messages /\ Waiting(m)
BY HeadType DEF NextMessage, QueueInv, TypeOK

LEMMA QueueFromMembers ==
    ASSUME notifications' \in Seq(Messages),
           \A i \in 1 .. Len(notifications'), x \in Messages :
               x = notifications'[i] => Waiting(x)',
           \A i, j \in 1 .. Len(notifications') :
               i # j => Apart(notifications'[i], notifications'[j])
    PROVE  QueueInv'
<1>1. \A i \in 1 .. Len(notifications') : notifications'[i] \in Messages
  OBVIOUS
<1>2. (\A i \in 1 .. Len(notifications) : Waiting(notifications[i]))'
  BY <1>1 DEF Waiting, IsRequest
<1>3. (\A i, j \in 1 .. Len(notifications) :
          i # j => Apart(notifications[i], notifications[j]))'
  BY DEF Apart, IsRequest
<1>. QED
  BY <1>2, <1>3 DEF QueueInv

LEMMA QueueTaken ==
    ASSUME TypeOK, QueueInv, NEW m, NextMessage(m),
           \A x \in Messages : Waiting(x) /\ Apart(m, x) => Waiting(x)'
    PROVE  QueueInv'
<1>1. notifications \in Seq(Messages) /\ notifications # <<>> /\ m = notifications[1]
  BY DEF TypeOK, NextMessage
<1>2. /\ notifications' \in Seq(Messages)
      /\ Len(notifications') = Len(notifications) - 1
      /\ \A i \in 1 .. Len(notifications') : notifications'[i] = notifications[i + 1]
  BY <1>1 DEF NextMessage
<1>3. \A i \in 1 .. Len(notifications') :
          i + 1 \in 1 .. Len(notifications) /\ i + 1 # 1 /\ 1 \in 1 .. Len(notifications)
  BY <1>1, <1>2
<1>4. \A i \in 1 .. Len(notifications'), x \in Messages :
          x = notifications'[i] => Waiting(x)'
  <2>. TAKE i \in 1 .. Len(notifications'), x \in Messages
  <2>1. x = notifications'[i] => Waiting(x) /\ Apart(m, x)
    BY <1>1, <1>2, <1>3 DEF QueueInv
  <2>. QED
    BY <2>1
<1>5. \A i, j \in 1 .. Len(notifications') :
          i # j => Apart(notifications'[i], notifications'[j])
  BY <1>2, <1>3 DEF QueueInv
<1>. QED
  BY <1>2, <1>4, <1>5, QueueFromMembers

LEMMA QueueAdded ==
    ASSUME TypeOK, QueueInv, NEW m \in Messages, notifications' = Queued(m),
           \A x \in Messages : Waiting(x) => Waiting(x)',
           Waiting(m)',
           \A x \in Messages : Waiting(x) => Apart(m, x)
    PROVE  QueueInv'
<1>1. notifications \in Seq(Messages)
  BY DEF TypeOK
<1>2. PICK shift \in {0, 1} : \A i \in 1 .. Len(Queued(m)) :
               \/ /\ i + shift \in 1 .. Len(notifications)
                  /\ Queued(m)[i] = notifications[i + shift]
               \/ i = Len(Queued(m)) /\ Queued(m)[i] = m
  BY <1>1, QueuedOrder
<1>3. \A i \in 1 .. Len(notifications) :
          /\ notifications[i] \in Messages /\ Waiting(notifications[i])
          /\ Apart(m, notifications[i])
  BY <1>1 DEF QueueInv
<1>4. \A i \in 1 .. Len(notifications'), x \in Messages :
          x = notifications'[i] => Waiting(x)'
  <2>. TAKE i \in 1 .. Len(notifications'), x \in Messages
  <2>1. CASE i + shift \in 1 .. Len(notifications) /\ notifications'[i] = notifications[i + shift]
    <3>1. x = notifications'[i] => Waiting(x)
      BY <1>3, <2>1
    <3>. QED
      BY <3>1
  <2>2. CASE notifications'[i] = m
    <3>1. x = notifications'[i] => x = m
      BY <2>2
    <3>. QED
      BY <3>1
  <2>. QED
    BY <1>2, <2>1, <2>2
<1>5. \A i, j \in 1 .. Len(notifications') :
          i # j => Apart(notifications'[i], notifications'[j])
  <2>. TAKE i, j \in 1 .. Len(notifications')
  <2>. SUFFICES ASSUME i # j PROVE Apart(notifications'[i], notifications'[j])
    OBVIOUS
  <2>1. \A x : Apart(m, x) <=> Apart(x, m)
    BY DEF Apart
  <2>2. CASE i = Len(Queued(m)) /\ notifications'[i] = m
    <3>1. j + shift \in 1 .. Len(notifications) /\ notifications'[j] = notifications[j + shift]
      BY <1>2, <2>2
    <3>. QED
      BY <1>3, <2>2, <3>1
  <2>3. CASE j = Len(Queued(m)) /\ notifications'[j] = m
    <3>1. i + shift \in 1 .. Len(notifications) /\ notifications'[i] = notifications[i + shift]
      BY <1>2, <2>3
    <3>. QED
      BY <1>3, <2>1, <2>3, <3>1
  <2>4. CASE /\ i + shift \in 1 .. Len(notifications) /\ j + shift \in 1 .. Len(notifications)
             /\ notifications'[i] = notifications[i + shift]
             /\ notifications'[j] = notifications[j + shift]
    BY <2>4 DEF QueueInv
  <2>. QED
    BY <1>2, <2>2, <2>3, <2>4
<1>6. notifications' \in Seq(Messages)
  BY <1>1, QueuedType
<1>. QED
  BY <1>4, <1>5, <1>6, QueueFromMembers

(***************************************************************************)
(* The ownership of a thread never moves.                                  *)
(***************************************************************************)
LEMMA ClaimKeepsOwners ==
    ASSUME TypeOK, NEW t, NEW s
    PROVE  /\ \A u \in Threads : threadOwner[u] # NoSession =>
                  ClaimThreadOwner(threadOwner, t, s)[u] = threadOwner[u]
           /\ t \in Threads /\ threadOwner[t] \in {NoSession, s} =>
                  ClaimThreadOwner(threadOwner, t, s)[t] = s
BY DEF TypeOK, ClaimThreadOwner

LEMMA OwnersStay ==
    ASSUME TypeOK, Next
    PROVE  \A u \in Threads : threadOwner[u] # NoSession => threadOwner'[u] = threadOwner[u]
<1>1. ASSUME FromBrowser
      PROVE  \A u \in Threads : threadOwner[u] # NoSession => threadOwner'[u] = threadOwner[u]
  <2>1. ASSUME NEW s \in Sessions, NEW id \in BrowserIds, NEW t \in MaybeThreads,
               NEW starts \in BOOLEAN, BrowserRequest(s, id, t, starts)
        PROVE  \A u \in Threads : threadOwner[u] # NoSession => threadOwner'[u] = threadOwner[u]
    BY <2>1, ClaimKeepsOwners DEF BrowserRequest
  <2>2. ASSUME NEW s \in Sessions, NEW i \in ServerIds, BrowserResponse(s, i)
        PROVE  UNCHANGED threadOwner
    BY <2>2 DEF BrowserResponse
  <2>. QED
    BY <1>1, <2>1, <2>2 DEF FromBrowser
<1>2. ASSUME FromAppServer
      PROVE  \A u \in Threads : threadOwner[u] # NoSession => threadOwner'[u] = threadOwner[u]
  BY <1>2, ClaimKeepsOwners DEF FromAppServer, ForwardAnswer, PublishAnswer, RefuseRequest,
     ForwardRequest, ForwardNotification
<1>. QED
  BY <1>1, <1>2, HandshakeFrame, SaysFrame DEF Next, agentVars

LEMMA RequestsGrow ==
    ASSUME Next
    PROVE  \/ UNCHANGED requests
           \/ \E s \in Sessions, id \in BrowserIds, t \in MaybeThreads, starts \in BOOLEAN :
                  BrowserRequest(s, id, t, starts)
BY HandshakeFrame, SaysFrame DEF Next, FromBrowser, BrowserResponse, FromAppServer,
   ForwardAnswer, PublishAnswer, RefuseRequest, ForwardRequest, ForwardNotification, serverVars

LEMMA RequestAdded ==
    ASSUME TypeOK, NEW s \in Sessions, NEW id \in BrowserIds, NEW t \in MaybeThreads,
           NEW starts \in BOOLEAN, BrowserRequest(s, id, t, starts)
    PROVE  /\ Len(requests) + 1 \in Keys
           /\ Len(requests') = Len(requests) + 1
           /\ \A n \in 1 .. Len(requests) : requests'[n] = requests[n]
           /\ requests'[Len(requests) + 1] =
                  [session |-> s, id |-> id, key |-> Len(requests) + 1,
                   thread |-> t, starts |-> starts]
BY MaxRequestsAssumption DEF TypeOK, BrowserRequest, FreshKey, Keys

LEMMA OwnerStep ==
    ASSUME TypeOK, OwnerInv, Next PROVE OwnerInv'
<1>0. \A n \in 1 .. Len(requests) : requests[n].session \in Sessions
  <2>1. \A n \in 1 .. Len(requests) : requests[n] \in Requests
    BY DEF TypeOK
  <2>. QED
    BY <2>1 DEF Requests
<1>1. \A n \in 1 .. Len(requests) : requests[n].thread \in Threads =>
          threadOwner'[requests[n].thread] = requests[n].session
  BY <1>0, OwnersStay, AgentNullsAssumption DEF OwnerInv
<1>2. CASE UNCHANGED requests
  BY <1>1, <1>2 DEF OwnerInv
<1>3. ASSUME NEW s \in Sessions, NEW id \in BrowserIds, NEW t \in MaybeThreads,
             NEW starts \in BOOLEAN, BrowserRequest(s, id, t, starts)
      PROVE  OwnerInv'
  <2>1. t \in Threads => threadOwner'[t] = s
    BY <1>3, ClaimKeepsOwners, AgentNullsAssumption
       DEF BrowserRequest, MayUseThread, OwnerOf
  <2>2. Len(requests) \in Nat
    BY DEF TypeOK
  <2>3. ASSUME NEW n \in 1 .. Len(requests'), requests'[n].thread \in Threads
        PROVE  threadOwner'[requests'[n].thread] = requests'[n].session
    <3>0. /\ Len(requests') = Len(requests) + 1
          /\ \A k \in 1 .. Len(requests) : requests'[k] = requests[k]
          /\ requests'[Len(requests) + 1].thread = t
          /\ requests'[Len(requests) + 1].session = s
      <4>1. /\ Len(requests') = Len(requests) + 1
            /\ \A k \in 1 .. Len(requests) : requests'[k] = requests[k]
            /\ requests'[Len(requests) + 1] =
                  [session |-> s, id |-> id, key |-> Len(requests) + 1,
                   thread |-> t, starts |-> starts]
        BY <1>3, RequestAdded, Zenon
      <4>. QED
        BY <4>1
    <3>1. CASE n \in 1 .. Len(requests)
      BY <1>1, <2>3, <3>0, <3>1
    <3>2. CASE n = Len(requests) + 1
      BY <2>1, <2>3, <3>0, <3>2
    <3>. QED
      BY <2>2, <3>0, <3>1, <3>2
  <2>. QED
    BY <2>3 DEF OwnerInv
<1>. QED
  BY <1>2, <1>3, RequestsGrow

(***************************************************************************)
(* Cards.                                                                  *)
(***************************************************************************)
LEMMA CardStep ==
    ASSUME TypeOK, QueueInv, CardInv, Next PROVE CardInv'
<1>. USE DEF CardInv, AnsweredOnceByItsReader
<1>0. \A i \in ServerIds : told[i] # NoSession =>
          asks[i] \in Threads /\ threadOwner'[asks[i]] = told[i]
  BY OwnersStay
<1>1. CASE UNCHANGED <<requestOwner, asks, answers, told>>
  BY <1>0, <1>1
<1>2. CASE AppServer
  <2>1. UNCHANGED <<requestOwner, answers, told>>
    BY <1>2, SaysFrame DEF agentVars, sentVars
  <2>2. \A i \in ServerIds : asks'[i] = asks[i] \/ (asks[i] = Unmade /\ asks'[i] # Unmade)
    BY <1>2, AgentNullsAssumption DEF AppServer, AnswersCall, AnswersBrowser, AsksBrowser,
       AsksSecret, Notifies, OutputEnds, serverVars, TypeOK
  <2>. QED
    BY <1>0, <2>1, <2>2
<1>3. ASSUME NEW s \in Sessions, NEW i \in ServerIds, BrowserResponse(s, i) PROVE CardInv'
  <2>1. requestOwner[i] = told[i] /\ answers[i] = <<>>
    BY <1>3 DEF BrowserResponse
  <2>2. requestOwner' = [requestOwner EXCEPT ![i] = NoSession] /\ UNCHANGED <<asks, told>>
    BY <1>3 DEF BrowserResponse, sentVars
  <2>3. CASE answers' = answers
    BY <1>0, <2>1, <2>2, <2>3 DEF TypeOK
  <2>4. CASE requestOwner[i] = s /\ answers' = [answers EXCEPT ![i] = Append(@, s)]
    <3>1. Append(answers[i], s) = <<s>>
      BY <2>1
    <3>2. answers' = [answers EXCEPT ![i] = <<s>>]
      BY <2>4, <3>1
    <3>3. told[i] = s /\ s # NoSession
      BY <2>1, <2>4, AgentNullsAssumption
    <3>. QED
      BY <1>0, <2>1, <2>2, <3>2, <3>3 DEF TypeOK
  <2>. QED
    BY <1>3, <2>3, <2>4 DEF BrowserResponse
<1>4. ASSUME NEW m, RefuseRequest(m) PROVE CardInv'
  <2>1. m.id \in ServerIds /\ Waiting(m) /\ IsRequest(m) /\ m.thread # Unmade
    BY <1>4, HeadType, MessageFields, AgentNullsAssumption
       DEF RefuseRequest, NextMessage, QueueInv, IsRequest, TypeOK, MaybeThreads
  <2>2. asks[m.id] = m.thread /\ told[m.id] = NoSession /\ answers[m.id] = <<>>
    BY <2>1 DEF Waiting
  <2>3. requestOwner[m.id] = NoSession
    BY <2>1, <2>2
  <2>4. answers' = [answers EXCEPT ![m.id] = <<Agent>>] /\ UNCHANGED <<requestOwner, asks, told>>
    BY <1>4, <2>2 DEF RefuseRequest, sentVars
  <2>. QED
    BY <1>0, <2>1, <2>2, <2>3, <2>4 DEF TypeOK
<1>5. ASSUME NEW m, ForwardRequest(m) PROVE CardInv'
  <2>1. m.id \in ServerIds /\ Waiting(m) /\ IsRequest(m) /\ m.thread \in MaybeThreads
    BY <1>5, HeadType, MessageFields
       DEF ForwardRequest, NextMessage, QueueInv, IsRequest, TypeOK
  <2>2. asks[m.id] = m.thread /\ told[m.id] = NoSession /\ answers[m.id] = <<>>
    BY <2>1 DEF Waiting
  <2>3. m.thread \in Threads /\ threadOwner[m.thread] = OwnerOf(m.thread)
    BY <1>5, <2>1 DEF ForwardRequest, OwnerOf, MaybeThreads
  <2>4. /\ requestOwner' = [requestOwner EXCEPT ![m.id] = OwnerOf(m.thread)]
        /\ told' = [told EXCEPT ![m.id] = OwnerOf(m.thread)]
        /\ UNCHANGED <<threadOwner, asks, answers>>
    BY <1>5 DEF ForwardRequest, serverVars
  <2>5. OwnerOf(m.thread) # NoSession /\ m.thread # Unmade
    BY <1>5, <2>3, AgentNullsAssumption DEF ForwardRequest
  <2>. QED
    BY <2>1, <2>2, <2>3, <2>4, <2>5 DEF TypeOK
<1>. QED
  BY <1>1, <1>2, <1>3, <1>4, <1>5, HandshakeFrame
     DEF Next, FromBrowser, BrowserRequest, FromAppServer, ForwardAnswer, PublishAnswer,
         ForwardNotification, serverVars, sentVars

(***************************************************************************)
(* The queue.                                                              *)
(***************************************************************************)
LEMMA QueueSaysStep ==
    ASSUME TypeOK, QueueInv, HomeInv, CardInv, AppServer PROVE QueueInv'
<1>0. UNCHANGED <<rewritten, requests, answers, told>>
  BY SaysFrame DEF agentVars, sentVars
<1>1. ASSUME NEW q \in Questions, AnswersCall(q) PROVE QueueInv'
  <2>1. \A x \in Messages : Waiting(x) => Waiting(x)'
    BY <1>1 DEF AnswersCall, serverVars, agentVars, sentVars, Waiting, IsRequest
  <2>2. CASE UNCHANGED notifications
    BY <2>1, <2>2, QueueKept
  <2>3. CASE notifications' = Queued(OwnAnswer(q))
    <3>1. OwnAnswer(q) \in Messages /\ OwnAnswer(q).kind = "ownAnswer"
      BY DEF Messages, OwnAnswer
    <3>2. Waiting(OwnAnswer(q))' /\ \A x : Apart(OwnAnswer(q), x)
      BY <3>1 DEF OwnAnswer, Waiting, IsRequest, Apart
    <3>. QED
      BY <2>1, <2>3, <3>1, <3>2, QueueAdded
  <2>. QED
    BY <1>1, <2>2, <2>3 DEF AnswersCall, ReadAnswer
<1>2. ASSUME NEW n \in Keys, NEW t \in MaybeThreads, AnswersBrowser(n, t) PROVE QueueInv'
  <2> DEFINE m == WebAnswer(n, t)
  <2>1. /\ n \in 1 .. Len(requests) /\ n \notin replied
        /\ notifications' = Queued(m)
        /\ replied' = replied \cup {n}
        /\ UNCHANGED asks
    BY <1>2 DEF AnswersBrowser, ReadOther
  <2>2. m.kind = "webAnswer" /\ m.of = n /\ m.key = n
    BY <2>1 DEF WebAnswer, HomeInv
  <2>3. m \in Messages
    BY <2>1, <2>2 DEF WebAnswer, Messages, HomeInv
  <2> HIDE DEF m
  <2>4. \A x \in Messages : Waiting(x) => Waiting(x)'
    BY <1>0, <2>1 DEF Waiting, IsRequest
  <2>5. rewritten[n] # NoEntry
    BY <2>1 DEF HomeInv
  <2>6. \A x \in Messages : x = m => Waiting(x)'
    BY <1>0, <2>1, <2>2, <2>5 DEF Waiting, IsRequest
  <2>7. \A x \in Messages : Waiting(x) => Apart(m, x)
    BY <2>1, <2>2 DEF Waiting, Apart, IsRequest
  <2>. QED
    BY <2>1, <2>3, <2>4, <2>6, <2>7, QueueAdded
<1>3. ASSUME NEW m \in Messages, IsRequest(m), asks[m.id] = Unmade, ReadOther(m),
             asks' = [asks EXCEPT ![m.id] = m.thread], UNCHANGED replied
      PROVE  QueueInv'
  <2>1. m.id \in ServerIds /\ m.thread \in MaybeThreads /\ m.kind # "webAnswer"
    BY <1>3, MessageFields DEF IsRequest
  <2>2. \A x \in Messages : IsRequest(x) => x.id \in ServerIds /\ x.thread # Unmade
    BY MessageFields, AgentNullsAssumption DEF IsRequest, MaybeThreads
  <2>3. \A x \in Messages : Waiting(x) => Waiting(x)'
    BY <1>0, <1>3, <2>2 DEF Waiting, IsRequest, TypeOK
  <2>4. Waiting(m)'
    <3>1. asks'[m.id] = m.thread
      BY <1>3, <2>1 DEF TypeOK
    <3>2. told[m.id] = NoSession /\ answers[m.id] = <<>>
      BY <1>3, <2>1 DEF CardInv
    <3>. QED
      BY <1>0, <2>1, <3>1, <3>2 DEF Waiting, IsRequest
  <2>5. \A x \in Messages : Waiting(x) => Apart(m, x)
    BY <1>3, <2>1, <2>2 DEF Waiting, Apart
  <2>. QED
    BY <1>3, <2>3, <2>4, <2>5, QueueAdded DEF ReadOther
<1>4. ASSUME NEW i \in ServerIds, NEW t \in MaybeThreads, AsksBrowser(i, t) PROVE QueueInv'
  <2> DEFINE m == ServerRequest(i, t)
  <2>1. m \in Messages /\ IsRequest(m) /\ m.id = i /\ m.thread = t
    BY DEF ServerRequest, Messages, IsRequest
  <2>2. /\ asks[m.id] = Unmade /\ ReadOther(m)
        /\ asks' = [asks EXCEPT ![m.id] = m.thread] /\ UNCHANGED replied
    BY <1>4, <2>1 DEF AsksBrowser
  <2> HIDE DEF m
  <2>. QED
    BY <1>3, <2>1, <2>2
<1>5. ASSUME NEW i \in ServerIds, AsksSecret(i) PROVE QueueInv'
  <2> DEFINE m == SecretRequest(i)
  <2>1. m \in Messages /\ IsRequest(m) /\ m.id = i /\ m.thread = NoThread
    BY DEF SecretRequest, Messages, IsRequest, MaybeThreads
  <2>2. /\ asks[m.id] = Unmade /\ ReadOther(m)
        /\ asks' = [asks EXCEPT ![m.id] = m.thread] /\ UNCHANGED replied
    BY <1>5, <2>1 DEF AsksSecret
  <2> HIDE DEF m
  <2>. QED
    BY <1>3, <2>1, <2>2
<1>6. ASSUME NEW t \in MaybeThreads, Notifies(t) PROVE QueueInv'
  <2> DEFINE m == Notification(t)
  <2>1. m \in Messages /\ m.kind = "notification"
    BY DEF Notification, Messages
  <2>2. notifications' = Queued(m) /\ UNCHANGED <<replied, asks>>
    BY <1>6 DEF Notifies, ReadOther, serverVars
  <2> HIDE DEF m
  <2>3. \A x \in Messages : Waiting(x) => Waiting(x)'
    BY <1>0, <2>2 DEF Waiting, IsRequest
  <2>4. \A x \in Messages : x = m => Waiting(x)' /\ \A y : Apart(x, y)
    BY <2>1 DEF Waiting, IsRequest, Apart
  <2>. QED
    BY <2>1, <2>2, <2>3, <2>4, QueueAdded
<1>7. ASSUME OutputEnds PROVE QueueInv'
  <2>1. UNCHANGED <<notifications, replied, asks>>
    BY <1>7 DEF OutputEnds, ReaderStops, Drain, serverVars
  <2>. QED
    BY <1>0, <2>1, QueueKept DEF Waiting, IsRequest
<1>. QED
  BY <1>1, <1>2, <1>4, <1>5, <1>6, <1>7 DEF AppServer

LEMMA QueueStep ==
    ASSUME TypeOK, QueueInv, HomeInv, CardInv, Next PROVE QueueInv'
<1>1. CASE Handshake \/ AgentEnds
  BY <1>1, HandshakeFrame, QueueKept DEF serverVars, sentVars, Waiting, IsRequest
<1>2. CASE AppServer
  BY <1>2, QueueSaysStep
<1>3. ASSUME NEW s \in Sessions, NEW id \in BrowserIds, NEW t \in MaybeThreads,
             NEW starts \in BOOLEAN, BrowserRequest(s, id, t, starts)
      PROVE  QueueInv'
  <2>1. /\ UNCHANGED <<notifications, replied, asks, answers, told>>
        /\ rewritten' = [rewritten EXCEPT ![FreshKey(s, id)] = [session |-> s, id |-> id]]
    BY <1>3 DEF BrowserRequest, readerVars, sentVars
  <2>2. FreshKey(s, id) = Len(requests) + 1 /\ Len(requests) \in Nat
    BY DEF FreshKey, TypeOK
  <2>3. Len(requests) + 1 \notin replied
    BY <2>2 DEF TypeOK
  <2>4. \A x \in Messages : Waiting(x) => Waiting(x)'
    BY <2>1, <2>2, <2>3, MessageFields DEF Waiting, IsRequest, TypeOK
  <2>. QED
    BY <2>1, <2>4, QueueKept
<1>4. ASSUME NEW s \in Sessions, NEW i \in ServerIds, BrowserResponse(s, i) PROVE QueueInv'
  <2>1. /\ UNCHANGED <<notifications, rewritten, replied, asks, told>>
        /\ requestOwner[i] # NoSession
        /\ \A k \in ServerIds : k # i => answers'[k] = answers[k]
    BY <1>4 DEF BrowserResponse, readerVars, sentVars, TypeOK
  <2>2. told[i] # NoSession
    BY <2>1 DEF CardInv
  <2>3. \A x \in Messages : Waiting(x) => Waiting(x)'
    BY <2>1, <2>2, MessageFields DEF Waiting, IsRequest
  <2>. QED
    BY <2>1, <2>3, QueueKept
<1>5. ASSUME NEW m, ForwardAnswer(m) PROVE QueueInv'
  <2>1. NextMessage(m) /\ m.kind = "webAnswer" /\ m \in Messages /\ Waiting(m)
    BY <1>5, HeadType DEF ForwardAnswer, IsBrowserAnswer, NextMessage, QueueInv, TypeOK
  <2>2. m.key = m.of /\ m.of \in Keys
    BY <2>1, MessageFields DEF Waiting
  <2>3. /\ UNCHANGED <<replied, asks, told, answers>>
        /\ rewritten' = [rewritten EXCEPT ![m.key] = NoEntry]
    BY <1>5 DEF ForwardAnswer, serverVars
  <2>4. \A x \in Messages : Waiting(x) /\ Apart(m, x) => Waiting(x)'
    BY <2>1, <2>2, <2>3, MessageFields DEF Waiting, Apart, IsRequest, TypeOK
  <2>. QED
    BY <2>1, <2>4, QueueTaken
<1>6. ASSUME NEW m, PublishAnswer(m) \/ ForwardNotification(m) PROVE QueueInv'
  <2>1. NextMessage(m) /\ UNCHANGED <<rewritten, replied, asks, told, answers>>
    BY <1>6 DEF PublishAnswer, ForwardNotification, serverVars, sentVars
  <2>. QED
    BY <2>1, QueueTaken DEF Waiting, IsRequest
<1>7. ASSUME NEW m, RefuseRequest(m) PROVE QueueInv'
  <2>1. NextMessage(m) /\ IsRequest(m) /\ m \in Messages
    BY <1>7, HeadType DEF RefuseRequest, IsRequest
  <2>2. /\ UNCHANGED <<rewritten, replied, asks, told>>
        /\ answers' = [answers EXCEPT ![m.id] = Append(@, Agent)]
    BY <1>7 DEF RefuseRequest, sentVars
  <2>3. \A x \in Messages : Waiting(x) /\ Apart(m, x) => Waiting(x)'
    BY <2>1, <2>2, MessageFields DEF Waiting, Apart, IsRequest, TypeOK
  <2>. QED
    BY <2>1, <2>3, QueueTaken
<1>8. ASSUME NEW m, ForwardRequest(m) PROVE QueueInv'
  <2>1. NextMessage(m) /\ IsRequest(m) /\ m \in Messages
    BY <1>8, HeadType DEF ForwardRequest, IsRequest
  <2>2. /\ UNCHANGED <<rewritten, replied, asks, answers>>
        /\ told' = [told EXCEPT ![m.id] = OwnerOf(m.thread)]
    BY <1>8 DEF ForwardRequest, serverVars
  <2>3. \A x \in Messages : Waiting(x) /\ Apart(m, x) => Waiting(x)'
    BY <2>1, <2>2, MessageFields DEF Waiting, Apart, IsRequest, TypeOK
  <2>. QED
    BY <2>1, <2>3, QueueTaken
<1>. QED
  BY <1>1, <1>2, <1>3, <1>4, <1>5, <1>6, <1>7, <1>8 DEF Next, FromBrowser, FromAppServer

(***************************************************************************)
(* Answers.                                                                *)
(***************************************************************************)
LEMMA HomeStep ==
    ASSUME TypeOK, QueueInv, HomeInv, Next PROVE HomeInv'
<1>. USE DEF HomeInv, AnswersGoHome, EntryOf
<1>0. Len(requests) \in Nat /\ NoEntry \notin Entries
  BY AgentNullsAssumption DEF TypeOK, NoEntry, Entries
<1>1. CASE UNCHANGED <<requests, replied, rewritten, delivered, published>>
  BY <1>1
<1>2. CASE AppServer
  <2>1. UNCHANGED <<requests, rewritten, delivered, published>>
    BY <1>2, SaysFrame DEF agentVars, sentVars
  <2>2. replied \subseteq replied'
    BY <1>2 DEF AppServer, AnswersCall, AnswersBrowser, AsksBrowser, AsksSecret, Notifies,
       OutputEnds, serverVars
  <2>. QED
    BY <2>1, <2>2
<1>3. ASSUME NEW s \in Sessions, NEW id \in BrowserIds, NEW t \in MaybeThreads,
             NEW starts \in BOOLEAN, BrowserRequest(s, id, t, starts)
      PROVE  HomeInv'
  <2> DEFINE new == Len(requests) + 1
  <2>1. /\ new \in Keys
        /\ Len(requests') = new
        /\ \A n \in 1 .. Len(requests) : requests'[n] = requests[n]
        /\ requests'[new] = [session |-> s, id |-> id, key |-> new,
                             thread |-> t, starts |-> starts]
    BY <1>3, RequestAdded, Zenon
  <2>2. requests'[new].session = s /\ requests'[new].id = id /\ requests'[new].key = new
    BY <2>1
  <2>3. \A n \in 1 .. Len(requests') : n \in 1 .. Len(requests) \/ n = new
    BY <1>0, <2>1
  <2>4. new \notin 1 .. Len(requests) /\ 1 .. Len(requests) \subseteq 1 .. Len(requests')
        /\ new \in 1 .. Len(requests')
    BY <1>0, <2>1
  <2> HIDE DEF new
  <2>5. /\ rewritten' = [rewritten EXCEPT ![new] = [session |-> s, id |-> id]]
        /\ UNCHANGED <<replied, delivered, published>>
    BY <1>3 DEF BrowserRequest, FreshKey, new, sentVars
  <2>6. rewritten'[new] = [session |-> s, id |-> id]
        /\ \A k \in Keys : k # new => rewritten'[k] = rewritten[k]
    BY <2>1, <2>5 DEF TypeOK
  <2>7. [session |-> s, id |-> id] # NoEntry
    BY AgentNullsAssumption DEF NoEntry
  <2>8. 1 .. Len(requests) \subseteq Keys
    BY MaxRequestsAssumption DEF TypeOK, Keys
  <2>a. \A n \in 1 .. Len(requests') : requests'[n].key = n
    BY <2>1, <2>2, <2>3
  <2>b. \A n \in 1 .. Len(requests') : n \notin replied' => rewritten'[n] # NoEntry
    BY <2>3, <2>4, <2>5, <2>6, <2>7, <2>8
  <2>c. \A k \in Keys : rewritten'[k] # NoEntry =>
            k \in 1 .. Len(requests') /\ rewritten'[k] = EntryOf(k)'
    <3>1. ASSUME NEW k \in Keys, k # new, rewritten'[k] # NoEntry
          PROVE  /\ k \in 1 .. Len(requests) /\ rewritten'[k] = EntryOf(k)
                 /\ requests'[k] = requests[k]
      BY <2>1, <2>6, <3>1
    <3>. QED
      BY <2>1, <2>2, <2>4, <2>6, <3>1
  <2>d. \A d \in delivered' : /\ d.of \in replied' /\ d.of \in 1 .. Len(requests')
                              /\ rewritten'[d.of] = NoEntry
    BY <2>4, <2>5, <2>6, <2>8
  <2>e. AnswersGoHome'
    BY <2>1, <2>4, <2>5
  <2>. QED
    BY <2>a, <2>b, <2>c, <2>d, <2>e
<1>4. ASSUME NEW m, ForwardAnswer(m) PROVE HomeInv'
  <2>1. /\ m.kind = "webAnswer" /\ m \in Messages /\ Waiting(m)
        /\ rewritten[m.key] # NoEntry
    BY <1>4, HeadWaits DEF ForwardAnswer, IsBrowserAnswer
  <2>2. m.key = m.of /\ m.of \in Keys /\ m.of \in replied
    BY <2>1, MessageFields DEF Waiting
  <2>3. m.of \in 1 .. Len(requests) /\ rewritten[m.of] = EntryOf(m.of)
    BY <2>1, <2>2
  <2>4. /\ delivered' = delivered \cup
               {[of |-> m.of, to |-> requests[m.of].session, id |-> requests[m.of].id]}
        /\ rewritten' = [rewritten EXCEPT ![m.of] = NoEntry]
        /\ UNCHANGED <<requests, replied, published>>
    BY <1>4, <2>2, <2>3 DEF ForwardAnswer, serverVars
  <2>5. \A k \in Keys : /\ k # m.of => rewritten'[k] = rewritten[k]
                        /\ k = m.of => rewritten'[k] = NoEntry
    BY <2>4 DEF TypeOK
  <2>6. 1 .. Len(requests) \subseteq Keys
    BY MaxRequestsAssumption DEF TypeOK, Keys
  <2>7. \A n \in 1 .. Len(requests) : n \notin replied => rewritten'[n] # NoEntry
    BY <2>2, <2>5, <2>6
  <2>8. \A k \in Keys : rewritten'[k] # NoEntry =>
            k \in 1 .. Len(requests) /\ rewritten'[k] = EntryOf(k)
    BY <2>5
  <2>9. \A d \in delivered' : /\ d.of \in 1 .. Len(requests)
                              /\ d.to = requests[d.of].session /\ d.id = requests[d.of].id
    BY <2>3, <2>4
  <2>10. \A d \in delivered' : d.of \in replied /\ rewritten'[d.of] = NoEntry
    BY <2>2, <2>4, <2>5, <2>6
  <2>. QED
    BY <2>4, <2>7, <2>8, <2>9, <2>10
<1>5. ASSUME NEW m, PublishAnswer(m) PROVE HomeInv'
  <2>1. m \in Messages /\ Waiting(m)
    BY <1>5, HeadWaits DEF PublishAnswer
  <2>2. m.kind # "webAnswer"
    <3>1. m.kind = "webAnswer" => rewritten[m.key] # NoEntry
      BY <2>1 DEF Waiting
    <3>. QED
      BY <1>5, <3>1 DEF PublishAnswer, IsBrowserAnswer
  <2>3. published' = published \cup {m} /\ UNCHANGED <<requests, replied, rewritten, delivered>>
    BY <1>5 DEF PublishAnswer, serverVars
  <2>. QED
    BY <2>2, <2>3
<1>. QED
  BY <1>1, <1>2, <1>3, <1>4, <1>5, HandshakeFrame
     DEF Next, FromBrowser, BrowserResponse, FromAppServer, RefuseRequest, ForwardRequest,
         ForwardNotification, serverVars, sentVars

(***************************************************************************)
(* The theorems.                                                           *)
(***************************************************************************)
LEMMA SafetyInit == Init => SafetyInv
<1>. SUFFICES ASSUME Init PROVE SafetyInv
  OBVIOUS
<1>1. QueueInv
  BY ClientInitTypes DEF Init, QueueInv
<1>2. HomeInv /\ OwnerInv
  BY DEF Init, HomeInv, AnswersGoHome, OwnerInv
<1>3. CardInv
  BY DEF Init, CardInv, AnsweredOnceByItsReader
<1>. QED
  BY <1>1, <1>2, <1>3 DEF SafetyInv

LEMMA SafetyStep == TypeOK /\ SafetyInv /\ [Next]_vars => SafetyInv'
<1>. SUFFICES ASSUME TypeOK, SafetyInv, [Next]_vars PROVE SafetyInv'
  OBVIOUS
<1>1. CASE Next
  BY <1>1, QueueStep, HomeStep, OwnerStep, CardStep DEF SafetyInv
<1>2. CASE UNCHANGED vars
  <2>1. UNCHANGED <<notifications, rewritten, threadOwner, requestOwner, requests, replied,
                    asks, answers, told, delivered, published>>
    BY <1>2 DEF vars, readerVars, agentVars, serverVars, sentVars
  <2>2. QueueInv'
    BY <2>1 DEF SafetyInv, QueueInv, Waiting, Apart, IsRequest
  <2>3. HomeInv' /\ OwnerInv'
    BY <2>1 DEF SafetyInv, HomeInv, AnswersGoHome, EntryOf, OwnerInv
  <2>4. CardInv'
    BY <2>1 DEF SafetyInv, CardInv, AnsweredOnceByItsReader
  <2>. QED
    BY <2>2, <2>3, <2>4 DEF SafetyInv
<1>. QED
  BY <1>1, <1>2

LEMMA Safe == Spec => []SafetyInv
<1>1. TypeOK /\ SafetyInv /\ [Next]_vars => SafetyInv'
  BY SafetyStep
<1>. QED
  BY <1>1, SafetyInit, TypeCorrect, PTL DEF Spec

(* An answer of the App Server to a browser reaches the session that       *)
(* asked, under the id it asked with, and is never sent to everyone.       *)
THEOREM EveryAnswerGoesHome == Spec => []AnswersGoHome
<1>1. SafetyInv => AnswersGoHome
  BY DEF SafetyInv, HomeInv
<1>. QED
  BY <1>1, Safe, PTL

(* No two browser sessions ever ask the App Server about one thread.       *)
THEOREM ThreadsAreNotShared == Spec => []OneSessionPerThread
<1>1. TypeOK /\ SafetyInv => OneSessionPerThread
  <2>. SUFFICES ASSUME TypeOK, SafetyInv PROVE OneSessionPerThread
    OBVIOUS
  <2>1. \A n \in 1 .. Len(requests) : requests[n].thread \in Threads \cup {NoThread}
    <3>1. \A n \in 1 .. Len(requests) : requests[n] \in Requests
      BY DEF TypeOK
    <3>. QED
      BY <3>1 DEF Requests
  <2>. QED
    BY <2>1 DEF SafetyInv, OwnerInv, OneSessionPerThread
<1>. QED
  BY <1>1, Safe, TypeCorrect, PTL

(* A card is shown to no session but the one that works on its thread.     *)
THEOREM CardsFindTheirSession == Spec => []CardsGoToTheThreadsSession
<1>1. SafetyInv => CardsGoToTheThreadsSession
  BY DEF SafetyInv, CardInv, OwnerInv, CardsGoToTheThreadsSession
<1>. QED
  BY <1>1, Safe, PTL

(* The App Server gets at most one answer to each of its requests, from    *)
(* the session that was shown the card or from the agent.                  *)
THEOREM CardsAreAnsweredOnce == Spec => []AnsweredOnceByItsReader
<1>1. SafetyInv => AnsweredOnceByItsReader
  BY DEF SafetyInv, CardInv
<1>. QED
  BY <1>1, Safe, PTL

(***************************************************************************)
(* The contract with the sessions.  A step of the loop or of the App       *)
(* Server is the step of SessionContract that bears its name there, and    *)
(* everything else stutters.                                               *)
(***************************************************************************)
LEMMA RemoteInit == Init => Remote!Init
<1>. SUFFICES ASSUME Init PROVE Remote!Init
  OBVIOUS
<1>1. Asked = <<>>
  BY DEF Init, Asked
<1>. QED
  BY <1>1 DEF Init, Remote!Init

LEMMA AskedGrows ==
    ASSUME TypeOK, NEW s \in Sessions, NEW id \in BrowserIds, NEW t \in MaybeThreads,
           NEW starts \in BOOLEAN, BrowserRequest(s, id, t, starts)
    PROVE  Asked' = Append(Asked, [session |-> s, id |-> id, thread |-> t])
<1> DEFINE all == Len(requests)
           one == [session |-> s, id |-> id, thread |-> t]
<1>1. /\ all \in Nat /\ Len(requests') = all + 1
      /\ \A n \in 1 .. all : requests'[n] = requests[n]
      /\ requests'[all + 1].session = s /\ requests'[all + 1].id = id
      /\ requests'[all + 1].thread = t
  <2>1. requests'[all + 1] = [session |-> s, id |-> id, key |-> all + 1,
                              thread |-> t, starts |-> starts]
    BY RequestAdded, Zenon
  <2>2. Len(requests') = all + 1 /\ \A n \in 1 .. all : requests'[n] = requests[n]
    BY RequestAdded, Zenon
  <2>. QED
    BY <2>1, <2>2 DEF TypeOK
<1> HIDE DEF all
<1>2. Asked = [n \in 1 .. all |-> [session |-> requests[n].session,
                                   id |-> requests[n].id, thread |-> requests[n].thread]]
  BY DEF Asked, all
<1>3. Asked' = [n \in 1 .. all + 1 |-> [session |-> requests'[n].session,
                                        id |-> requests'[n].id, thread |-> requests'[n].thread]]
  BY <1>1 DEF Asked
<1>4. Asked' = [n \in 1 .. all + 1 |-> IF n \in 1 .. all THEN Asked[n] ELSE one]
  BY <1>1, <1>2, <1>3
<1>5. Asked \in Seq([session : {requests[n].session : n \in 1 .. all} ,
                     id : {requests[n].id : n \in 1 .. all},
                     thread : {requests[n].thread : n \in 1 .. all}])
      /\ Len(Asked) = all
  BY <1>1, <1>2
<1>. QED
  BY <1>1, <1>4, <1>5

LEMMA RemoteStutters ==
    ASSUME UNCHANGED <<threadOwner, requests, replied, delivered, asks, told, answers>>
    PROVE  UNCHANGED Remote!vars
BY DEF Remote!vars, Asked

LEMMA RemoteByServer ==
    ASSUME TypeOK, AppServer PROVE Remote!Next \/ UNCHANGED Remote!vars
<1>0. UNCHANGED <<threadOwner, requests, delivered, told, answers>> /\ UNCHANGED Asked
  BY SaysFrame DEF agentVars, sentVars, Asked
<1>1. ASSUME NEW n \in Keys, NEW t \in MaybeThreads, AnswersBrowser(n, t) PROVE Remote!Next
  <2>1. n \in DOMAIN Asked /\ n \notin replied /\ replied' = replied \cup {n} /\ UNCHANGED asks
    BY <1>1 DEF AnswersBrowser, Asked
  <2>2. Remote!Serve(n)
    BY <1>0, <2>1 DEF Remote!Serve
  <2>. QED
    BY <2>1, <2>2 DEF Remote!Next
<1>2. ASSUME NEW i \in ServerIds, NEW t \in MaybeThreads, asks[i] = Unmade,
             asks' = [asks EXCEPT ![i] = t], UNCHANGED replied
      PROVE  Remote!Next
  <2>1. Remote!Raise(i, t)
    BY <1>0, <1>2 DEF Remote!Raise
  <2>. QED
    BY <2>1 DEF Remote!Next, MaybeThreads
<1>3. ASSUME NEW i \in ServerIds, NEW t \in MaybeThreads, AsksBrowser(i, t) PROVE Remote!Next
  BY <1>2, <1>3 DEF AsksBrowser
<1>4. ASSUME NEW i \in ServerIds, AsksSecret(i) PROVE Remote!Next
  BY <1>2, <1>4 DEF AsksSecret, MaybeThreads
<1>5. ASSUME \/ \E q \in Questions : AnswersCall(q)
             \/ \E t \in MaybeThreads : Notifies(t)
             \/ OutputEnds
      PROVE  UNCHANGED Remote!vars
  BY <1>0, <1>5, RemoteStutters DEF AnswersCall, Notifies, OutputEnds, serverVars
<1>. QED
  BY <1>1, <1>3, <1>4, <1>5 DEF AppServer

LEMMA RemoteByBrowser ==
    ASSUME TypeOK, SafetyInv, FromBrowser PROVE Remote!Next \/ UNCHANGED Remote!vars
<1>1. ASSUME NEW s \in Sessions, NEW id \in BrowserIds, NEW t \in MaybeThreads,
             NEW starts \in BOOLEAN, BrowserRequest(s, id, t, starts)
      PROVE  Remote!Next
  <2>1. Asked' = Append(Asked, [session |-> s, id |-> id, thread |-> t])
    BY <1>1, AskedGrows
  <2>2. /\ t \in Threads => threadOwner[t] \in {NoSession, s}
        /\ threadOwner' = ClaimThreadOwner(threadOwner, t, s)
        /\ UNCHANGED <<replied, delivered, asks, told, answers>>
    BY <1>1, AgentNullsAssumption DEF BrowserRequest, MayUseThread, OwnerOf, sentVars
  <2>3. Remote!Ask(s, id, t)
    BY <2>1, <2>2 DEF Remote!Ask, Remote!Claim, ClaimThreadOwner
  <2>. QED
    BY <2>3 DEF Remote!Next, MaybeThreads
<1>2. ASSUME NEW s \in Sessions, NEW i \in ServerIds, BrowserResponse(s, i)
      PROVE  Remote!Next \/ UNCHANGED Remote!vars
  <2>1. /\ requestOwner[i] = told[i] /\ answers[i] = <<>> /\ told[i] # NoSession
        /\ asks[i] # Unmade
    BY <1>2 DEF BrowserResponse, SafetyInv, CardInv
  <2>2. UNCHANGED <<threadOwner, requests, replied, delivered, asks, told>> /\ UNCHANGED Asked
    BY <1>2 DEF BrowserResponse, sentVars, Asked
  <2>3. CASE answers' = answers
    BY <2>2, <2>3, RemoteStutters
  <2>4. CASE requestOwner[i] = s /\ answers' = [answers EXCEPT ![i] = Append(@, s)]
    <3>1. Append(answers[i], s) = <<told[i]>>
      BY <2>1, <2>4
    <3>2. Remote!Answer(i)
      BY <2>1, <2>2, <2>4, <3>1 DEF Remote!Answer, Remote!Open
    <3>. QED
      BY <3>2 DEF Remote!Next
  <2>. QED
    BY <1>2, <2>3, <2>4 DEF BrowserResponse
<1>. QED
  BY <1>1, <1>2 DEF FromBrowser

LEMMA RemoteByMessage ==
    ASSUME TypeOK, SafetyInv, FromAppServer PROVE Remote!Next \/ UNCHANGED Remote!vars
<1>. PICK m : \/ ForwardAnswer(m) \/ PublishAnswer(m) \/ RefuseRequest(m)
              \/ ForwardRequest(m) \/ ForwardNotification(m)
  BY DEF FromAppServer
<1>0. m \in Messages /\ Waiting(m)
  BY HeadWaits DEF ForwardAnswer, PublishAnswer, RefuseRequest, ForwardRequest,
     ForwardNotification, SafetyInv
<1>1. CASE ForwardAnswer(m)
  <2>1. /\ m.kind = "webAnswer" /\ m.key = m.of /\ m.of \in replied /\ rewritten[m.of] # NoEntry
        /\ m.of \in Keys /\ m.thread \in MaybeThreads
    BY <1>0, <1>1, MessageFields DEF ForwardAnswer, IsBrowserAnswer, Waiting
  <2>2. m.of \in 1 .. Len(requests) /\ rewritten[m.of] = EntryOf(m.of)
    BY <2>1 DEF SafetyInv, HomeInv
  <2>3. /\ m.of \in DOMAIN Asked
        /\ Asked[m.of].session = rewritten[m.of].session /\ Asked[m.of].id = rewritten[m.of].id
    BY <2>2 DEF Asked, EntryOf
  <2>4. \A d \in delivered : d.of # m.of
    BY <2>1 DEF SafetyInv, HomeInv
  <2>5. /\ threadOwner' = ClaimThreadOwner(threadOwner, m.thread, Asked[m.of].session)
        /\ delivered' = delivered \cup {[of |-> m.of, to |-> Asked[m.of].session,
                                         id |-> Asked[m.of].id]}
        /\ UNCHANGED <<replied, asks, told, answers>> /\ UNCHANGED Asked
    BY <1>1, <2>1, <2>3 DEF ForwardAnswer, serverVars, Asked
  <2>6. Remote!Deliver(m.of, m.thread)
    BY <2>1, <2>4, <2>5 DEF Remote!Deliver, Remote!Claim, ClaimThreadOwner
  <2>. QED
    BY <2>1, <2>3, <2>6 DEF Remote!Next, MaybeThreads
<1>2. CASE RefuseRequest(m)
  <2>1. IsRequest(m)
    BY <1>2 DEF RefuseRequest, IsRequest
  <2>2. /\ m.id \in ServerIds /\ m.thread \in MaybeThreads
        /\ asks[m.id] = m.thread /\ told[m.id] = NoSession /\ answers[m.id] = <<>>
    BY <1>0, <2>1, MessageFields DEF IsRequest, Waiting
  <2>3. asks[m.id] # Unmade /\ Append(answers[m.id], Agent) = <<Agent>>
    BY <2>2, AgentNullsAssumption DEF MaybeThreads
  <2>4. /\ answers' = [answers EXCEPT ![m.id] = <<Agent>>]
        /\ UNCHANGED <<threadOwner, replied, delivered, asks, told>> /\ UNCHANGED Asked
    BY <1>2, <2>3 DEF RefuseRequest, sentVars, Asked
  <2>5. Remote!Answer(m.id)
    BY <2>2, <2>3, <2>4 DEF Remote!Answer, Remote!Open
  <2>. QED
    BY <2>2, <2>5 DEF Remote!Next
<1>3. CASE ForwardRequest(m)
  <2>1. IsRequest(m) /\ OwnerOf(m.thread) # NoSession
    BY <1>3 DEF ForwardRequest, IsRequest
  <2>2. /\ m.id \in ServerIds /\ m.thread \in MaybeThreads
        /\ asks[m.id] = m.thread /\ told[m.id] = NoSession /\ answers[m.id] = <<>>
    BY <1>0, <2>1, MessageFields DEF IsRequest, Waiting
  <2>3. /\ asks[m.id] \in Threads /\ asks[m.id] # Unmade
        /\ threadOwner[asks[m.id]] = OwnerOf(m.thread)
    BY <2>1, <2>2, AgentNullsAssumption DEF OwnerOf, MaybeThreads
  <2>4. /\ told' = [told EXCEPT ![m.id] = OwnerOf(m.thread)]
        /\ UNCHANGED <<threadOwner, replied, delivered, asks, answers>> /\ UNCHANGED Asked
    BY <1>3 DEF ForwardRequest, serverVars, Asked
  <2>5. Remote!Show(m.id)
    BY <2>1, <2>2, <2>3, <2>4 DEF Remote!Show, Remote!Open
  <2>. QED
    BY <2>2, <2>5 DEF Remote!Next
<1>4. CASE PublishAnswer(m) \/ ForwardNotification(m)
  BY <1>4, RemoteStutters DEF PublishAnswer, ForwardNotification, serverVars, sentVars
<1>. QED
  BY <1>1, <1>2, <1>3, <1>4

LEMMA RemoteStep == TypeOK /\ SafetyInv /\ [Next]_vars => [Remote!Next]_(Remote!vars)
<1>1. ASSUME Handshake \/ AgentEnds \/ UNCHANGED vars PROVE UNCHANGED Remote!vars
  BY <1>1, HandshakeFrame, RemoteStutters DEF vars, agentVars, serverVars, sentVars
<1>. QED
  BY <1>1, RemoteByServer, RemoteByBrowser, RemoteByMessage DEF Next

(* The agent implements SessionContract: sessions that share its App       *)
(* Server keep their threads, answers and cards apart.                     *)
THEOREM SessionsAreServedApart == Spec => SessionsKeepContract
BY RemoteInit, RemoteStep, Safe, TypeCorrect, PTL DEF Spec, SessionsKeepContract, Remote!Spec
=============================================================================
