------------------------------ MODULE HostAgent ------------------------------
(***************************************************************************)
(* The Host Agent's connect (services/host-agent): it starts an App        *)
(* Server, initialises it, lists its models, greets the Gateway, and then  *)
(* loops over what browsers send and what the App Server says.             *)
(*                                                                         *)
(* The loop takes one message at a time and nothing else touches its maps, *)
(* so one iteration is one action, its awaits included.  The Gateway and   *)
(* the App Server are the environment: any browser session may send any    *)
(* frame the Gateway lets through, and the App Server answers in any order *)
(* and asks what it likes.                                                 *)
(***************************************************************************)
EXTENDS AppServerClient

CONSTANTS
    Initialize,   \* the agent's first call; the other Calls list models, a page each
    Sessions,     \* browser sessions
    NoSession,    \* no browser session; to the Gateway: everyone
    Threads,      \* App Server threads
    NoThread,     \* a message about no thread
    BrowserIds,   \* the ids a browser gives its requests
    MaxRequests,  \* bound on the browser requests the agent forwards
    ServerIds,    \* the ids the App Server gives its own requests
    Unmade,       \* a request the App Server has not made
    Agent         \* the Host Agent, when it answers by itself

ASSUME InitializeAssumption == Initialize \in Calls
ASSUME AgentNullsAssumption ==
    /\ NoSession \notin Sessions /\ Agent \notin Sessions
    /\ NoThread \notin Threads /\ Unmade \notin Threads \cup {NoThread}
ASSUME MaxRequestsAssumption == MaxRequests \in Nat

VARIABLES
    phase,          \* where connect stands
    rewritten,      \* rewritten_ids: key -> whose request, and its original id
    threadOwner,    \* thread_owners
    requestOwner,   \* server_request_owners
    requests,       \* browser requests forwarded to the App Server, in order
    replied,        \* those the App Server has answered
    known,          \* threads the App Server has
    asks,           \* the App Server's own requests: about which thread, if made
    answers,        \* who answered each of them, in order
    told,           \* which browser session was sent each of them
    delivered,      \* answers sent to browser sessions
    published       \* answers sent to everyone

agentVars  == <<phase, rewritten, threadOwner, requestOwner>>
serverVars == <<requests, replied, known, asks, answers>>
sentVars   == <<told, delivered, published>>
vars == <<callVars, readerVars, agentVars, serverVars, sentVars>>

-----------------------------------------------------------------------------
Keys == 1 .. MaxRequests
NoEntry == [session |-> NoSession, id |-> 0]
Entries == [session : Sessions, id : BrowserIds]

Requests == [session : Sessions, id : BrowserIds, key : Keys,
             thread : Threads \cup {NoThread}, starts : BOOLEAN]

(* What the App Server says, beside answers to the agent's own calls: the  *)
(* answer to the n-th browser request, under the key it came with; a       *)
(* request to a browser; a request for secrets or the time; news.          *)
WebAnswer(n, t)     == [kind |-> "webAnswer", key |-> requests[n].key, of |-> n, thread |-> t]
ServerRequest(i, t) == [kind |-> "serverRequest", id |-> i, thread |-> t]
SecretRequest(i)    == [kind |-> "secretRequest", id |-> i, thread |-> NoThread]
Notification(t)     == [kind |-> "notification", thread |-> t]

MaybeThreads == Threads \cup {NoThread}
Messages ==
    {OwnAnswer(q) : q \in Questions}
    \cup [kind : {"webAnswer"}, key : Keys, of : Keys, thread : MaybeThreads]
    \cup [kind : {"serverRequest", "secretRequest"}, id : ServerIds, thread : MaybeThreads]
    \cup [kind : {"notification"}, thread : MaybeThreads]

TypeOK ==
    /\ ClientTypeOK
    /\ notifications \in Seq(Messages)
    /\ phase \in {"initialize", "list", "hello", "serving", "ended"}
    /\ rewritten \in [Keys -> Entries \cup {NoEntry}]
    /\ threadOwner \in [Threads -> Sessions \cup {NoSession}]
    /\ requestOwner \in [ServerIds -> Sessions \cup {NoSession}]
    /\ requests \in Seq(Requests) /\ Len(requests) <= MaxRequests
    /\ replied \in SUBSET (1 .. Len(requests))
    /\ known \in SUBSET Threads
    /\ asks \in [ServerIds -> MaybeThreads \cup {Unmade}]
    /\ answers \in [ServerIds -> Seq(Sessions \cup {Agent})]
    /\ told \in [ServerIds -> Sessions \cup {NoSession}]
    /\ delivered \in SUBSET [of : Keys, to : Sessions, id : BrowserIds]
    /\ published \in SUBSET Messages

Init ==
    /\ ClientInit
    /\ phase = "initialize"
    /\ rewritten = [k \in Keys |-> NoEntry]
    /\ threadOwner = [t \in Threads |-> NoSession]
    /\ requestOwner = [i \in ServerIds |-> NoSession]
    /\ requests = <<>>
    /\ replied = {}
    /\ known \in SUBSET Threads
    /\ asks = [i \in ServerIds |-> Unmade]
    /\ answers = [i \in ServerIds |-> <<>>]
    /\ told = [i \in ServerIds |-> NoSession]
    /\ delivered = {}
    /\ published = {}

-----------------------------------------------------------------------------
(* Before the loop: the agent's own calls, one at a time.  They belong to  *)
(* the App Server client; nothing of the agent changes with them.          *)
Started(c)  == call[c].pc # "idle"
Finished(c) == call[c].pc = "done"
Answered(c) == call[c].result.kind = "answer"

Pages == Calls \ {Initialize}

StartCall(c) ==
    /\ \/ phase = "initialize" /\ c = Initialize
       \/ /\ phase = "list" /\ c \in Pages
          /\ \A p \in Pages : Started(p) => Finished(p) /\ Answered(p)
    /\ Register(c)
    /\ UNCHANGED <<agentVars, serverVars, sentVars>>

ContinueCall(c) ==
    /\ Write(c) \/ WriteFails(c) \/ TakeReply(c) \/ Expire(c) \/ Forget(c)
    /\ UNCHANGED <<agentVars, serverVars, sentVars>>

Initialized ==
    /\ phase = "initialize"
    /\ Finished(Initialize) /\ Answered(Initialize)
    /\ phase' = "list"
    /\ UNCHANGED <<callVars, readerVars, rewritten, threadOwner, requestOwner,
                   serverVars, sentVars>>

(* A page without a cursor ends the list, and so does a failed one: then   *)
(* Luna Max is reported unavailable and the agent goes on.                 *)
Listed ==
    /\ phase = "list"
    /\ \E p \in Pages : Started(p)
    /\ \A p \in Pages : Started(p) => Finished(p)
    /\ phase' = "hello"
    /\ UNCHANGED <<callVars, readerVars, rewritten, threadOwner, requestOwner,
                   serverVars, sentVars>>

(* hello, status and capabilities are sent; only then does the agent       *)
(* subscribe to the App Server's messages.                                 *)
Greet ==
    /\ phase = "hello"
    /\ Subscribe
    /\ phase' = "serving"
    /\ UNCHANGED <<rewritten, threadOwner, requestOwner, serverVars, sentVars>>

(* connect returns: initialize failed, a frame cannot be sent or written,  *)
(* or the Gateway is gone.  The App Server is killed with it; no call is   *)
(* in progress then, so shutdown finds nothing to close.                   *)
AgentEnds ==
    /\ \/ phase = "initialize" /\ Finished(Initialize)
       \/ phase \in {"hello", "serving"}
    /\ phase' = "ended"
    /\ ShutdownKill
    /\ UNCHANGED <<rewritten, threadOwner, requestOwner, serverVars, sentVars>>

-----------------------------------------------------------------------------
(* The App Server speaks (external): its messages go through the reader.   *)

AnswersCall(q) ==
    /\ ReadAnswer(q)
    /\ UNCHANGED <<agentVars, serverVars, sentVars>>

(* thread/start makes a thread; any other answer may carry the thread it   *)
(* was asked about.  An error carries none.                                *)
AnswersBrowser(n, t) ==
    /\ n \in 1 .. Len(requests) /\ n \notin replied
    /\ t \in {NoThread, requests[n].thread}
             \cup (IF requests[n].starts THEN Threads \ known ELSE {})
    /\ ReadOther(WebAnswer(n, t))
    /\ replied' = replied \cup {n}
    /\ known' = known \cup ({t} \ {NoThread})
    /\ UNCHANGED <<agentVars, requests, asks, answers, sentVars>>

AsksBrowser(i, t) ==
    /\ asks[i] = Unmade
    /\ t \in known \cup {NoThread}
    /\ ReadOther(ServerRequest(i, t))
    /\ asks' = [asks EXCEPT ![i] = t]
    /\ UNCHANGED <<agentVars, requests, replied, known, answers, sentVars>>

AsksSecret(i) ==
    /\ asks[i] = Unmade
    /\ ReadOther(SecretRequest(i))
    /\ asks' = [asks EXCEPT ![i] = NoThread]
    /\ UNCHANGED <<agentVars, requests, replied, known, answers, sentVars>>

Notifies(t) ==
    /\ t \in known \cup {NoThread}
    /\ ReadOther(Notification(t))
    /\ UNCHANGED <<agentVars, serverVars, sentVars>>

(* Its output ends, or a line is too long.                                 *)
OutputEnds ==
    /\ ReaderStops \/ Drain
    /\ UNCHANGED <<agentVars, serverVars, sentVars>>

-----------------------------------------------------------------------------
(* select!, first branch: a frame of a browser session.  A request outside *)
(* the workspaces is answered with an error, one about another session's   *)
(* thread is discarded: neither changes anything here.                     *)

(* claim_thread_owner, for a thread that nobody owns or s does.            *)
ClaimThreadOwner(owners, t, s) ==
    IF t \in Threads /\ owners[t] = NoSession THEN [owners EXCEPT ![t] = s] ELSE owners

OwnerOf(t) == IF t = NoThread THEN NoSession ELSE threadOwner[t]

\* Claims the thread if it can and goes on anyway.
MayUseThreadMistake(t, s) == TRUE

MayUseThread(t, s) == OwnerOf(t) \in {NoSession, s}

\* Keeps the id the browser chose.
FreshKeyMistake(s, id) == id

(* web:{session}:{uuid}                                                    *)
FreshKey(s, id) == Len(requests) + 1

(* The thread is whatever the browser names, also one that the App Server  *)
(* does not have.                                                          *)
BrowserRequest(s, id, t, starts) ==
    /\ phase = "serving"
    /\ Len(requests) < MaxRequests
    /\ starts => t = NoThread
    /\ MayUseThread(t, s)
    /\ threadOwner' = ClaimThreadOwner(threadOwner, t, s)
    /\ rewritten' = [rewritten EXCEPT ![FreshKey(s, id)] = [session |-> s, id |-> id]]
    /\ requests' = Append(requests, [session |-> s, id |-> id, key |-> FreshKey(s, id),
                                     thread |-> t, starts |-> starts])
    /\ UNCHANGED <<callVars, readerVars, phase, requestOwner, replied, known, asks,
                   answers, sentVars>>

\* Looks the owner up and leaves it in the map.
BrowserResponseMistake(s, i) ==
    /\ phase = "serving"
    /\ requestOwner[i] = s
    /\ answers' = [answers EXCEPT ![i] = Append(@, s)]
    /\ UNCHANGED <<callVars, readerVars, agentVars, requests, replied, known, asks, sentVars>>

(* A browser answers a request of the App Server: a card it shows, once or *)
(* twice, or one left over from an earlier App Server.  The owner is taken *)
(* out of the map before it is compared.                                   *)
BrowserResponse(s, i) ==
    /\ phase = "serving"
    /\ requestOwner[i] # NoSession
    /\ requestOwner' = [requestOwner EXCEPT ![i] = NoSession]
    /\ IF requestOwner[i] = s
       THEN answers' = [answers EXCEPT ![i] = Append(@, s)]
       ELSE UNCHANGED answers
    /\ UNCHANGED <<callVars, readerVars, phase, rewritten, threadOwner, requests,
                   replied, known, asks, sentVars>>

-----------------------------------------------------------------------------
(* select!, second branch: the next message of the App Server.  Every case *)
(* that reaches the end of the branch numbers the frame it sends; the      *)
(* number counts frames and is left out.                                   *)

NextMessage(m) ==
    /\ phase = "serving"
    /\ notifications # <<>>
    /\ m = Head(notifications)
    /\ notifications' = Tail(notifications)
    /\ UNCHANGED <<callVars, answered, reader, stopping, subscribed, phase>>

IsBrowserAnswer(m) == m.kind = "webAnswer" /\ rewritten[m.key] # NoEntry

(* The answer to a request that is still in the map goes back to where it  *)
(* came from, and its thread is claimed if it can be.                      *)
ForwardAnswer(m) ==
    /\ NextMessage(m)
    /\ IsBrowserAnswer(m)
    /\ LET asker == rewritten[m.key] IN
       /\ threadOwner' = ClaimThreadOwner(threadOwner, m.thread, asker.session)
       /\ delivered' = delivered \cup {[of |-> m.of, to |-> asker.session, id |-> asker.id]}
    /\ rewritten' = [rewritten EXCEPT ![m.key] = NoEntry]
    /\ UNCHANGED <<requestOwner, serverVars, told, published>>

(* An answer the map does not know has no browser session and so goes to   *)
(* every one.                                                              *)
PublishAnswer(m) ==
    /\ NextMessage(m)
    /\ m.kind \in {"webAnswer", "ownAnswer"} /\ ~IsBrowserAnswer(m)
    /\ published' = published \cup {m}
    /\ UNCHANGED <<rewritten, threadOwner, requestOwner, serverVars, told, delivered>>

(* A request for secrets, or one about a thread of no session.             *)
RefuseRequest(m) ==
    /\ NextMessage(m)
    /\ \/ m.kind = "secretRequest"
       \/ m.kind = "serverRequest" /\ OwnerOf(m.thread) = NoSession
    /\ answers' = [answers EXCEPT ![m.id] = Append(@, Agent)]
    /\ UNCHANGED <<rewritten, threadOwner, requestOwner, requests, replied, known, asks,
                   sentVars>>

\* Asks the session that was heard last.
ForwardRequestMistake(m) ==
    /\ NextMessage(m)
    /\ m.kind = "serverRequest" /\ OwnerOf(m.thread) # NoSession
    /\ LET s == requests[Len(requests)].session IN
       /\ requestOwner' = [requestOwner EXCEPT ![m.id] = s]
       /\ told' = [told EXCEPT ![m.id] = s]
    /\ UNCHANGED <<rewritten, threadOwner, serverVars, delivered, published>>

ForwardRequest(m) ==
    /\ NextMessage(m)
    /\ m.kind = "serverRequest" /\ OwnerOf(m.thread) # NoSession
    /\ requestOwner' = [requestOwner EXCEPT ![m.id] = OwnerOf(m.thread)]
    /\ told' = [told EXCEPT ![m.id] = OwnerOf(m.thread)]
    /\ UNCHANGED <<rewritten, threadOwner, serverVars, delivered, published>>

(* To the thread's session, or to everyone.                                *)
ForwardNotification(m) ==
    /\ NextMessage(m)
    /\ m.kind = "notification"
    /\ UNCHANGED <<rewritten, threadOwner, requestOwner, serverVars, sentVars>>

-----------------------------------------------------------------------------
Handshake ==
    \/ \E c \in Calls : StartCall(c) \/ ContinueCall(c)
    \/ Initialized
    \/ Listed
    \/ Greet

AppServer ==
    \/ \E q \in Questions : AnswersCall(q)
    \/ \E n \in Keys, t \in MaybeThreads : AnswersBrowser(n, t)
    \/ \E i \in ServerIds, t \in MaybeThreads : AsksBrowser(i, t)
    \/ \E i \in ServerIds : AsksSecret(i)
    \/ \E t \in MaybeThreads : Notifies(t)
    \/ OutputEnds

FromBrowser ==
    \/ \E s \in Sessions, id \in BrowserIds, t \in MaybeThreads, starts \in BOOLEAN :
           BrowserRequest(s, id, t, starts)
    \/ \E s \in Sessions, i \in ServerIds : BrowserResponse(s, i)

FromAppServer ==
    \E m \in {notifications[i] : i \in 1 .. Len(notifications)} :
        \/ ForwardAnswer(m)
        \/ PublishAnswer(m)
        \/ RefuseRequest(m)
        \/ ForwardRequest(m)
        \/ ForwardNotification(m)

Next == Handshake \/ AppServer \/ FromBrowser \/ FromAppServer \/ AgentEnds

Spec == Init /\ [][Next]_vars

(* The agent's own steps are taken: its calls proceed or time out, its     *)
(* loop takes the next message, and an ended reader closes what it owes.   *)
(* Nothing is assumed of browsers, of the App Server or of the Gateway.    *)
FairSpec ==
    /\ Spec
    /\ WF_vars(\E c \in Calls : StartCall(c) \/ ContinueCall(c))
    /\ WF_vars(Initialized \/ Listed \/ Greet)
    /\ WF_vars(Drain /\ UNCHANGED <<agentVars, serverVars, sentVars>>)
    /\ WF_vars(FromAppServer)

-----------------------------------------------------------------------------
(* The answer to a browser's request reaches the session that asked, under *)
(* the id it asked with, and nobody else, although the sessions choose     *)
(* equal ids and the App Server answers in any order.                      *)
AnswersGoHome ==
    /\ \A d \in delivered : /\ d.to = requests[d.of].session
                            /\ d.id = requests[d.of].id
    /\ \A m \in published : m.kind # "webAnswer"

(* All requests about a thread that reach one App Server come from one     *)
(* browser session, whether it got the thread by naming it or by starting  *)
(* it: the ownership of a thread never moves.                              *)
OneSessionPerThread ==
    \A j, k \in 1 .. Len(requests) :
        (requests[j].thread = requests[k].thread /\ requests[j].thread # NoThread)
            => requests[j].session = requests[k].session

(* A card (a request of the App Server for a person) is only shown to the  *)
(* session that works on its thread.                                       *)
CardsGoToTheThreadsSession ==
    \A i \in ServerIds : told[i] # NoSession =>
        /\ asks[i] \in Threads
        /\ \A k \in 1 .. Len(requests) :
               requests[k].thread = asks[i] => requests[k].session = told[i]

(* The App Server gets at most one answer to each of its requests, from    *)
(* the session that was shown the card or, if none was, from the agent.    *)
AnsweredOnceByItsReader ==
    \A i \in ServerIds :
        /\ Len(answers[i]) <= 1
        /\ \A k \in 1 .. Len(answers[i]) :
               answers[i][k] = IF told[i] = NoSession THEN Agent ELSE told[i]

(* What sessions may rely on: the agent implements SessionContract.        *)
Asked == [n \in 1 .. Len(requests) |-> [session |-> requests[n].session,
                                       id |-> requests[n].id, thread |-> requests[n].thread]]

Remote == INSTANCE SessionContract
          WITH Cards <- ServerIds, owner <- threadOwner, asked <- Asked, served <- replied,
               home <- delivered, about <- asks, shown <- told

(* The life of threads, requests and cards as the sessions see it, in one: *)
(* a step of the handshake, the two branches of select! or the App Server  *)
(* is a step that SessionContract allows, or they do not notice it.        *)
SessionsKeepContract == Remote!Spec

(* docs/app-server-protocol.md: a line over the limit ends the connection. *)
ReaderEndEndsConnection ==
    (reader = "ended" /\ phase = "serving") ~> (phase = "ended")
=============================================================================
