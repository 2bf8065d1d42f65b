---------------------------- MODULE GatewayClient ----------------------------
(***************************************************************************)
(* The browser's side of one session (src/lib/gatewayClient.ts, and        *)
(* src/WebApp.tsx where it makes and drops clients): a client for every    *)
(* selection of a host, in one page or in several, each with its event     *)
(* socket, its pending requests and the last number it has seen.           *)
(*                                                                         *)
(* Between the clients and the Host Agent the Gateway is what Gateway and  *)
(* HostAgent show of it: an answer reaches every event socket of the       *)
(* session, under the id the browser chose, and a socket gets every frame  *)
(* in order or a resyncRequired in place of the oldest ones.               *)
(*                                                                         *)
(* JavaScript runs to completion: a handler and the continuations of the   *)
(* promises it settles are one action.                                     *)
(***************************************************************************)
EXTENDS Naturals, Sequences, FiniteSets

CONSTANTS
    Clients,      \* GatewayAppServerClient objects
    Pages,        \* pages (tabs) of the session
    NoClient, NoPage,
    MaxRequests,  \* bound on the requests of all clients
    MaxFrames,    \* bound on the frames an agent numbers
    MaxRuns,      \* bound on the starts of the agent
    EventCap      \* capacity of the Gateway's broadcast channel

ASSUME ClientAssumption == NoClient \notin Clients /\ NoPage \notin Pages
ASSUME BoundAssumption ==
    MaxRequests \in Nat /\ MaxFrames \in Nat /\ MaxRuns \in Nat /\ EventCap \in Nat \ {0}

VARIABLES
    page,          \* client -> the page that made it
    selected,      \* page -> clientRef
    left,          \* client -> the phase in which disconnect() last found it
    phase,         \* client -> how far connect() and the socket are
    hostGeneration,\* client -> host.generation
    lastSequence,  \* client -> the number of the last envelope
    requests,      \* all requests: client, id, and what became of each
    unsent,        \* requests the Gateway has not forwarded yet
    queue,         \* client -> what its event socket has still to bring
    listening,     \* clients whose socket has subscribed in the Gateway
    run,           \* how often the agent was started
    generation, sequence,  \* of the agent that runs
    asked,         \* the agent's rewritten_ids: requests it owes an answer
    missed,        \* history: client -> envelopes lost since its page last resynchronised
    span           \* history: client -> the envelopes of one run it has handled

pageVars   == <<page, selected, left>>
clientVars == <<phase, hostGeneration, lastSequence>>
wireVars   == <<queue, listening>>
agentVars  == <<run, generation, sequence, asked>>
pastVars   == <<missed, span>>
vars == <<pageVars, clientVars, requests, unsent, wireVars, agentVars, pastVars>>

-----------------------------------------------------------------------------
(* New, then waiting for the ticket, then for the socket; an open socket   *)
(* may also have come after connect() gave up, and then nobody waits for   *)
(* its end.                                                                *)
Phases == {"new", "ticket", "opening", "open", "late", "lateOpen", "closed"}

HasSocket(c) == phase[c] \in {"opening", "open", "late", "lateOpen"}
Receives(c)  == phase[c] \in {"open", "lateOpen"}

Resync == [kind |-> "resync"]
Envelope(kind, of) == [kind |-> kind, of |-> of, generation |-> generation,
                       run |-> run, sequence |-> sequence + 1]

Requests == [client : Clients, id : 1 .. MaxRequests,
             state : {"waiting", "resolved", "rejected"}, answer : 0 .. MaxRequests]

NoSpan == [run |-> 0, from |-> 0, to |-> 0]

Init ==
    /\ page = [c \in Clients |-> NoPage]
    /\ selected = [p \in Pages |-> NoClient]
    /\ left = [c \in Clients |-> "new"]
    /\ phase = [c \in Clients |-> "new"]
    /\ hostGeneration = [c \in Clients |-> 0]
    /\ lastSequence = [c \in Clients |-> 0]
    /\ requests = <<>> /\ unsent = {}
    /\ queue = [c \in Clients |-> <<>>] /\ listening = {}
    /\ run = 1 /\ generation = 1 /\ sequence = 0 /\ asked = {}
    /\ missed = [c \in Clients |-> {}]
    /\ span = [c \in Clients |-> NoSpan]

-----------------------------------------------------------------------------
(* Requests.  The pending map of a client is its waiting requests.         *)

IsPending(n, c) == requests[n].client = c /\ requests[n].state = "waiting"

\* Numbers a request by those that wait.
NextIdMistake(c) == Cardinality({n \in DOMAIN requests : IsPending(n, c)}) + 1

(* Every client counts from 1.                                             *)
NextId(c) == Cardinality({n \in DOMAIN requests : requests[n].client = c}) + 1

NewRequest(c) == [client |-> c, id |-> NextId(c), state |-> "waiting", answer |-> 0]

(* loadCatalog and the requests of a page: one request stands for the      *)
(* pages of a list.  Beyond the bound a request is left out.               *)
WithRequest(c) ==
    IF Len(requests) < MaxRequests THEN Append(requests, NewRequest(c)) ELSE requests

Send(c) ==
    /\ requests' = WithRequest(c)
    /\ unsent' = unsent \cup (DOMAIN requests' \ DOMAIN requests)

(* rejectPending for all that a client has.                                *)
RejectAll(c) ==
    [n \in DOMAIN requests |->
        IF IsPending(n, c) THEN [requests[n] EXCEPT !.state = "rejected"] ELSE requests[n]]

(* The answer to request m resolves what is pending under its id.          *)
Resolve(all, c, m) ==
    [n \in DOMAIN all |->
        IF all[n].client = c /\ all[n].state = "waiting" /\ all[n].id = requests[m].id
        THEN [all[n] EXCEPT !.state = "resolved", !.answer = m] ELSE all[n]]

(* A page asks for what its catalog shows it; a client whose socket ended  *)
(* is still used.                                                          *)
UserRequest(c) ==
    /\ page[c] # NoPage /\ selected[page[c]] = c
    /\ \E n \in DOMAIN requests : requests[n].client = c /\ requests[n].state = "resolved"
    /\ Len(requests) < MaxRequests
    /\ Send(c)
    /\ UNCHANGED <<pageVars, clientVars, wireVars, agentVars, pastVars>>

(* The timer of a request fires, or its fetch fails: refused, or lost      *)
(* before or after the Gateway forwarded it.                               *)
RequestFails(n) ==
    /\ n \in DOMAIN requests /\ requests[n].state = "waiting"
    /\ requests' = [requests EXCEPT ![n].state = "rejected"]
    /\ UNCHANGED <<pageVars, clientVars, unsent, wireVars, agentVars, pastVars>>

-----------------------------------------------------------------------------
(* connect() and disconnect().                                             *)

\* Closes a socket that is open, and leaves one that is opening to itself.
AfterDisconnectMistake(c) ==
    IF phase[c] \in {"ticket", "opening", "late"} THEN phase[c] ELSE "closed"

(* disconnect() closes the socket the client has.  One that waits for its  *)
(* ticket has none yet, and connect() goes on.                             *)
AfterDisconnect(c) == IF phase[c] = "ticket" THEN "ticket" ELSE "closed"

Disconnect(c) ==
    /\ left' = [left EXCEPT ![c] = phase[c]]
    /\ requests' = RejectAll(c)
    /\ listening' = IF HasSocket(c) THEN listening \ {c} ELSE listening
    /\ queue' = [queue EXCEPT ![c] = IF HasSocket(c) THEN <<>> ELSE @]

(* selectHost: the page's client is disconnected, a new one takes its      *)
(* place and connects.  The list the host was chosen from may be old.      *)
SelectHost(p, c, g) ==
    /\ phase[c] = "new"
    /\ page' = [page EXCEPT ![c] = p]
    /\ selected' = [selected EXCEPT ![p] = c]
    /\ hostGeneration' = [hostGeneration EXCEPT ![c] = g]
    /\ IF selected[p] = NoClient
       THEN /\ phase' = [phase EXCEPT ![c] = "ticket"]
            /\ UNCHANGED <<left, requests, wireVars>>
       ELSE /\ Disconnect(selected[p])
            /\ phase' = [phase EXCEPT ![selected[p]] = AfterDisconnect(selected[p]),
                                      ![c] = "ticket"]
    /\ UNCHANGED <<lastSequence, unsent, agentVars, pastVars>>

(* The page is closed, or the user logs out.                               *)
Leave(p) ==
    /\ selected[p] # NoClient
    /\ left[selected[p]] = "new"
    /\ Disconnect(selected[p])
    /\ phase' = [phase EXCEPT ![selected[p]] = AfterDisconnect(selected[p])]
    /\ UNCHANGED <<page, selected, hostGeneration, lastSequence, unsent, agentVars, pastVars>>

Goto(c, to) ==
    /\ phase' = [phase EXCEPT ![c] = to]
    /\ UNCHANGED <<pageVars, hostGeneration, lastSequence, agentVars, pastVars>>

TicketArrives(c) ==
    /\ phase[c] = "ticket"
    /\ Goto(c, "opening")
    /\ UNCHANGED <<requests, unsent, wireVars>>

TicketFails(c) ==
    /\ phase[c] = "ticket"
    /\ Goto(c, "closed")
    /\ UNCHANGED <<requests, unsent, wireVars>>

(* The timer of connect(): it rejects, and leaves the socket as it is.     *)
ConnectTimesOut(c) ==
    /\ phase[c] = "opening"
    /\ Goto(c, "late")
    /\ UNCHANGED <<requests, unsent, wireVars>>

(* The client has connected, and the page loads the catalog through it.    *)
SocketOpens(c) ==
    /\ phase[c] = "opening"
    /\ Goto(c, "open")
    /\ Send(c)
    /\ UNCHANGED wireVars

(* The socket opens after connect() has given up.                          *)
SocketOpensLate(c) ==
    /\ phase[c] = "late"
    /\ Goto(c, "lateOpen")
    /\ UNCHANGED <<requests, unsent, wireVars>>

(* The socket fails or ends; only the handler of a client that connected   *)
(* rejects what is pending.                                                *)
SocketEnds(c) ==
    /\ HasSocket(c)
    /\ Goto(c, "closed")
    /\ requests' = IF phase[c] = "open" THEN RejectAll(c) ELSE requests
    /\ listening' = listening \ {c}
    /\ queue' = [queue EXCEPT ![c] = <<>>]
    /\ UNCHANGED unsent

-----------------------------------------------------------------------------
(* The Gateway and the Host Agent, as the clients see them.                *)

(* The event socket's task runs, before or after the browser's open event. *)
Subscribe(c) ==
    /\ HasSocket(c) /\ c \notin listening
    /\ listening' = listening \cup {c}
    /\ UNCHANGED <<pageVars, clientVars, requests, unsent, queue, agentVars, pastVars>>

(* A request is refused unless it names the agent's generation.            *)
Forward(n) ==
    /\ n \in unsent
    /\ hostGeneration[requests[n].client] = generation
    /\ unsent' = unsent \ {n}
    /\ asked' = asked \cup {n}
    /\ UNCHANGED <<pageVars, clientVars, requests, wireVars, run, generation, sequence,
                   pastVars>>

(* The envelopes of q, without the notice of a loss that may come first;   *)
(* what becomes of q with e in a channel that holds EventCap of them.      *)
Kept(q) == IF q # <<>> /\ Head(q) = Resync THEN Tail(q) ELSE q
Full(q) == Len(Kept(q)) >= EventCap
Queued(q, e) == IF Full(q) THEN <<Resync>> \o Append(Tail(Kept(q)), e) ELSE Append(q, e)

(* An envelope is broadcast; a full channel loses its oldest one and the   *)
(* receiver is told.                                                       *)
Publish(e) ==
    /\ sequence < MaxFrames
    /\ sequence' = sequence + 1
    /\ queue' = [c \in Clients |-> IF c \in listening THEN Queued(queue[c], e) ELSE queue[c]]
    /\ missed' = [c \in Clients |->
                     IF c \in listening /\ Full(queue[c])
                        /\ Head(Kept(queue[c])).generation = hostGeneration[c]
                     THEN missed[c] \cup {Head(Kept(queue[c]))} ELSE missed[c]]
    /\ UNCHANGED <<pageVars, clientVars, requests, unsent, listening, run, generation, span>>

Answer(n) ==
    /\ n \in asked
    /\ asked' = asked \ {n}
    /\ Publish(Envelope("answer", n))

Notify ==
    /\ Publish(Envelope("notification", 0))
    /\ UNCHANGED asked

(* A frame for another session takes a number as well.                     *)
NumberForOthers ==
    /\ sequence < MaxFrames
    /\ sequence' = sequence + 1
    /\ UNCHANGED <<pageVars, clientVars, requests, unsent, wireVars, run, generation, asked,
                   pastVars>>

(* The agent is started again, by default with the generation it had.      *)
RestartAgent ==
    /\ run < MaxRuns
    /\ run' = run + 1
    /\ generation' \in {generation, generation + 1}
    /\ sequence' = 0 /\ asked' = {}
    /\ UNCHANGED <<pageVars, clientVars, requests, unsent, wireVars, pastVars>>

-----------------------------------------------------------------------------
(* receiveEvent.                                                           *)

NextEvent(c) == Head(queue[c])

Taken(c) ==
    /\ Receives(c) /\ queue[c] # <<>>
    /\ queue' = [queue EXCEPT ![c] = Tail(@)]
    /\ UNCHANGED <<pageVars, phase, hostGeneration, listening, agentVars>>

IsMine(c, e) == e # Resync /\ e.generation = hostGeneration[c]

(* onResyncRequired: the page loads the catalog again.                     *)
ReceiveResync(c) ==
    /\ Taken(c) /\ NextEvent(c) = Resync
    /\ Send(c)
    /\ missed' = [missed EXCEPT ![c] = {}]
    /\ UNCHANGED <<lastSequence, span>>

(* A message over 1 MiB is dropped unseen.                                 *)
DropOversized(c) ==
    /\ Taken(c) /\ NextEvent(c) # Resync
    /\ missed' = [missed EXCEPT ![c] = IF IsMine(c, NextEvent(c)) THEN @ \cup {NextEvent(c)} ELSE @]
    /\ UNCHANGED <<lastSequence, requests, unsent, span>>

(* Envelopes of another generation, and numbers that are not new.          *)
Ignore(c) ==
    /\ Taken(c) /\ NextEvent(c) # Resync
    /\ IsMine(c, NextEvent(c)) => NextEvent(c).sequence <= lastSequence[c]
    /\ missed' = [missed EXCEPT ![c] = IF IsMine(c, NextEvent(c)) THEN @ \cup {NextEvent(c)} ELSE @]
    /\ UNCHANGED <<lastSequence, requests, unsent, span>>

\* Off by one: a single lost envelope is overlooked.
GapMistake(c, e) == lastSequence[c] # 0 /\ e.sequence > lastSequence[c] + 2

(* The first envelope may have any number.                                 *)
Gap(c, e) == lastSequence[c] # 0 /\ e.sequence # lastSequence[c] + 1

(* A new number is handled; a gap before it makes the page load the        *)
(* catalog first.                                                          *)
Receive(c) ==
    /\ Taken(c) /\ IsMine(c, NextEvent(c))
    /\ LET e == NextEvent(c)
           all == IF Gap(c, e) THEN WithRequest(c) ELSE requests
       IN
       /\ e.sequence > lastSequence[c]
       /\ lastSequence' = [lastSequence EXCEPT ![c] = e.sequence]
       /\ requests' = IF e.kind = "answer" THEN Resolve(all, c, e.of) ELSE all
       /\ unsent' = unsent \cup (DOMAIN all \ DOMAIN requests)
       /\ missed' = [missed EXCEPT ![c] = IF Gap(c, e) THEN {} ELSE @]
       /\ span' = [span EXCEPT ![c] =
                      IF @.run = e.run THEN [@ EXCEPT !.to = e.sequence]
                      ELSE [run |-> e.run, from |-> e.sequence, to |-> e.sequence]]

-----------------------------------------------------------------------------
Connecting(c) ==
    \/ TicketArrives(c) \/ TicketFails(c) \/ ConnectTimesOut(c)
    \/ SocketOpens(c) \/ SocketOpensLate(c) \/ SocketEnds(c) \/ Subscribe(c)

Receiving(c) == ReceiveResync(c) \/ DropOversized(c) \/ Ignore(c) \/ Receive(c)

Next ==
    \/ \E p \in Pages : Leave(p) \/ \E c \in Clients, g \in 1 .. generation : SelectHost(p, c, g)
    \/ \E c \in Clients : Connecting(c) \/ Receiving(c) \/ UserRequest(c)
    \/ \E n \in DOMAIN requests : RequestFails(n) \/ Forward(n) \/ Answer(n)
    \/ Notify \/ NumberForOthers \/ RestartAgent

Spec == Init /\ [][Next]_vars

-----------------------------------------------------------------------------
Envelopes == [kind : {"answer", "notification"}, of : 0 .. MaxRequests, generation : Nat,
              run : Nat \ {0}, sequence : Nat]

TypeOK ==
    /\ page \in [Clients -> Pages \cup {NoPage}]
    /\ selected \in [Pages -> Clients \cup {NoClient}]
    /\ left \in [Clients -> Phases] /\ phase \in [Clients -> Phases]
    /\ hostGeneration \in [Clients -> Nat] /\ lastSequence \in [Clients -> Nat]
    /\ requests \in Seq(Requests) /\ Len(requests) <= MaxRequests
    /\ unsent \subseteq DOMAIN requests /\ asked \subseteq DOMAIN requests
    /\ queue \in [Clients -> Seq(Envelopes \cup {Resync})] /\ listening \subseteq Clients
    /\ run \in Nat \ {0} /\ generation \in Nat /\ sequence \in Nat
    /\ missed \in [Clients -> SUBSET Envelopes]
    /\ span \in [Clients -> [run : Nat, from : Nat, to : Nat]]

(* A client never takes the answer to one of its requests for the answer   *)
(* to another, over resyncs, timeouts and agents that start again.         *)
NoAnswerIsMixedUp ==
    \A n \in DOMAIN requests :
        requests[n].state = "resolved" =>
            LET m == requests[n].answer IN
            requests[m].client = requests[n].client => m = n

(* Of the envelopes of one agent's run, none between the first and the     *)
(* last that a client has handled was lost, to a full channel or for its   *)
(* size, without the page having loaded its catalog again since.           *)
LossIsNoticed ==
    \A c \in Clients : \A e \in missed[c] :
        e.run = span[c].run => e.sequence < span[c].from \/ e.sequence > span[c].to

(* A page hears its host through one client at a time, so that it handles  *)
(* no notification twice - unless it left a client that waited for its     *)
(* ticket, whose socket nobody closes.                                     *)
OneSocketPerPage ==
    \A c, d \in Clients :
        (c # d /\ page[c] = page[d] /\ Receives(c) /\ Receives(d))
            => left[c] = "ticket" \/ left[d] = "ticket"
=============================================================================
