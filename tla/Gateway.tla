------------------------------- MODULE Gateway -------------------------------
(***************************************************************************)
(* The Rust Gateway (services/gateway): HTTP handlers of the browser API,  *)
(* the browsers' event sockets and the Host Agents' sockets, all running   *)
(* concurrently over the session map, the ticket map, the registry and one *)
(* broadcast channel.                                                      *)
(*                                                                         *)
(* A handler is a process that stops at every lock and channel operation:  *)
(* each action below is what happens between two of them.  When an HTTP    *)
(* client goes away its handler's future is dropped where it stands; the   *)
(* two kinds of socket run in tasks of their own and are not dropped.      *)
(***************************************************************************)
EXTENDS SessionRegistry, Sequences, FiniteSets

CONSTANTS
    Admin,         \* the one configured user
    Requests,      \* HTTP requests in flight at once
    Tickets,       \* WebSocket tickets; random, never drawn twice
    Sockets,       \* browser event sockets
    MaxGeneration, \* bound on the generations agents connect with
    RouteCap,      \* capacity of a route's mpsc channel (256 in the code)
    EventCap,      \* capacity of the broadcast channel (1024 in the code)
    MaxEvents,     \* bound on the events agents send
    NoSession, NoAgent, NoTicket, NoHost,
    Everyone       \* browser_session_id: None

ASSUME AdminAssumption == Admin \in Users
ASSUME BoundsAssumption ==
    /\ MaxGeneration \in Nat /\ MaxEvents \in Nat
    /\ RouteCap \in Nat \ {0} /\ EventCap \in Nat \ {0}
ASSUME NullsAssumption ==
    /\ NoSession \notin Sessions /\ Everyone \notin Sessions
    /\ NoAgent \notin Agents /\ NoTicket \notin Tickets /\ NoHost \notin Hosts

VARIABLES
    sessions,   \* tokens in the session map; one value for token, id and CSRF
    expired,    \* sessions older than SESSION_TTL, in the map or not
    issued,     \* sessions any login ever created
    tickets,    \* ticket -> the session it was issued to, NoSession if not in the map
    minted,     \* history: ticket -> the session it was ever issued to
    lapsed,     \* tickets older than WS_TICKET_TTL
    req,        \* HTTP handlers in flight
    conn,       \* agent sockets
    chan,       \* agent -> frames queued on its route
    highest,    \* history: host -> largest generation ever registered
    events,     \* everything ever broadcast; receivers keep positions in it
    sock,       \* browser event sockets
    seen,       \* history: socket -> positions of events its browser received
    resynced    \* history: socket -> the browser knows to refetch what came
                \*   before this position: it subscribed or was told so there

webVars    == <<sessions, expired, issued>>
ticketVars == <<tickets, minted, lapsed>>
agentVars  == <<conn, chan, highest>>
sockVars   == <<sock, seen, resynced>>
vars == <<hosts, browsers, webVars, ticketVars, req, agentVars, events, sockVars>>

-----------------------------------------------------------------------------
Generations == 1 .. MaxGeneration

Frames == [session : Sessions, host : Hosts, generation : Nat]

(* What an agent may send: an App Server message for one session or for    *)
(* everyone, a status, or a capability report.                             *)
AgentFrames == [kind : {"message"}, to : Sessions \cup {Everyone}]
               \cup [kind : {"status", "capabilities"}, to : {Everyone}]
NoFrame == [kind |-> "none", to |-> Everyone]

IdleRequest == [pc |-> "idle", session |-> NoSession, host |-> NoHost,
                generation |-> 0, sender |-> NoAgent]
IdleConn == [phase |-> "idle", host |-> NoHost, generation |-> 0, frame |-> NoFrame]
IdleSock == [phase |-> "idle", session |-> NoSession, ticket |-> NoTicket,
             next |-> 1]

RequestPcs == {"idle", "insert", "remove", "unregister", "issue", "redeem",
               "browser", "host", "send"}
ConnPhases == {"idle", "hello", "serving", "forwarding", "updating",
               "publishing", "closing"}
SockPhases == {"idle", "upgrading", "open", "sending", "resyncing", "closed"}

(* The agent_socket loop is running, or is about to unregister.            *)
Serving(a) == conn[a].phase \notin {"idle", "hello"}

Live(s) == s \in sessions /\ s \notin expired

ReqRecords == [pc : RequestPcs, session : Sessions \cup {NoSession},
               host : Hosts \cup {NoHost}, generation : Nat,
               sender : Agents \cup {NoAgent}]
ConnRecords == [phase : ConnPhases, host : Hosts \cup {NoHost},
                generation : Nat, frame : AgentFrames \cup {NoFrame}]
SockRecords == [phase : SockPhases, session : Sessions \cup {NoSession},
                ticket : Tickets \cup {NoTicket},
                next : Nat \ {0}]

WebTypeOK ==
    /\ sessions \in SUBSET Sessions
    /\ expired \in SUBSET Sessions
    /\ issued \in SUBSET Sessions
TicketTypeOK ==
    /\ tickets \in [Tickets -> Sessions \cup {NoSession}]
    /\ minted \in [Tickets -> Sessions \cup {NoSession}]
    /\ lapsed \in SUBSET Tickets
ReqTypeOK ==
    /\ req \in [Requests -> ReqRecords]
    /\ \A r \in Requests :
           /\ req[r].pc # "idle" => req[r].session \in Sessions
           /\ req[r].pc = "send" => req[r].host \in Hosts /\ req[r].sender \in Agents
AgentTypeOK ==
    /\ conn \in [Agents -> ConnRecords]
    /\ \A a \in Agents : conn[a].phase # "idle" => conn[a].host \in Hosts
    /\ chan \in [Agents -> Seq(Frames)]
    /\ highest \in [Hosts -> Nat]
SockTypeOK ==
    /\ events \in Seq(Sessions \cup {Everyone})
    /\ sock \in [Sockets -> SockRecords]
    /\ seen \in [Sockets -> SUBSET Nat]
    /\ resynced \in [Sockets -> Nat]

TypeOK == /\ RegistryTypeOK /\ WebTypeOK /\ TicketTypeOK
          /\ ReqTypeOK /\ AgentTypeOK /\ SockTypeOK

Init ==
    /\ RegistryInit
    /\ sessions = {} /\ expired = {} /\ issued = {}
    /\ tickets = [t \in Tickets |-> NoSession] /\ minted = tickets /\ lapsed = {}
    /\ req = [r \in Requests |-> IdleRequest]
    /\ conn = [a \in Agents |-> IdleConn]
    /\ chan = [a \in Agents |-> <<>>]
    /\ highest = [h \in Hosts |-> 0]
    /\ events = <<>>
    /\ sock = [w \in Sockets |-> IdleSock]
    /\ seen = [w \in Sockets |-> {}]
    /\ resynced = [w \in Sockets |-> 1]

-----------------------------------------------------------------------------
(* The clock.  The two lifetimes are independent of everything else.       *)

SessionExpires(s) ==
    /\ s \in sessions \ expired
    /\ expired' = expired \cup {s}
    /\ UNCHANGED <<hosts, browsers, sessions, issued, ticketVars, req, agentVars,
                   events, sockVars>>

TicketExpires(t) ==
    /\ minted[t] # NoSession /\ t \notin lapsed
    /\ lapsed' = lapsed \cup {t}
    /\ UNCHANGED <<hosts, browsers, webVars, tickets, minted, req, agentVars,
                   events, sockVars>>

-----------------------------------------------------------------------------
(* HTTP handlers.                                                          *)

Goto(r, pc) == req' = [req EXCEPT ![r].pc = pc]
Finish(r)   == req' = [req EXCEPT ![r] = IdleRequest]

(* login: the password was right; the registry learns of the session       *)
(* before the session map does.                                            *)
Login(r, s) ==
    /\ req[r].pc = "idle"
    /\ s \notin issued
    /\ issued' = issued \cup {s}
    /\ RegisterBrowser(s, Admin)
    /\ req' = [req EXCEPT ![r].pc = "insert", ![r].session = s]
    /\ UNCHANGED <<hosts, sessions, expired, ticketVars, agentVars, events, sockVars>>

InsertSession(r) ==
    /\ req[r].pc = "insert"
    /\ sessions' = sessions \cup {req[r].session}
    /\ Finish(r)
    /\ UNCHANGED <<hosts, browsers, expired, issued, ticketVars, agentVars,
                   events, sockVars>>

(* Every other handler starts with authenticated_session: it reads the     *)
(* session once and works on the clone; a session past its lifetime is     *)
(* evicted by the two steps that also make up a logout.  Refused requests  *)
(* change nothing and are left out.                                        *)
AfterAuthentication == {"remove", "issue", "redeem", "browser"}

Authenticate(r, s, pc) ==
    /\ req[r].pc = "idle"
    /\ s \in sessions
    /\ s \in expired => pc = "remove"
    /\ req' = [req EXCEPT ![r].pc = pc, ![r].session = s]
    /\ UNCHANGED <<hosts, browsers, webVars, ticketVars, agentVars, events, sockVars>>

\* Forgets the browser before the session is out of the map.
RemoveSessionMistake(r) ==
    /\ req[r].pc = "remove"
    /\ UnregisterBrowser(req[r].session)
    /\ Goto(r, "unregister")
    /\ UNCHANGED <<hosts, webVars, ticketVars, agentVars, events, sockVars>>

(* logout, and the eviction of an expired session.                         *)
RemoveSession(r) ==
    /\ req[r].pc = "remove"
    /\ sessions' = sessions \ {req[r].session}
    /\ Goto(r, "unregister")
    /\ UNCHANGED <<hosts, browsers, expired, issued, ticketVars, agentVars,
                   events, sockVars>>

ForgetBrowser(r) ==
    /\ req[r].pc = "unregister"
    /\ UnregisterBrowser(req[r].session)
    /\ Finish(r)
    /\ UNCHANGED <<hosts, webVars, ticketVars, agentVars, events, sockVars>>

IssueTicket(r, t) ==
    /\ req[r].pc = "issue"
    /\ minted[t] = NoSession
    /\ minted' = [minted EXCEPT ![t] = req[r].session]
    /\ tickets' = [tickets EXCEPT ![t] = req[r].session]
    /\ Finish(r)
    /\ UNCHANGED <<hosts, browsers, webVars, lapsed, agentVars, events, sockVars>>

(* browser_events: the ticket leaves the map whatever becomes of the       *)
(* request, and only then is compared with the session and the clock.      *)
TakeTicket(t) == tickets' = [tickets EXCEPT ![t] = NoSession]

TicketAdmits(t, s) == tickets[t] = s /\ t \notin lapsed

RefuseSocket(r, t) ==
    /\ req[r].pc = "redeem"
    /\ ~TicketAdmits(t, req[r].session)
    /\ TakeTicket(t)
    /\ Finish(r)
    /\ UNCHANGED <<hosts, browsers, webVars, minted, lapsed, agentVars, events, sockVars>>

UpgradeSocket(r, t, w) ==
    /\ req[r].pc = "redeem"
    /\ TicketAdmits(t, req[r].session)
    /\ sock[w].phase = "idle"
    /\ TakeTicket(t)
    /\ sock' = [sock EXCEPT ![w].phase = "upgrading", ![w].session = req[r].session,
                            ![w].ticket = t]
    /\ Finish(r)
    /\ UNCHANGED <<hosts, browsers, webVars, minted, lapsed, agentVars, events,
                   seen, resynced>>

(* browser_rpc: route_for_browser under the browsers lock, then under the  *)
(* hosts lock, then the wait for room in the channel it returned.          *)
FindBrowser(r) ==
    /\ req[r].pc = "browser"
    /\ IF KnownBrowser(req[r].session) THEN Goto(r, "host") ELSE Finish(r)
    /\ UNCHANGED <<hosts, browsers, webVars, ticketVars, agentVars, events, sockVars>>

FindRoute(r, h, g) ==
    /\ req[r].pc = "host"
    /\ IF Routable(h, Admin, g)
       THEN req' = [req EXCEPT ![r].pc = "send", ![r].host = h,
                               ![r].generation = g, ![r].sender = hosts[h].sender]
       ELSE Finish(r)
    /\ UNCHANGED <<hosts, browsers, webVars, ticketVars, agentVars, events, sockVars>>

\* Waits for room as if the receiver could not go away.
ReceiverAliveMistake(a) == TRUE

ReceiverAlive(a) == Serving(a)

SendFrame(r) ==
    /\ req[r].pc = "send"
    /\ LET a == req[r].sender IN
       IF ReceiverAlive(a)
       THEN /\ Len(chan[a]) < RouteCap
            /\ chan' = [chan EXCEPT ![a] =
                           Append(@, [session |-> req[r].session, host |-> req[r].host,
                                      generation |-> req[r].generation])]
       ELSE UNCHANGED chan
    /\ Finish(r)
    /\ UNCHANGED <<hosts, browsers, webVars, ticketVars, conn, highest, events, sockVars>>

(* The HTTP client goes away and its handler is dropped at an await.       *)
DropRequest(r) ==
    /\ req[r].pc # "idle"
    /\ Finish(r)
    /\ UNCHANGED <<hosts, browsers, webVars, ticketVars, agentVars, events, sockVars>>

-----------------------------------------------------------------------------
(* Host Agent sockets.  A slot of Agents is one connection; it is used     *)
(* again once the connection is over and no handler holds its sender.      *)

\* The loop keeps a clone of the sender it registered.
SendersMistake(a) == {r \in Requests : req[r].sender = a} \cup {b \in {a} : Serving(b)}

Senders(a) == {r \in Requests : req[r].sender = a}
              \cup {h \in Hosts : Registered(h) /\ hosts[h].sender = a}

AgentConnect(a, h, g) ==
    /\ conn[a].phase = "idle"
    /\ \A r \in Requests : req[r].sender # a
    /\ conn' = [conn EXCEPT ![a].phase = "hello", ![a].host = h, ![a].generation = g]
    /\ UNCHANGED <<hosts, browsers, webVars, ticketVars, req, chan, highest,
                   events, sockVars>>

AgentHello(a) ==
    LET h == conn[a].host
        g == conn[a].generation IN
    /\ conn[a].phase = "hello"
    /\ MayRegisterHost(h, Admin, g)
    /\ RegisterHost(h, Admin, g, a)
    /\ highest' = [highest EXCEPT ![h] = IF g > @ THEN g ELSE @]
    /\ conn' = [conn EXCEPT ![a].phase = "serving"]
    /\ UNCHANGED <<browsers, webVars, ticketVars, req, chan, events, sockVars>>

(* No hello in time, a wrong one, or the registry refuses it.              *)
AgentRejected(a) ==
    /\ conn[a].phase = "hello"
    /\ conn' = [conn EXCEPT ![a] = IdleConn]
    /\ UNCHANGED <<hosts, browsers, webVars, ticketVars, req, chan, highest,
                   events, sockVars>>

(* select!, first branch: a frame for the agent, or no sender is left.     *)
ForwardFrame(a) ==
    /\ conn[a].phase = "serving"
    /\ chan[a] # <<>>
    /\ chan' = [chan EXCEPT ![a] = Tail(@)]
    /\ conn' = [conn EXCEPT ![a].phase = "forwarding"]
    /\ UNCHANGED <<hosts, browsers, webVars, ticketVars, req, highest, events, sockVars>>

FrameForwarded(a) ==
    /\ conn[a].phase = "forwarding"
    /\ \E phase \in {"serving", "closing"} :
           conn' = [conn EXCEPT ![a].phase = phase]
    /\ UNCHANGED <<hosts, browsers, webVars, ticketVars, req, chan, highest,
                   events, sockVars>>

RouteGone(a) ==
    /\ conn[a].phase = "serving"
    /\ chan[a] = <<>>
    /\ Senders(a) = {}
    /\ conn' = [conn EXCEPT ![a].phase = "closing"]
    /\ UNCHANGED <<hosts, browsers, webVars, ticketVars, req, chan, highest,
                   events, sockVars>>

(* select!, second branch: a frame from the agent.  The registry is asked  *)
(* first; whatever is done with the frame happens after that lock is       *)
(* released.                                                               *)
EventsPending == Cardinality({a \in Agents : conn[a].phase \in {"updating", "publishing"}})

AcceptFrame(a, f) ==
    /\ conn[a].phase = "serving"
    /\ Len(events) + EventsPending < MaxEvents
    /\ AcceptsHostEvent(conn[a].host, conn[a].generation)
    /\ conn' = [conn EXCEPT
                   ![a].phase = IF f.kind = "capabilities" THEN "updating" ELSE "publishing",
                   ![a].frame = f]
    /\ UNCHANGED <<hosts, browsers, webVars, ticketVars, req, chan, highest,
                   events, sockVars>>

(* The agent is gone, sent something other than text, claims another host  *)
(* or generation, or the registry no longer accepts its events.            *)
AgentStops(a) ==
    /\ conn[a].phase = "serving"
    /\ conn' = [conn EXCEPT ![a].phase = "closing"]
    /\ UNCHANGED <<hosts, browsers, webVars, ticketVars, req, chan, highest,
                   events, sockVars>>

UpdateCapabilities(a) ==
    /\ conn[a].phase = "updating"
    /\ IF MayUpdateCapabilities(conn[a].host, conn[a].generation)
       THEN /\ UpdateHostCapabilities(conn[a].host, a)
            /\ conn' = [conn EXCEPT ![a].phase = "publishing"]
       ELSE /\ conn' = [conn EXCEPT ![a].phase = "closing", ![a].frame = NoFrame]
            /\ UNCHANGED hosts
    /\ UNCHANGED <<browsers, webVars, ticketVars, req, chan, highest, events, sockVars>>

Publish(a) ==
    /\ conn[a].phase = "publishing"
    /\ events' = Append(events, conn[a].frame.to)
    /\ conn' = [conn EXCEPT ![a].phase = "serving", ![a].frame = NoFrame]
    /\ UNCHANGED <<hosts, browsers, webVars, ticketVars, req, chan, highest, sockVars>>

(* The one way out of the loop; the receiver is dropped only afterwards.   *)
AgentCloses(a) ==
    /\ conn[a].phase = "closing"
    /\ UnregisterHost(conn[a].host, conn[a].generation)
    /\ conn' = [conn EXCEPT ![a] = IdleConn]
    /\ chan' = [chan EXCEPT ![a] = <<>>]
    /\ UNCHANGED <<browsers, webVars, ticketVars, req, highest, events, sockVars>>

-----------------------------------------------------------------------------
(* Browser event sockets.                                                  *)

Addressed(w, p) == events[p] \in {Everyone, sock[w].session}

(* The oldest event the broadcast channel still holds.                     *)
Oldest == IF Len(events) > EventCap THEN Len(events) - EventCap + 1 ELSE 1

CloseSocket(w) ==
    /\ sock' = [sock EXCEPT ![w].phase = "closed"]
    /\ UNCHANGED <<seen, resynced>>

Subscribe(w) ==
    /\ sock[w].phase = "upgrading"
    /\ sock' = [sock EXCEPT ![w].phase = "open", ![w].next = Len(events) + 1]
    /\ resynced' = [resynced EXCEPT ![w] = Len(events) + 1]
    /\ UNCHANGED <<hosts, browsers, webVars, ticketVars, req, agentVars, events, seen>>

\* Looks for the session, not at its lifetime.
SessionCheckMistake(w) ==
    /\ sock[w].phase = "open"
    /\ sock[w].session \notin sessions
    /\ CloseSocket(w)
    /\ UNCHANGED <<hosts, browsers, webVars, ticketVars, req, agentVars, events>>

(* The tick that comes every second.                                       *)
SessionCheck(w) ==
    /\ sock[w].phase = "open"
    /\ ~Live(sock[w].session)
    /\ CloseSocket(w)
    /\ UNCHANGED <<hosts, browsers, webVars, ticketVars, req, agentVars, events>>

ReceiveEvent(w) ==
    LET p == sock[w].next IN
    /\ sock[w].phase = "open"
    /\ p \in Oldest .. Len(events)
    /\ sock' = [sock EXCEPT ![w].next = p + 1,
                            ![w].phase = IF Addressed(w, p) THEN "sending" ELSE "open"]
    /\ UNCHANGED <<hosts, browsers, webVars, ticketVars, req, agentVars, events,
                   seen, resynced>>

\* Skips what was lost and says nothing.
LaggedMistake(w) ==
    /\ sock[w].phase = "open"
    /\ sock[w].next < Oldest
    /\ sock' = [sock EXCEPT ![w].next = Oldest]
    /\ UNCHANGED <<hosts, browsers, webVars, ticketVars, req, agentVars, events,
                   seen, resynced>>

(* RecvError::Lagged: the receiver skips to the oldest event still held.   *)
Lagged(w) ==
    /\ sock[w].phase = "open"
    /\ sock[w].next < Oldest
    /\ sock' = [sock EXCEPT ![w].phase = "resyncing", ![w].next = Oldest]
    /\ UNCHANGED <<hosts, browsers, webVars, ticketVars, req, agentVars, events,
                   seen, resynced>>

EventSent(w) ==
    /\ sock[w].phase = "sending"
    /\ sock' = [sock EXCEPT ![w].phase = "open"]
    /\ seen' = [seen EXCEPT ![w] = @ \cup {sock[w].next - 1}]
    /\ UNCHANGED <<hosts, browsers, webVars, ticketVars, req, agentVars, events, resynced>>

ResyncSent(w) ==
    /\ sock[w].phase = "resyncing"
    /\ sock' = [sock EXCEPT ![w].phase = "open"]
    /\ resynced' = [resynced EXCEPT ![w] = sock[w].next]
    /\ UNCHANGED <<hosts, browsers, webVars, ticketVars, req, agentVars, events, seen>>

(* The browser closes the socket, or a send to it fails.  A failed send of *)
(* resyncRequired is ignored by the code, but the next read finds the      *)
(* connection gone: the two are one step here.                             *)
BrowserLeaves(w) ==
    /\ sock[w].phase \in {"upgrading", "open", "sending", "resyncing"}
    /\ CloseSocket(w)
    /\ UNCHANGED <<hosts, browsers, webVars, ticketVars, req, agentVars, events>>

-----------------------------------------------------------------------------
(* Time passes; the four kinds of process take their steps.                *)
Clock ==
    \/ \E s \in Sessions : SessionExpires(s)
    \/ \E t \in Tickets : TicketExpires(t)

Handler(r) ==
    \/ \E s \in Sessions : Login(r, s)
    \/ InsertSession(r)
    \/ \E s \in Sessions, pc \in AfterAuthentication : Authenticate(r, s, pc)
    \/ RemoveSession(r)
    \/ ForgetBrowser(r)
    \/ \E t \in Tickets : IssueTicket(r, t)
    \/ \E t \in Tickets : RefuseSocket(r, t)
    \/ \E t \in Tickets, w \in Sockets : UpgradeSocket(r, t, w)
    \/ FindBrowser(r)
    \/ \E h \in Hosts, g \in Generations : FindRoute(r, h, g)
    \/ SendFrame(r)
    \/ DropRequest(r)

AgentSocket(a) ==
    \/ \E h \in Hosts, g \in Generations : AgentConnect(a, h, g)
    \/ AgentHello(a)
    \/ AgentRejected(a)
    \/ ForwardFrame(a)
    \/ FrameForwarded(a)
    \/ RouteGone(a)
    \/ \E f \in AgentFrames : AcceptFrame(a, f)
    \/ AgentStops(a)
    \/ UpdateCapabilities(a)
    \/ Publish(a)
    \/ AgentCloses(a)

BrowserSocket(w) ==
    \/ Subscribe(w)
    \/ SessionCheck(w)
    \/ ReceiveEvent(w)
    \/ Lagged(w)
    \/ EventSent(w)
    \/ ResyncSent(w)
    \/ BrowserLeaves(w)

Next ==
    \/ Clock
    \/ \E r \in Requests : Handler(r)
    \/ \E a \in Agents : AgentSocket(a)
    \/ \E w \in Sockets : BrowserSocket(w)

Spec == Init /\ [][Next]_vars

(* The runtime schedules every task whose await is over: weak fairness.    *)
(* The channel serves its waiting senders in order, and select! picks      *)
(* among its ready branches at random, so a branch that is ready again and *)
(* again is taken in the end: strong fairness for SendFrame and for the    *)
(* branches ForwardFrame, RouteGone and SessionCheck.  FrameForwarded and  *)
(* EventSent stand for peers whose TCP connection takes the bytes or fails. *)
Fairness ==
    /\ \A r \in Requests :
           /\ WF_vars(InsertSession(r) \/ RemoveSession(r) \/ ForgetBrowser(r))
           /\ WF_vars(FindBrowser(r))
           /\ WF_vars(\E h \in Hosts, g \in Generations : FindRoute(r, h, g))
           /\ SF_vars(SendFrame(r))
    /\ \A a \in Agents :
           /\ SF_vars(ForwardFrame(a))
           /\ WF_vars(FrameForwarded(a) \/ UpdateCapabilities(a) \/ Publish(a))
           /\ SF_vars(RouteGone(a))
           /\ WF_vars(AgentCloses(a))
    /\ \A w \in Sockets :
           /\ SF_vars(SessionCheck(w))
           /\ WF_vars(EventSent(w) \/ ResyncSent(w))
           /\ WF_vars(ReceiveEvent(w) \/ Lagged(w))

FairSpec == Spec /\ Fairness

-----------------------------------------------------------------------------
(* A session the gateway would authenticate is known to the registry,      *)
(* whatever logins, logouts and evictions are half done or abandoned:      *)
(* login registers before it inserts, logout removes before it forgets.    *)
LiveSessionIsRegistered == \A s \in sessions : browsers[s] # NoUser

(* The registry never routes to a connection that is over: the sender of   *)
(* a route belongs to a running agent_socket for that host and generation. *)
RouteHasLiveSocket ==
    \A h \in Hosts : Registered(h) =>
        LET a == hosts[h].sender IN
        /\ Serving(a)
        /\ conn[a].host = h
        /\ conn[a].generation = hosts[h].generation

Owns(a) == Registered(conn[a].host) /\ hosts[conn[a].host].sender = a

(* A connection that serves without owning its route has been overtaken by *)
(* a larger generation at some time.  So, as long as a host's generations  *)
(* never go backwards, one connection per generation passes                *)
(* accepts_host_event, and unregister_host removes nobody else's route.    *)
OvertakenUnlessOwner ==
    \A a \in Agents : Serving(a) /\ ~Owns(a) =>
        highest[conn[a].host] > conn[a].generation

(* A frame waits only in the channel of a connection for the host and the  *)
(* generation its browser named, although route_for_browser's answer is    *)
(* used long after the locks are released.                                 *)
FramesReachTheirGeneration ==
    \A a \in Agents : \A i \in 1 .. Len(chan[a]) :
        /\ chan[a][i].host = conn[a].host
        /\ chan[a][i].generation = conn[a].generation

(* A capability shown for a host was reported by the connection that       *)
(* serves it, not by the one it replaced, unless generations went back.    *)
CapabilityIsFromTheRoute ==
    \A h \in Hosts : Registered(h) =>
        \/ hosts[h].lunaMax \in {Unknown, hosts[h].sender}
        \/ highest[h] > hosts[h].generation

(* A ticket opens one socket, and only for the session it was issued to.   *)
TicketOpensOneSocket ==
    \A w \in Sockets : sock[w].ticket # NoTicket =>
        /\ minted[sock[w].ticket] = sock[w].session
        /\ \A v \in Sockets \ {w} : sock[v].ticket # sock[w].ticket

(* What an open socket's browser got since it subscribed is exactly what   *)
(* was addressed to it, except for a stretch it was told to refetch.       *)
DeliveryIsExact ==
    \A w \in Sockets : sock[w].phase \in {"open", "sending", "resyncing"} =>
        /\ \A p \in seen[w] : Addressed(w, p)
        /\ \A p \in 1 .. sock[w].next - 1 :
               Addressed(w, p) => \/ p \in seen[w]
                                  \/ p < resynced[w]
                                  \/ sock[w].phase = "sending" /\ p = sock[w].next - 1
                                  \/ sock[w].phase = "resyncing"

(* A connection that lost its route ends: nobody can get its sender again, *)
(* and its loop stops once the last clone is gone.                         *)
SupersededAgentEnds ==
    \A a \in Agents : (Serving(a) /\ ~Owns(a)) ~> (conn[a].phase = "idle")

(* The event socket of a session that was logged out or expired closes.    *)
DeadSessionSocketCloses ==
    \A w \in Sockets :
        (sock[w].phase = "open" /\ ~Live(sock[w].session)) ~> (sock[w].phase = "closed")

(* An RPC that waits for room in a route's channel gets an answer, also    *)
(* when the connection behind the channel ends.                            *)
SendingEnds == \A r \in Requests : (req[r].pc = "send") ~> (req[r].pc # "send")
=============================================================================
