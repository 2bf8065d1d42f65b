---------------------------- MODULE GatewayProofs ----------------------------
(* Proofs of the Gateway's safety properties for every number of sessions, *)
(* hosts, connections, requests, tickets and sockets.                      *)
EXTENDS Gateway, SequenceTheorems, TLAPS

(***************************************************************************)
(* What each kind of process leaves alone.                                 *)
(***************************************************************************)
LEMMA ClockFrame ==
    ASSUME Clock
    PROVE  UNCHANGED <<hosts, browsers, sessions, issued, tickets, minted, req,
                       agentVars, events, sockVars>>
BY DEF Clock, SessionExpires, TicketExpires, ticketVars, webVars

LEMMA HandlerFrame ==
    ASSUME NEW r \in Requests, Handler(r)
    PROVE  UNCHANGED <<hosts, expired, lapsed, conn, highest, events, seen, resynced>>
BY DEF Handler, Login, InsertSession, Authenticate, RemoveSession, ForgetBrowser,
       IssueTicket, RefuseSocket, UpgradeSocket, FindBrowser, FindRoute, SendFrame,
       DropRequest, webVars, ticketVars, agentVars, sockVars

LEMMA AgentFrame ==
    ASSUME NEW a \in Agents, AgentSocket(a)
    PROVE  UNCHANGED <<browsers, webVars, ticketVars, req, sockVars>>
BY DEF AgentSocket, AgentConnect, AgentHello, AgentRejected, ForwardFrame,
       FrameForwarded, RouteGone, AcceptFrame, AgentStops, UpdateCapabilities,
       Publish, AgentCloses

LEMMA BrowserSocketFrame ==
    ASSUME NEW w \in Sockets, BrowserSocket(w)
    PROVE  UNCHANGED <<hosts, browsers, webVars, ticketVars, req, agentVars, events>>
BY DEF BrowserSocket, Subscribe, SessionCheck, ReceiveEvent, Lagged, EventSent,
       ResyncSent, BrowserLeaves

(***************************************************************************)
(* Type correctness, one part of the state at a time.                      *)
(***************************************************************************)
LEMMA ClockTypes == ASSUME TypeOK, Clock PROVE TypeOK'
<1>1. WebTypeOK'
  BY DEF TypeOK, WebTypeOK, Clock, SessionExpires, TicketExpires, webVars
<1>2. TicketTypeOK'
  BY DEF TypeOK, TicketTypeOK, Clock, SessionExpires, TicketExpires, ticketVars
<1>. QED
  BY <1>1, <1>2, ClockFrame
     DEF TypeOK, RegistryTypeOK, ReqTypeOK, AgentTypeOK, SockTypeOK, agentVars, sockVars

LEMMA HandlerTypes == ASSUME TypeOK, NEW r \in Requests, Handler(r) PROVE TypeOK'
<1>. USE DEF TypeOK
<1>1. ASSUME NEW s \in Sessions, Login(r, s) PROVE TypeOK'
  <2>1. RegistryTypeOK'
    BY <1>1, AdminAssumption DEF Login, RegistryTypeOK, RegisterBrowser
  <2>2. WebTypeOK'
    BY <1>1 DEF Login, WebTypeOK
  <2>3. ReqTypeOK'
    BY <1>1 DEF Login, ReqTypeOK, ReqRecords, RequestPcs
  <2>. QED
    BY <1>1, <2>1, <2>2, <2>3, HandlerFrame DEF Login, TicketTypeOK,
           AgentTypeOK, SockTypeOK, webVars, ticketVars, agentVars, sockVars
<1>2. ASSUME InsertSession(r) PROVE TypeOK'
  <2>1. WebTypeOK'
    BY <1>2 DEF InsertSession, WebTypeOK, ReqTypeOK, ReqRecords
  <2>2. ReqTypeOK'
    BY <1>2 DEF InsertSession, ReqTypeOK, ReqRecords, RequestPcs, Finish,
           IdleRequest
  <2>. QED
    BY <1>2, <2>1, <2>2, HandlerFrame DEF InsertSession, RegistryTypeOK,
           TicketTypeOK, AgentTypeOK, SockTypeOK, webVars, ticketVars,
           agentVars, sockVars
<1>3. ASSUME NEW s \in Sessions, NEW pc \in AfterAuthentication, Authenticate(r, s, pc) PROVE TypeOK'
  <2>1. ReqTypeOK'
    BY <1>3 DEF Authenticate, ReqTypeOK, ReqRecords, RequestPcs,
           AfterAuthentication
  <2>. QED
    BY <1>3, <2>1, HandlerFrame DEF Authenticate, RegistryTypeOK, WebTypeOK,
           TicketTypeOK, AgentTypeOK, SockTypeOK, webVars, ticketVars,
           agentVars, sockVars
<1>4. ASSUME RemoveSession(r) PROVE TypeOK'
  <2>1. WebTypeOK'
    BY <1>4 DEF RemoveSession, WebTypeOK
  <2>2. ReqTypeOK'
    BY <1>4 DEF RemoveSession, ReqTypeOK, ReqRecords, RequestPcs, Goto
  <2>. QED
    BY <1>4, <2>1, <2>2, HandlerFrame DEF RemoveSession, RegistryTypeOK,
           TicketTypeOK, AgentTypeOK, SockTypeOK, webVars, ticketVars,
           agentVars, sockVars
<1>5. ASSUME ForgetBrowser(r) PROVE TypeOK'
  <2>1. RegistryTypeOK'
    BY <1>5 DEF ForgetBrowser, RegistryTypeOK, UnregisterBrowser
  <2>2. ReqTypeOK'
    BY <1>5 DEF ForgetBrowser, ReqTypeOK, ReqRecords, RequestPcs, Finish,
           IdleRequest
  <2>. QED
    BY <1>5, <2>1, <2>2, HandlerFrame DEF ForgetBrowser, WebTypeOK,
           TicketTypeOK, AgentTypeOK, SockTypeOK, webVars, ticketVars,
           agentVars, sockVars
<1>6. ASSUME NEW t \in Tickets, IssueTicket(r, t) PROVE TypeOK'
  <2>1. TicketTypeOK'
    BY <1>6 DEF IssueTicket, TicketTypeOK, ReqTypeOK, ReqRecords
  <2>2. ReqTypeOK'
    BY <1>6 DEF IssueTicket, ReqTypeOK, ReqRecords, RequestPcs, Finish,
           IdleRequest
  <2>. QED
    BY <1>6, <2>1, <2>2, HandlerFrame DEF IssueTicket, RegistryTypeOK,
           WebTypeOK, AgentTypeOK, SockTypeOK, webVars, ticketVars, agentVars,
           sockVars
<1>7. ASSUME NEW t \in Tickets, RefuseSocket(r, t) PROVE TypeOK'
  <2>1. TicketTypeOK'
    BY <1>7 DEF RefuseSocket, TicketTypeOK, TakeTicket
  <2>2. ReqTypeOK'
    BY <1>7 DEF RefuseSocket, ReqTypeOK, ReqRecords, RequestPcs, Finish,
           IdleRequest
  <2>. QED
    BY <1>7, <2>1, <2>2, HandlerFrame DEF RefuseSocket, RegistryTypeOK,
           WebTypeOK, AgentTypeOK, SockTypeOK, webVars, ticketVars, agentVars,
           sockVars
<1>8. ASSUME NEW t \in Tickets, NEW w \in Sockets, UpgradeSocket(r, t, w) PROVE TypeOK'
  <2>1. TicketTypeOK'
    BY <1>8 DEF UpgradeSocket, TicketTypeOK, TakeTicket
  <2>2. ReqTypeOK'
    BY <1>8 DEF UpgradeSocket, ReqTypeOK, ReqRecords, RequestPcs, Finish,
           IdleRequest
  <2>3. SockTypeOK'
    <3>1. sock' \in [Sockets -> SockRecords]
      <4>1. sock' = [sock EXCEPT ![w] =
                       [sock[w] EXCEPT !.phase = "upgrading",
                                       !.session = req[r].session, !.ticket = t]]
        BY <1>8 DEF UpgradeSocket, SockTypeOK
      <4>2. [sock[w] EXCEPT !.phase = "upgrading", !.session = req[r].session,
                            !.ticket = t] \in SockRecords
        BY <1>8 DEF UpgradeSocket, SockTypeOK, SockRecords, SockPhases,
                    ReqTypeOK, ReqRecords
      <4>. QED
        BY <4>1, <4>2 DEF SockTypeOK
    <3>2. events' \in Seq(Sessions \cup {Everyone})
      BY <1>8, HandlerFrame DEF UpgradeSocket, SockTypeOK, ReqTypeOK,
             ReqRecords, SockRecords, sockVars
    <3>3. seen' \in [Sockets -> SUBSET Nat] /\ resynced' \in [Sockets -> Nat]
      BY <1>8, HandlerFrame DEF UpgradeSocket, SockTypeOK, ReqTypeOK,
             ReqRecords, SockRecords, sockVars
    <3>. QED
      BY <3>1, <3>2, <3>3 DEF SockTypeOK
  <2>. QED
    BY <1>8, <2>1, <2>2, <2>3, HandlerFrame DEF UpgradeSocket, RegistryTypeOK,
           WebTypeOK, AgentTypeOK, webVars, ticketVars, agentVars, sockVars
<1>9. ASSUME FindBrowser(r) PROVE TypeOK'
  <2>1. ReqTypeOK'
    BY <1>9 DEF FindBrowser, ReqTypeOK, ReqRecords, RequestPcs, Goto, Finish,
           IdleRequest
  <2>. QED
    BY <1>9, <2>1, HandlerFrame DEF FindBrowser, RegistryTypeOK, WebTypeOK,
           TicketTypeOK, AgentTypeOK, SockTypeOK, webVars, ticketVars,
           agentVars, sockVars
<1>10. ASSUME NEW h \in Hosts, NEW g \in Generations, FindRoute(r, h, g) PROVE TypeOK'
  <2>1. ReqTypeOK'
    BY <1>10 DEF FindRoute, ReqTypeOK, ReqRecords, RequestPcs, Routable,
           Registered, RegistryTypeOK, Routes, Generations, Finish,
           IdleRequest
  <2>. QED
    BY <1>10, <2>1, HandlerFrame DEF FindRoute, RegistryTypeOK, WebTypeOK,
           TicketTypeOK, AgentTypeOK, SockTypeOK, webVars, ticketVars,
           agentVars, sockVars
<1>11. ASSUME SendFrame(r) PROVE TypeOK'
  <2>1. ReqTypeOK'
    BY <1>11 DEF SendFrame, ReqTypeOK, ReqRecords, RequestPcs, Finish,
           IdleRequest
  <2>2. AgentTypeOK'
    <3>. DEFINE fr == [session |-> req[r].session, host |-> req[r].host,
                       generation |-> req[r].generation]
    <3>1. fr \in Frames
      BY <1>11 DEF SendFrame, ReqTypeOK, ReqRecords, Frames
    <3>2. \/ chan' = chan
          \/ chan' = [chan EXCEPT ![req[r].sender] = Append(@, fr)]
      BY <1>11 DEF SendFrame
    <3>. HIDE DEF fr
    <3>3. req[r].sender \in Agents
      BY <1>11 DEF SendFrame, ReqTypeOK
    <3>4. Append(chan[req[r].sender], fr) \in Seq(Frames)
      BY <3>1, <3>3, AppendProperties DEF AgentTypeOK
    <3>5. chan' \in [Agents -> Seq(Frames)]
      BY <3>2, <3>4 DEF AgentTypeOK
    <3>. QED
      BY <3>5, HandlerFrame DEF AgentTypeOK
  <2>. QED
    BY <1>11, <2>1, <2>2, HandlerFrame DEF SendFrame, RegistryTypeOK,
           WebTypeOK, TicketTypeOK, SockTypeOK, webVars, ticketVars,
           agentVars, sockVars
<1>12. ASSUME DropRequest(r) PROVE TypeOK'
  <2>1. ReqTypeOK'
    BY <1>12 DEF DropRequest, ReqTypeOK, ReqRecords, RequestPcs, Finish,
           IdleRequest
  <2>. QED
    BY <1>12, <2>1, HandlerFrame DEF DropRequest, RegistryTypeOK, WebTypeOK,
           TicketTypeOK, AgentTypeOK, SockTypeOK, webVars, ticketVars,
           agentVars, sockVars
<1>. QED
  BY <1>1, <1>2, <1>3, <1>4, <1>5, <1>6, <1>7, <1>8, <1>9, <1>10, <1>11, <1>12 DEF
         Handler

LEMMA AgentTypes == ASSUME TypeOK, NEW a \in Agents, AgentSocket(a) PROVE TypeOK'
<1>. USE DEF TypeOK
<1>1. ASSUME NEW h \in Hosts, NEW g \in Generations, AgentConnect(a, h, g) PROVE TypeOK'
  <2>1. AgentTypeOK'
    <3>1. conn' \in [Agents -> ConnRecords]
      <4>1. conn' = [conn EXCEPT ![a] =
                       [conn[a] EXCEPT !.phase = "hello", !.host = h, !.generation = g]]
        BY <1>1 DEF AgentConnect, AgentTypeOK
      <4>2. [conn[a] EXCEPT !.phase = "hello", !.host = h, !.generation = g] \in ConnRecords
        <5>1. g \in Nat
          BY BoundsAssumption DEF Generations
        <5>2. conn[a] \in ConnRecords
          BY DEF AgentTypeOK
        <5>. QED
          BY <5>1, <5>2 DEF ConnRecords, ConnPhases
      <4>. QED
        BY <4>1, <4>2 DEF AgentTypeOK
    <3>2. \A b \in Agents : conn'[b].phase # "idle" => conn'[b].host \in Hosts
      BY <1>1 DEF AgentConnect, AgentTypeOK, ConnRecords, ConnPhases,
             Generations
    <3>3. chan' \in [Agents -> Seq(Frames)]
      BY <1>1, AgentFrame DEF AgentConnect, AgentTypeOK, Generations,
             ConnRecords, agentVars
    <3>4. highest' \in [Hosts -> Nat]
      BY <1>1, AgentFrame DEF AgentConnect, AgentTypeOK, Generations,
             ConnRecords, agentVars
    <3>. QED
      BY <3>1, <3>2, <3>3, <3>4 DEF AgentTypeOK
  <2>. QED
    BY <1>1, <2>1, AgentFrame DEF AgentConnect, RegistryTypeOK, WebTypeOK,
           TicketTypeOK, ReqTypeOK, SockTypeOK, webVars, ticketVars, sockVars
<1>2. ASSUME AgentHello(a) PROVE TypeOK'
  <2>1. RegistryTypeOK'
    BY <1>2, AdminAssumption DEF AgentHello, RegistryTypeOK, AgentTypeOK,
           ConnRecords, RegisterHost, Routes
  <2>2. AgentTypeOK'
    <3>1. conn' \in [Agents -> ConnRecords]
      BY <1>2 DEF AgentHello, AgentTypeOK, ConnRecords, ConnPhases
    <3>2. \A b \in Agents : conn'[b].phase # "idle" => conn'[b].host \in Hosts
      BY <1>2 DEF AgentHello, AgentTypeOK, ConnRecords, ConnPhases
    <3>3. chan' \in [Agents -> Seq(Frames)]
      BY <1>2, AgentFrame DEF AgentHello, AgentTypeOK, ConnRecords, agentVars
    <3>4. highest' \in [Hosts -> Nat]
      BY <1>2, AgentFrame DEF AgentHello, AgentTypeOK, ConnRecords, agentVars
    <3>. QED
      BY <3>1, <3>2, <3>3, <3>4 DEF AgentTypeOK
  <2>. QED
    BY <1>2, <2>1, <2>2, AgentFrame DEF AgentHello, WebTypeOK, TicketTypeOK,
           ReqTypeOK, SockTypeOK, webVars, ticketVars, sockVars
<1>3. ASSUME AgentRejected(a) PROVE TypeOK'
  <2>1. AgentTypeOK'
    <3>1. conn' \in [Agents -> ConnRecords]
      BY <1>3 DEF AgentRejected, AgentTypeOK, ConnRecords, ConnPhases,
             IdleConn
    <3>2. \A b \in Agents : conn'[b].phase # "idle" => conn'[b].host \in Hosts
      BY <1>3 DEF AgentRejected, AgentTypeOK, ConnRecords, ConnPhases,
             IdleConn
    <3>3. chan' \in [Agents -> Seq(Frames)]
      BY <1>3, AgentFrame DEF AgentRejected, AgentTypeOK, IdleConn,
             ConnRecords, agentVars
    <3>4. highest' \in [Hosts -> Nat]
      BY <1>3, AgentFrame DEF AgentRejected, AgentTypeOK, IdleConn,
             ConnRecords, agentVars
    <3>. QED
      BY <3>1, <3>2, <3>3, <3>4 DEF AgentTypeOK
  <2>. QED
    BY <1>3, <2>1, AgentFrame DEF AgentRejected, RegistryTypeOK, WebTypeOK,
           TicketTypeOK, ReqTypeOK, SockTypeOK, webVars, ticketVars, sockVars
<1>4. ASSUME ForwardFrame(a) PROVE TypeOK'
  <2>1. AgentTypeOK'
    <3>1. conn' \in [Agents -> ConnRecords]
      BY <1>4 DEF ForwardFrame, AgentTypeOK, ConnRecords, ConnPhases
    <3>2. \A b \in Agents : conn'[b].phase # "idle" => conn'[b].host \in Hosts
      BY <1>4 DEF ForwardFrame, AgentTypeOK, ConnRecords, ConnPhases
    <3>3. chan' \in [Agents -> Seq(Frames)]
      BY <1>4, AgentFrame DEF ForwardFrame, AgentTypeOK, ConnRecords,
             agentVars
    <3>4. highest' \in [Hosts -> Nat]
      BY <1>4, AgentFrame DEF ForwardFrame, AgentTypeOK, ConnRecords,
             agentVars
    <3>. QED
      BY <3>1, <3>2, <3>3, <3>4 DEF AgentTypeOK
  <2>. QED
    BY <1>4, <2>1, AgentFrame DEF ForwardFrame, RegistryTypeOK, WebTypeOK,
           TicketTypeOK, ReqTypeOK, SockTypeOK, webVars, ticketVars, sockVars
<1>5. ASSUME FrameForwarded(a) PROVE TypeOK'
  <2>1. AgentTypeOK'
    <3>1. conn' \in [Agents -> ConnRecords]
      BY <1>5 DEF FrameForwarded, AgentTypeOK, ConnRecords, ConnPhases
    <3>2. \A b \in Agents : conn'[b].phase # "idle" => conn'[b].host \in Hosts
      BY <1>5 DEF FrameForwarded, AgentTypeOK, ConnRecords, ConnPhases
    <3>3. chan' \in [Agents -> Seq(Frames)]
      BY <1>5, AgentFrame DEF FrameForwarded, AgentTypeOK, ConnRecords,
             agentVars
    <3>4. highest' \in [Hosts -> Nat]
      BY <1>5, AgentFrame DEF FrameForwarded, AgentTypeOK, ConnRecords,
             agentVars
    <3>. QED
      BY <3>1, <3>2, <3>3, <3>4 DEF AgentTypeOK
  <2>. QED
    BY <1>5, <2>1, AgentFrame DEF FrameForwarded, RegistryTypeOK, WebTypeOK,
           TicketTypeOK, ReqTypeOK, SockTypeOK, webVars, ticketVars, sockVars
<1>6. ASSUME RouteGone(a) PROVE TypeOK'
  <2>1. AgentTypeOK'
    <3>1. conn' \in [Agents -> ConnRecords]
      BY <1>6 DEF RouteGone, AgentTypeOK, ConnRecords, ConnPhases
    <3>2. \A b \in Agents : conn'[b].phase # "idle" => conn'[b].host \in Hosts
      BY <1>6 DEF RouteGone, AgentTypeOK, ConnRecords, ConnPhases
    <3>3. chan' \in [Agents -> Seq(Frames)]
      BY <1>6, AgentFrame DEF RouteGone, AgentTypeOK, ConnRecords, agentVars
    <3>4. highest' \in [Hosts -> Nat]
      BY <1>6, AgentFrame DEF RouteGone, AgentTypeOK, ConnRecords, agentVars
    <3>. QED
      BY <3>1, <3>2, <3>3, <3>4 DEF AgentTypeOK
  <2>. QED
    BY <1>6, <2>1, AgentFrame DEF RouteGone, RegistryTypeOK, WebTypeOK,
           TicketTypeOK, ReqTypeOK, SockTypeOK, webVars, ticketVars, sockVars
<1>7. ASSUME NEW f \in AgentFrames, AcceptFrame(a, f) PROVE TypeOK'
  <2>1. AgentTypeOK'
    <3>1. conn' \in [Agents -> ConnRecords]
      <4>. DEFINE p == IF f.kind = "capabilities" THEN "updating" ELSE "publishing"
      <4>1. conn' = [conn EXCEPT ![a].phase = p, ![a].frame = f]
        BY <1>7 DEF AcceptFrame
      <4>2. p \in ConnPhases
        BY DEF ConnPhases
      <4>. HIDE DEF p
      <4>. QED
        BY <4>1, <4>2 DEF AgentTypeOK, ConnRecords
    <3>2. \A b \in Agents : conn'[b].phase # "idle" => conn'[b].host \in Hosts
      BY <1>7 DEF AcceptFrame, AgentTypeOK, ConnRecords, ConnPhases
    <3>3. chan' \in [Agents -> Seq(Frames)]
      BY <1>7, AgentFrame DEF AcceptFrame, AgentTypeOK, ConnRecords, agentVars
    <3>4. highest' \in [Hosts -> Nat]
      BY <1>7, AgentFrame DEF AcceptFrame, AgentTypeOK, ConnRecords, agentVars
    <3>. QED
      BY <3>1, <3>2, <3>3, <3>4 DEF AgentTypeOK
  <2>. QED
    BY <1>7, <2>1, AgentFrame DEF AcceptFrame, RegistryTypeOK, WebTypeOK,
           TicketTypeOK, ReqTypeOK, SockTypeOK, webVars, ticketVars, sockVars
<1>8. ASSUME AgentStops(a) PROVE TypeOK'
  <2>1. AgentTypeOK'
    <3>1. conn' \in [Agents -> ConnRecords]
      BY <1>8 DEF AgentStops, AgentTypeOK, ConnRecords, ConnPhases
    <3>2. \A b \in Agents : conn'[b].phase # "idle" => conn'[b].host \in Hosts
      BY <1>8 DEF AgentStops, AgentTypeOK, ConnRecords, ConnPhases
    <3>3. chan' \in [Agents -> Seq(Frames)]
      BY <1>8, AgentFrame DEF AgentStops, AgentTypeOK, ConnRecords, agentVars
    <3>4. highest' \in [Hosts -> Nat]
      BY <1>8, AgentFrame DEF AgentStops, AgentTypeOK, ConnRecords, agentVars
    <3>. QED
      BY <3>1, <3>2, <3>3, <3>4 DEF AgentTypeOK
  <2>. QED
    BY <1>8, <2>1, AgentFrame DEF AgentStops, RegistryTypeOK, WebTypeOK,
           TicketTypeOK, ReqTypeOK, SockTypeOK, webVars, ticketVars, sockVars
<1>9. ASSUME UpdateCapabilities(a) PROVE TypeOK'
  <2>1. RegistryTypeOK'
    <3>. DEFINE h == conn[a].host
    <3>1. CASE MayUpdateCapabilities(h, conn[a].generation)
      <4>1. h \in Hosts
        BY <1>9 DEF UpdateCapabilities, AgentTypeOK
      <4>2. hosts[h] \in Routes
        BY <3>1, <4>1 DEF MayUpdateCapabilities, AcceptsHostEvent, Registered,
           RegistryTypeOK
      <4>3. hosts' = [hosts EXCEPT ![h].lunaMax = a]
        BY <1>9, <3>1 DEF UpdateCapabilities, UpdateHostCapabilities
      <4>4. hosts' \in [Hosts -> Routes \cup {NoRoute}]
        <5>. HIDE DEF h
        <5>. QED
          BY <4>1, <4>2, <4>3 DEF RegistryTypeOK, Routes
      <4>. QED
        BY <4>4, AgentFrame DEF RegistryTypeOK
    <3>2. CASE ~MayUpdateCapabilities(h, conn[a].generation)
      BY <1>9, <3>2 DEF UpdateCapabilities, RegistryTypeOK
    <3>. QED
      BY <3>1, <3>2
  <2>2. AgentTypeOK'
    <3>1. conn' \in [Agents -> ConnRecords]
      <4>1. CASE MayUpdateCapabilities(conn[a].host, conn[a].generation)
        <5>1. conn' = [conn EXCEPT ![a].phase = "publishing"]
          BY <1>9, <4>1 DEF UpdateCapabilities
        <5>. QED
          BY <5>1 DEF AgentTypeOK, ConnRecords, ConnPhases
      <4>2. CASE ~MayUpdateCapabilities(conn[a].host, conn[a].generation)
        <5>1. conn' = [conn EXCEPT ![a].phase = "closing", ![a].frame = NoFrame]
          BY <1>9, <4>2 DEF UpdateCapabilities
        <5>2. [conn[a] EXCEPT !.phase = "closing", !.frame = NoFrame] \in ConnRecords
          BY DEF AgentTypeOK, ConnRecords, ConnPhases
        <5>. QED
          BY <5>1, <5>2 DEF AgentTypeOK
      <4>. QED
        BY <4>1, <4>2
    <3>2. \A b \in Agents : conn'[b].phase # "idle" => conn'[b].host \in Hosts
      BY <1>9 DEF UpdateCapabilities, AgentTypeOK, ConnRecords, ConnPhases
    <3>3. chan' \in [Agents -> Seq(Frames)]
      BY <1>9, AgentFrame DEF UpdateCapabilities, AgentTypeOK, ConnRecords,
             agentVars
    <3>4. highest' \in [Hosts -> Nat]
      BY <1>9, AgentFrame DEF UpdateCapabilities, AgentTypeOK, ConnRecords,
             agentVars
    <3>. QED
      BY <3>1, <3>2, <3>3, <3>4 DEF AgentTypeOK
  <2>. QED
    BY <1>9, <2>1, <2>2, AgentFrame DEF UpdateCapabilities, WebTypeOK,
           TicketTypeOK, ReqTypeOK, SockTypeOK, webVars, ticketVars, sockVars
<1>10. ASSUME Publish(a) PROVE TypeOK'
  <2>1. AgentTypeOK'
    <3>1. conn' \in [Agents -> ConnRecords]
      BY <1>10 DEF Publish, AgentTypeOK, ConnRecords, ConnPhases
    <3>2. \A b \in Agents : conn'[b].phase # "idle" => conn'[b].host \in Hosts
      BY <1>10 DEF Publish, AgentTypeOK, ConnRecords, ConnPhases
    <3>3. chan' \in [Agents -> Seq(Frames)]
      BY <1>10, AgentFrame DEF Publish, AgentTypeOK, ConnRecords, agentVars
    <3>4. highest' \in [Hosts -> Nat]
      BY <1>10, AgentFrame DEF Publish, AgentTypeOK, ConnRecords, agentVars
    <3>. QED
      BY <3>1, <3>2, <3>3, <3>4 DEF AgentTypeOK
  <2>2. SockTypeOK'
    <3>1. sock' \in [Sockets -> SockRecords]
      BY AgentFrame DEF SockTypeOK, sockVars
    <3>2. events' \in Seq(Sessions \cup {Everyone})
      BY <1>10, AgentFrame DEF Publish, SockTypeOK, AgentTypeOK, ConnRecords,
             AgentFrames, NoFrame, SockRecords, sockVars
    <3>3. seen' \in [Sockets -> SUBSET Nat] /\ resynced' \in [Sockets -> Nat]
      BY <1>10, AgentFrame DEF Publish, SockTypeOK, AgentTypeOK, ConnRecords,
             AgentFrames, NoFrame, SockRecords, sockVars
    <3>. QED
      BY <3>1, <3>2, <3>3 DEF SockTypeOK
  <2>. QED
    BY <1>10, <2>1, <2>2, AgentFrame DEF Publish, RegistryTypeOK, WebTypeOK,
           TicketTypeOK, ReqTypeOK, webVars, ticketVars, sockVars
<1>11. ASSUME AgentCloses(a) PROVE TypeOK'
  <2>1. RegistryTypeOK'
    BY <1>11 DEF AgentCloses, RegistryTypeOK, UnregisterHost
  <2>2. AgentTypeOK'
    <3>1. conn' \in [Agents -> ConnRecords]
      BY <1>11 DEF AgentCloses, AgentTypeOK, ConnRecords, ConnPhases, IdleConn
    <3>2. \A b \in Agents : conn'[b].phase # "idle" => conn'[b].host \in Hosts
      BY <1>11 DEF AgentCloses, AgentTypeOK, ConnRecords, ConnPhases, IdleConn
    <3>3. chan' \in [Agents -> Seq(Frames)]
      BY <1>11, AgentFrame DEF AgentCloses, AgentTypeOK, IdleConn,
             ConnRecords, agentVars
    <3>4. highest' \in [Hosts -> Nat]
      BY <1>11, AgentFrame DEF AgentCloses, AgentTypeOK, IdleConn,
             ConnRecords, agentVars
    <3>. QED
      BY <3>1, <3>2, <3>3, <3>4 DEF AgentTypeOK
  <2>. QED
    BY <1>11, <2>1, <2>2, AgentFrame DEF AgentCloses, WebTypeOK, TicketTypeOK,
           ReqTypeOK, SockTypeOK, webVars, ticketVars, sockVars
<1>. QED
  BY <1>1, <1>2, <1>3, <1>4, <1>5, <1>6, <1>7, <1>8, <1>9, <1>10, <1>11 DEF
         AgentSocket

LEMMA BrowserSocketTypes ==
    ASSUME TypeOK, NEW w \in Sockets, BrowserSocket(w) PROVE TypeOK'
<1>. USE DEF TypeOK
<1>1. ASSUME Subscribe(w) PROVE TypeOK'
  <2>1. SockTypeOK'
    <3>1. sock' \in [Sockets -> SockRecords]
      <4>1. Len(events) + 1 \in Nat \ {0}
        BY LenProperties DEF SockTypeOK
      <4>. QED
        BY <1>1, <4>1 DEF Subscribe, SockTypeOK, SockRecords, SockPhases
    <3>2. events' \in Seq(Sessions \cup {Everyone})
      BY <1>1, BrowserSocketFrame, LenProperties DEF Subscribe, SockTypeOK,
             SockRecords, sockVars
    <3>3. seen' \in [Sockets -> SUBSET Nat] /\ resynced' \in [Sockets -> Nat]
      BY <1>1, BrowserSocketFrame, LenProperties DEF Subscribe, SockTypeOK,
             SockRecords, sockVars
    <3>. QED
      BY <3>1, <3>2, <3>3 DEF SockTypeOK
  <2>. QED
    BY <1>1, <2>1, BrowserSocketFrame DEF Subscribe, RegistryTypeOK,
           WebTypeOK, TicketTypeOK, ReqTypeOK, AgentTypeOK, webVars,
           ticketVars, agentVars
<1>2. ASSUME SessionCheck(w) PROVE TypeOK'
  <2>1. SockTypeOK'
    <3>1. sock' \in [Sockets -> SockRecords]
      BY <1>2 DEF SessionCheck, SockTypeOK, SockRecords, SockPhases,
             CloseSocket
    <3>2. events' \in Seq(Sessions \cup {Everyone})
      BY <1>2, BrowserSocketFrame DEF SessionCheck, SockTypeOK, CloseSocket,
             SockRecords, sockVars
    <3>3. seen' \in [Sockets -> SUBSET Nat] /\ resynced' \in [Sockets -> Nat]
      BY <1>2, BrowserSocketFrame DEF SessionCheck, SockTypeOK, CloseSocket,
             SockRecords, sockVars
    <3>. QED
      BY <3>1, <3>2, <3>3 DEF SockTypeOK
  <2>. QED
    BY <1>2, <2>1, BrowserSocketFrame DEF SessionCheck, RegistryTypeOK,
           WebTypeOK, TicketTypeOK, ReqTypeOK, AgentTypeOK, webVars,
           ticketVars, agentVars
<1>3. ASSUME ReceiveEvent(w) PROVE TypeOK'
  <2>1. SockTypeOK'
    <3>1. sock' \in [Sockets -> SockRecords]
      <4>. DEFINE ph == IF Addressed(w, sock[w].next) THEN "sending" ELSE "open"
      <4>1. sock' = [sock EXCEPT ![w].next = sock[w].next + 1, ![w].phase = ph]
        BY <1>3 DEF ReceiveEvent
      <4>2. ph \in SockPhases
        BY DEF SockPhases
      <4>3. sock[w].next + 1 \in Nat \ {0}
        BY DEF SockTypeOK, SockRecords
      <4>. HIDE DEF ph
      <4>. QED
        BY <4>1, <4>2, <4>3 DEF SockTypeOK, SockRecords
    <3>2. events' \in Seq(Sessions \cup {Everyone})
      BY <1>3, BrowserSocketFrame DEF ReceiveEvent, SockTypeOK, SockRecords,
             sockVars
    <3>3. seen' \in [Sockets -> SUBSET Nat] /\ resynced' \in [Sockets -> Nat]
      BY <1>3, BrowserSocketFrame DEF ReceiveEvent, SockTypeOK, SockRecords,
             sockVars
    <3>. QED
      BY <3>1, <3>2, <3>3 DEF SockTypeOK
  <2>. QED
    BY <1>3, <2>1, BrowserSocketFrame DEF ReceiveEvent, RegistryTypeOK,
           WebTypeOK, TicketTypeOK, ReqTypeOK, AgentTypeOK, webVars,
           ticketVars, agentVars
<1>4. ASSUME Lagged(w) PROVE TypeOK'
  <2>1. SockTypeOK'
    <3>1. sock' \in [Sockets -> SockRecords]
      <4>1. Oldest \in Nat \ {0}
        BY LenProperties, BoundsAssumption DEF SockTypeOK, Oldest
      <4>. QED
        BY <1>4, <4>1 DEF Lagged, SockTypeOK, SockRecords, SockPhases
    <3>2. events' \in Seq(Sessions \cup {Everyone})
      BY <1>4, BrowserSocketFrame DEF Lagged, SockTypeOK, SockRecords,
             sockVars
    <3>3. seen' \in [Sockets -> SUBSET Nat] /\ resynced' \in [Sockets -> Nat]
      BY <1>4, BrowserSocketFrame DEF Lagged, SockTypeOK, SockRecords,
             sockVars
    <3>. QED
      BY <3>1, <3>2, <3>3 DEF SockTypeOK
  <2>. QED
    BY <1>4, <2>1, BrowserSocketFrame DEF Lagged, RegistryTypeOK, WebTypeOK,
           TicketTypeOK, ReqTypeOK, AgentTypeOK, webVars, ticketVars,
           agentVars
<1>5. ASSUME EventSent(w) PROVE TypeOK'
  <2>1. SockTypeOK'
    <3>1. sock' \in [Sockets -> SockRecords]
      BY <1>5 DEF EventSent, SockTypeOK, SockRecords, SockPhases
    <3>2. events' \in Seq(Sessions \cup {Everyone})
      BY <1>5, BrowserSocketFrame DEF EventSent, SockTypeOK, SockRecords,
             sockVars
    <3>3. seen' \in [Sockets -> SUBSET Nat] /\ resynced' \in [Sockets -> Nat]
      BY <1>5, BrowserSocketFrame DEF EventSent, SockTypeOK, SockRecords,
             sockVars
    <3>. QED
      BY <3>1, <3>2, <3>3 DEF SockTypeOK
  <2>. QED
    BY <1>5, <2>1, BrowserSocketFrame DEF EventSent, RegistryTypeOK,
           WebTypeOK, TicketTypeOK, ReqTypeOK, AgentTypeOK, webVars,
           ticketVars, agentVars
<1>6. ASSUME ResyncSent(w) PROVE TypeOK'
  <2>1. SockTypeOK'
    <3>1. sock' \in [Sockets -> SockRecords]
      BY <1>6 DEF ResyncSent, SockTypeOK, SockRecords, SockPhases
    <3>2. events' \in Seq(Sessions \cup {Everyone})
      BY <1>6, BrowserSocketFrame DEF ResyncSent, SockTypeOK, SockRecords,
             sockVars
    <3>3. seen' \in [Sockets -> SUBSET Nat] /\ resynced' \in [Sockets -> Nat]
      BY <1>6, BrowserSocketFrame DEF ResyncSent, SockTypeOK, SockRecords,
             sockVars
    <3>. QED
      BY <3>1, <3>2, <3>3 DEF SockTypeOK
  <2>. QED
    BY <1>6, <2>1, BrowserSocketFrame DEF ResyncSent, RegistryTypeOK,
           WebTypeOK, TicketTypeOK, ReqTypeOK, AgentTypeOK, webVars,
           ticketVars, agentVars
<1>7. ASSUME BrowserLeaves(w) PROVE TypeOK'
  <2>1. SockTypeOK'
    <3>1. sock' \in [Sockets -> SockRecords]
      BY <1>7 DEF BrowserLeaves, SockTypeOK, SockRecords, SockPhases,
             CloseSocket
    <3>2. events' \in Seq(Sessions \cup {Everyone})
      BY <1>7, BrowserSocketFrame DEF BrowserLeaves, SockTypeOK, CloseSocket,
             SockRecords, sockVars
    <3>3. seen' \in [Sockets -> SUBSET Nat] /\ resynced' \in [Sockets -> Nat]
      BY <1>7, BrowserSocketFrame DEF BrowserLeaves, SockTypeOK, CloseSocket,
             SockRecords, sockVars
    <3>. QED
      BY <3>1, <3>2, <3>3 DEF SockTypeOK
  <2>. QED
    BY <1>7, <2>1, BrowserSocketFrame DEF BrowserLeaves, RegistryTypeOK,
           WebTypeOK, TicketTypeOK, ReqTypeOK, AgentTypeOK, webVars,
           ticketVars, agentVars
<1>. QED
  BY <1>1, <1>2, <1>3, <1>4, <1>5, <1>6, <1>7 DEF BrowserSocket

LEMMA TypeInit == Init => TypeOK
BY DEF Init, RegistryInit, TypeOK, RegistryTypeOK, WebTypeOK, TicketTypeOK, ReqTypeOK,
       ReqRecords, RequestPcs, IdleRequest, AgentTypeOK, ConnRecords, ConnPhases, IdleConn,
       SockTypeOK, SockRecords, SockPhases, IdleSock

LEMMA TypeStep == TypeOK /\ [Next]_vars => TypeOK'
<1>1. ASSUME TypeOK, UNCHANGED vars PROVE TypeOK'
  BY <1>1 DEF vars, webVars, ticketVars, agentVars, sockVars, TypeOK, RegistryTypeOK,
     WebTypeOK, TicketTypeOK, ReqTypeOK, AgentTypeOK, SockTypeOK
<1>. QED
  BY <1>1, ClockTypes, HandlerTypes, AgentTypes, BrowserSocketTypes DEF Next

(* Every variable keeps its type, and a busy handler or connection keeps   *)
(* the session and host it is about.                                       *)
THEOREM TypeCorrect == Spec => []TypeOK
BY TypeInit, TypeStep, PTL DEF Spec

(***************************************************************************)
(* The inductive invariants.  Each conjoins a property of Gateway with     *)
(* what the next step of some process relies on.                           *)
(***************************************************************************)

(* A login between its two steps has a session nobody else can hold yet,   *)
(* and a logout between its two steps has one that is gone for good.       *)
SessionInv ==
    /\ sessions \subseteq issued
    /\ LiveSessionIsRegistered
    /\ \A r \in Requests :
           /\ req[r].pc # "idle" => req[r].session \in issued
           /\ req[r].pc = "insert" => /\ browsers[req[r].session] # NoUser
                                      /\ req[r].session \notin sessions
           /\ req[r].pc = "unregister" => req[r].session \notin sessions
    /\ \A r, q \in Requests :
           req[r].pc = "insert" /\ req[q].pc # "idle" /\ req[q].session = req[r].session
               => q = r

(* No connection is ahead of the largest generation its host has seen.     *)
RouteInv ==
    /\ RouteHasLiveSocket
    /\ OvertakenUnlessOwner
    /\ \A a \in Agents : Serving(a) => conn[a].generation <= highest[conn[a].host]

(* The sender a handler holds is the channel of the connection it asked    *)
(* for, or of none any more.                                               *)
FrameInv ==
    /\ FramesReachTheirGeneration
    /\ \A a \in Agents : ~Serving(a) => chan[a] = <<>>
    /\ \A r \in Requests : req[r].pc = "send" =>
           LET a == req[r].sender IN
           /\ conn[a].phase # "hello"
           /\ Serving(a) => /\ conn[a].host = req[r].host
                            /\ conn[a].generation = req[r].generation

(* A ticket is in the map or in a socket, never in both.                   *)
TicketInv ==
    /\ TicketOpensOneSocket
    /\ \A t \in Tickets : tickets[t] # NoSession => minted[t] = tickets[t]
    /\ \A w \in Sockets : sock[w].ticket # NoTicket =>
           /\ sock[w].session # NoSession
           /\ tickets[sock[w].ticket] = NoSession

(* Positions a socket has dealt with are in the log, so a later event does *)
(* not change what they say.                                               *)
DeliveryInv ==
    /\ DeliveryIsExact
    /\ \A w \in Sockets :
           /\ sock[w].phase \in {"idle", "upgrading"} => seen[w] = {}
           /\ sock[w].next <= Len(events) + 1
           /\ seen[w] \subseteq 1 .. Len(events)
           /\ sock[w].phase = "sending" => /\ sock[w].next > 1
                                           /\ Addressed(w, sock[w].next - 1)

(***************************************************************************)
(* Sessions and the registry.                                              *)
(***************************************************************************)
LEMMA SessionHandler ==
    ASSUME TypeOK, SessionInv, NEW r \in Requests, Handler(r)
    PROVE  SessionInv'
<1>. USE DEF SessionInv, LiveSessionIsRegistered
<1>0. /\ req \in [Requests -> ReqRecords]
      /\ browsers \in [Sessions -> Users \cup {NoUser}]
      /\ sessions \subseteq Sessions /\ issued \subseteq Sessions
  BY DEF TypeOK, ReqTypeOK, RegistryTypeOK, WebTypeOK
<1>1. ASSUME NEW s \in Sessions, Login(r, s) PROVE SessionInv'
  BY <1>0, <1>1, AdminAssumption, NoUserAssumption
     DEF Login, RegisterBrowser, ReqRecords
<1>2. CASE InsertSession(r)
  BY <1>0, <1>2 DEF InsertSession, Finish, IdleRequest, webVars, ReqRecords
<1>3. ASSUME NEW s \in Sessions, NEW pc \in AfterAuthentication, Authenticate(r, s, pc)
      PROVE  SessionInv'
  BY <1>0, <1>3 DEF Authenticate, AfterAuthentication, webVars, ReqRecords
<1>4. CASE RemoveSession(r)
  BY <1>0, <1>4 DEF RemoveSession, Goto, ReqRecords
<1>5. CASE ForgetBrowser(r)
  BY <1>0, <1>5 DEF ForgetBrowser, UnregisterBrowser, Finish, IdleRequest, webVars, ReqRecords
<1>6. CASE UNCHANGED <<sessions, issued, browsers>> /\ req' = [req EXCEPT ![r] = IdleRequest]
  BY <1>0, <1>6 DEF IdleRequest, ReqRecords
<1>7. ASSUME NEW pc \in {"host", "send"},
             UNCHANGED <<sessions, issued, browsers>>,
             req[r].pc # "idle",
             req'[r].pc = pc, req'[r].session = req[r].session,
             \A q \in Requests \ {r} : req'[q] = req[q]
      PROVE  SessionInv'
  BY <1>0, <1>7 DEF ReqRecords
<1>. QED
  <2>1. ASSUME NEW t \in Tickets, IssueTicket(r, t) PROVE SessionInv'
    BY <2>1, <1>6 DEF IssueTicket, Finish, webVars
  <2>2. ASSUME NEW t \in Tickets, RefuseSocket(r, t) PROVE SessionInv'
    BY <2>2, <1>6 DEF RefuseSocket, Finish, webVars
  <2>3. ASSUME NEW t \in Tickets, NEW w \in Sockets, UpgradeSocket(r, t, w) PROVE SessionInv'
    BY <2>3, <1>6 DEF UpgradeSocket, Finish, webVars
  <2>4. CASE FindBrowser(r)
    BY <1>0, <2>4, <1>6, <1>7 DEF FindBrowser, Finish, Goto, webVars, ReqRecords
  <2>5. ASSUME NEW h \in Hosts, NEW g \in Generations, FindRoute(r, h, g) PROVE SessionInv'
    BY <1>0, <2>5, <1>6, <1>7 DEF FindRoute, Finish, webVars, ReqRecords
  <2>6. CASE SendFrame(r)
    BY <2>6, <1>6 DEF SendFrame, Finish, webVars
  <2>7. CASE DropRequest(r)
    BY <2>7, <1>6 DEF DropRequest, Finish, webVars
  <2>. QED
    BY <1>1, <1>2, <1>3, <1>4, <1>5, <2>1, <2>2, <2>3, <2>4, <2>5, <2>6, <2>7 DEF Handler

LEMMA SessionStep == TypeOK /\ SessionInv /\ [Next]_vars => SessionInv'
<1>. SUFFICES ASSUME TypeOK, SessionInv, [Next]_vars PROVE SessionInv'
  OBVIOUS
<1>1. CASE UNCHANGED <<sessions, issued, browsers, req>>
  BY <1>1 DEF SessionInv, LiveSessionIsRegistered
<1>2. CASE Clock
  BY <1>1, <1>2, ClockFrame
<1>3. ASSUME NEW a \in Agents, AgentSocket(a) PROVE SessionInv'
  BY <1>1, <1>3, AgentFrame DEF webVars
<1>4. ASSUME NEW w \in Sockets, BrowserSocket(w) PROVE SessionInv'
  BY <1>1, <1>4, BrowserSocketFrame DEF webVars
<1>5. CASE UNCHANGED vars
  BY <1>1, <1>5 DEF vars, webVars
<1>. QED
  BY <1>2, <1>3, <1>4, <1>5, SessionHandler DEF Next

(* Whatever logins, logouts and evictions are half done or abandoned, a    *)
(* session the gateway authenticates is one the registry knows.            *)
THEOREM LiveSessionsAreRegistered == Spec => []LiveSessionIsRegistered
<1>1. Init => SessionInv
  BY DEF Init, RegistryInit, SessionInv, LiveSessionIsRegistered, IdleRequest
<1>2. SessionInv => LiveSessionIsRegistered
  BY DEF SessionInv
<1>. QED
  BY <1>1, <1>2, SessionStep, TypeCorrect, PTL DEF Spec

(***************************************************************************)
(* Routes and the connections behind them.                                 *)
(***************************************************************************)

(* Most steps of a connection only move it between phases of its loop.     *)
StaysInLoop(a) ==
    /\ Serving(a) /\ Serving(a)'
    /\ conn'[a].host = conn[a].host
    /\ conn'[a].generation = conn[a].generation
    /\ \A b \in Agents \ {a} : conn'[b] = conn[b]

LEMMA LoopSteps ==
    ASSUME TypeOK, NEW a \in Agents,
           \/ ForwardFrame(a) \/ FrameForwarded(a) \/ RouteGone(a)
           \/ \E f \in AgentFrames : AcceptFrame(a, f)
           \/ AgentStops(a) \/ UpdateCapabilities(a) \/ Publish(a)
    PROVE  StaysInLoop(a)
<1>. USE DEF TypeOK, AgentTypeOK, StaysInLoop, Serving, ConnRecords
<1>1. CASE ForwardFrame(a)
  BY <1>1 DEF ForwardFrame
<1>2. CASE FrameForwarded(a)
  BY <1>2 DEF FrameForwarded
<1>3. CASE RouteGone(a)
  BY <1>3 DEF RouteGone
<1>4. ASSUME NEW f \in AgentFrames, AcceptFrame(a, f) PROVE StaysInLoop(a)
  BY <1>4 DEF AcceptFrame
<1>5. CASE AgentStops(a)
  BY <1>5 DEF AgentStops
<1>6. CASE UpdateCapabilities(a)
  BY <1>6 DEF UpdateCapabilities
<1>7. CASE Publish(a)
  BY <1>7 DEF Publish
<1>. QED
  BY <1>1, <1>2, <1>3, <1>4, <1>5, <1>6, <1>7

LEMMA RouteAgent ==
    ASSUME TypeOK, RouteInv, NEW a \in Agents, AgentSocket(a)
    PROVE  RouteInv'
<1>. USE DEF RouteInv, RouteHasLiveSocket, OvertakenUnlessOwner, Owns, Registered
<1>0. /\ conn \in [Agents -> ConnRecords]
      /\ \A b \in Agents : conn[b].phase # "idle" => conn[b].host \in Hosts
      /\ highest \in [Hosts -> Nat]
      /\ hosts \in [Hosts -> Routes \cup {NoRoute}]
      /\ NoRoute \notin Routes
  BY NoRouteAssumption DEF TypeOK, AgentTypeOK, RegistryTypeOK, Routes
<1>1. ASSUME NEW h \in Hosts, NEW g \in Generations, AgentConnect(a, h, g) PROVE RouteInv'
  BY <1>0, <1>1 DEF AgentConnect, Serving, Routes, ConnRecords
<1>2. CASE AgentHello(a)
  <2>. DEFINE h == conn[a].host
              g == conn[a].generation
  <2>1. h \in Hosts /\ g \in Nat /\ conn[a].phase = "hello"
    BY <1>0, <1>2 DEF AgentHello, ConnRecords
  <2>2. /\ hosts'[h].sender = a /\ hosts'[h].generation = g /\ hosts'[h] # NoRoute
        /\ \A k \in Hosts \ {h} : hosts'[k] = hosts[k]
        /\ hosts[h] # NoRoute => g > hosts[h].generation
    <3>1. [owner |-> Admin, generation |-> g, lunaMax |-> Unknown, sender |-> a] # NoRoute
      BY <2>1, AdminAssumption, NoRouteAssumption
    <3>. QED
      BY <1>0, <1>2, <2>1, <3>1 DEF AgentHello, RegisterHost, MayRegisterHost
  <2>3. /\ conn'[a].phase = "serving" /\ conn'[a].host = h /\ conn'[a].generation = g
        /\ \A b \in Agents \ {a} : conn'[b] = conn[b]
    BY <1>0, <1>2 DEF AgentHello, ConnRecords
  <2>4. /\ highest' \in [Hosts -> Nat]
        /\ highest'[h] >= g
        /\ \A k \in Hosts : highest'[k] >= highest[k]
    BY <1>0, <1>2, <2>1 DEF AgentHello
  <2>. HIDE DEF h, g
  <2>5. RouteHasLiveSocket'
    BY <1>0, <2>1, <2>2, <2>3 DEF Serving, Routes
  <2>6. ASSUME NEW b \in Agents, Serving(b)', ~Owns(b)'
        PROVE  highest'[conn'[b].host] > conn'[b].generation
    <3>1. b # a
      BY <2>2, <2>3, <2>6 DEF h
    <3>2. conn'[b] = conn[b] /\ conn[b].host \in Hosts /\ conn[b].generation \in Nat /\ Serving(b)
      BY <1>0, <2>3, <2>6, <3>1 DEF Serving, ConnRecords
    <3>3. CASE Owns(b)
      <4>1. conn[b].host = h
        BY <2>2, <2>6, <3>1, <3>2, <3>3
      <4>2. g > conn[b].generation
        BY <2>1, <2>2, <3>2, <3>3, <4>1
      <4>. QED
        BY <2>1, <2>4, <3>2, <4>1, <4>2
    <3>4. CASE ~Owns(b)
      <4>1. highest[conn[b].host] > conn[b].generation
        BY <3>2, <3>4
      <4>. QED
        BY <1>0, <2>4, <3>2, <4>1
    <3>. QED
      BY <3>3, <3>4
  <2>7. ASSUME NEW b \in Agents, Serving(b)'
        PROVE  conn'[b].generation <= highest'[conn'[b].host]
    <3>1. CASE b = a
      BY <2>1, <2>3, <2>4, <3>1
    <3>2. CASE b # a
      <4>1. conn'[b] = conn[b] /\ conn[b].host \in Hosts /\ conn[b].generation \in Nat /\ Serving(b)
        BY <1>0, <2>3, <2>7, <3>2 DEF Serving, ConnRecords
      <4>2. conn[b].generation <= highest[conn[b].host]
        BY <4>1
      <4>. QED
        BY <1>0, <2>4, <4>1, <4>2
    <3>. QED
      BY <3>1, <3>2
  <2>. QED
    BY <2>5, <2>6, <2>7
<1>3. CASE AgentRejected(a)
  BY <1>0, <1>3 DEF AgentRejected, IdleConn, Serving, Routes, ConnRecords
<1>4. CASE AgentCloses(a)
  <2>. DEFINE h == conn[a].host
              g == conn[a].generation
  <2>1. h \in Hosts /\ g \in Nat /\ Serving(a)
    BY <1>0, <1>4 DEF AgentCloses, Serving, ConnRecords
  <2>2. /\ hosts'[h] = IF hosts[h] # NoRoute /\ hosts[h].generation = g THEN NoRoute ELSE hosts[h]
        /\ \A k \in Hosts \ {h} : hosts'[k] = hosts[k]
    BY <1>0, <1>4, <2>1 DEF AgentCloses, UnregisterHost, AcceptsHostEvent
  <2>3. /\ ~Serving(a)' /\ highest' = highest
        /\ \A b \in Agents \ {a} : conn'[b] = conn[b]
    BY <1>0, <1>4 DEF AgentCloses, IdleConn, Serving
  <2>. HIDE DEF h, g
  <2>4. ASSUME NEW k \in Hosts, hosts'[k] # NoRoute
        PROVE  hosts'[k] = hosts[k] /\ hosts[k].sender # a
    <3>1. hosts'[k] = hosts[k]
      BY <2>2, <2>4
    <3>2. CASE k = h
      BY <1>0, <2>2, <2>4, <3>1, <3>2 DEF g
    <3>3. CASE k # h
      BY <2>4, <3>1, <3>3 DEF h
    <3>. QED
      BY <3>1, <3>2, <3>3
  <2>5. RouteHasLiveSocket'
    BY <1>0, <2>3, <2>4 DEF Serving, Routes
  <2>6. ASSUME NEW b \in Agents, Serving(b)', ~Owns(b)'
        PROVE  highest'[conn'[b].host] > conn'[b].generation
    <3>1. conn'[b] = conn[b] /\ conn[b].host \in Hosts /\ conn[b].generation \in Nat
          /\ Serving(b) /\ b # a
      BY <1>0, <2>3, <2>6 DEF Serving, ConnRecords
    <3>2. CASE Owns(b)
      \* Only the route of a's own host and generation is removed, so b shares both.
      <4>1. conn[b].host = h /\ hosts[h].generation = g
        BY <2>2, <2>6, <3>1, <3>2
      <4>. QED
        BY <1>0, <3>1, <3>2, <2>3, <2>1, <4>1 DEF h, g
    <3>3. CASE ~Owns(b)
      BY <2>3, <3>1, <3>3
    <3>. QED
      BY <3>2, <3>3
  <2>7. ASSUME NEW b \in Agents, Serving(b)'
        PROVE  conn'[b].generation <= highest'[conn'[b].host]
    BY <2>3, <2>7 DEF Serving
  <2>. QED
    BY <2>5, <2>6, <2>7
<1>5. ASSUME StaysInLoop(a), UNCHANGED <<hosts, highest>> PROVE RouteInv'
  BY <1>0, <1>5 DEF StaysInLoop, Serving, Routes, ConnRecords
<1>6. CASE UpdateCapabilities(a)
  <2>1. StaysInLoop(a)
    BY <1>6, LoopSteps
  <2>2. highest' = highest
    BY <1>6 DEF UpdateCapabilities
  <2>3. \A b \in Agents :
           /\ conn'[b].host = conn[b].host
           /\ conn'[b].generation = conn[b].generation
           /\ Serving(b)' <=> Serving(b)
    BY <2>1 DEF StaysInLoop, Serving
  <2>4. \A k \in Hosts :
           /\ hosts'[k] # NoRoute <=> hosts[k] # NoRoute
           /\ hosts[k] # NoRoute => /\ hosts'[k].sender = hosts[k].sender
                                    /\ hosts'[k].generation = hosts[k].generation
    <3>1. CASE UNCHANGED hosts
      BY <3>1
    <3>2. CASE /\ AcceptsHostEvent(conn[a].host, conn[a].generation)
               /\ UpdateHostCapabilities(conn[a].host, a)
      <4>1. conn[a].host \in Hosts /\ hosts[conn[a].host] \in Routes
        BY <1>0, <1>6, <3>2 DEF UpdateCapabilities, AcceptsHostEvent
      <4>2. hosts' = [hosts EXCEPT ![conn[a].host] = [hosts[conn[a].host] EXCEPT !.lunaMax = a]]
        BY <3>2 DEF UpdateHostCapabilities
      <4>3. [hosts[conn[a].host] EXCEPT !.lunaMax = a] \in Routes
        BY <4>1 DEF Routes
      <4>. QED
        BY <1>0, <4>1, <4>2, <4>3 DEF Routes
    <3>. QED
      BY <1>6, <3>1, <3>2 DEF UpdateCapabilities, MayUpdateCapabilities
  <2>5. \A k \in Hosts : hosts[k] # NoRoute => hosts[k].sender \in Agents
    BY <1>0 DEF Routes
  <2>6. \A b \in Agents : Serving(b) => conn[b].host \in Hosts
    BY <1>0 DEF Serving
  <2>7. RouteHasLiveSocket'
    BY <2>3, <2>4, <2>5 DEF Serving
  <2>8. OvertakenUnlessOwner'
    BY <2>2, <2>3, <2>4, <2>6 DEF Serving
  <2>9. \A b \in Agents : Serving(b)' => conn'[b].generation <= highest'[conn'[b].host]
    BY <2>2, <2>3 DEF Serving
  <2>. QED
    BY <2>7, <2>8, <2>9
<1>. QED
  BY <1>1, <1>2, <1>3, <1>4, <1>5, <1>6, LoopSteps
     DEF AgentSocket, ForwardFrame, FrameForwarded, RouteGone, AcceptFrame, AgentStops,
         Publish

LEMMA RouteStep == TypeOK /\ RouteInv /\ [Next]_vars => RouteInv'
<1>. SUFFICES ASSUME TypeOK, RouteInv, [Next]_vars PROVE RouteInv'
  OBVIOUS
<1>1. CASE UNCHANGED <<hosts, conn, highest>>
  BY <1>1 DEF RouteInv, RouteHasLiveSocket, OvertakenUnlessOwner, Owns, Serving, Registered
<1>2. CASE Clock
  BY <1>1, <1>2, ClockFrame DEF agentVars
<1>3. ASSUME NEW r \in Requests, Handler(r) PROVE RouteInv'
  BY <1>1, <1>3, HandlerFrame
<1>4. ASSUME NEW w \in Sockets, BrowserSocket(w) PROVE RouteInv'
  BY <1>1, <1>4, BrowserSocketFrame DEF agentVars
<1>5. CASE UNCHANGED vars
  BY <1>1, <1>5 DEF vars, agentVars
<1>. QED
  BY <1>2, <1>3, <1>4, <1>5, RouteAgent DEF Next

LEMMA RouteInvariant == Spec => []RouteInv
<1>1. Init => RouteInv
  BY DEF Init, RegistryInit, RouteInv, RouteHasLiveSocket, OvertakenUnlessOwner,
         Registered, Serving, IdleConn
<1>. QED
  BY <1>1, RouteStep, TypeCorrect, PTL DEF Spec

(* The registry never holds the sender of a connection that is over.       *)
THEOREM RoutesAreAlive == Spec => []RouteHasLiveSocket
BY RouteInvariant, PTL DEF RouteInv

(* Two connections pass for the same generation of a host only if that     *)
(* host's generations went backwards.                                      *)
THEOREM OneConnectionPerGeneration == Spec => []OvertakenUnlessOwner
BY RouteInvariant, PTL DEF RouteInv

(***************************************************************************)
(* Frames and the channels they wait in.                                   *)
(***************************************************************************)
LEMMA FrameHandler ==
    ASSUME TypeOK, RouteInv, FrameInv, NEW r \in Requests, Handler(r)
    PROVE  FrameInv'
<1>. USE DEF FrameInv, FramesReachTheirGeneration
<1>0. /\ req \in [Requests -> ReqRecords]
      /\ chan \in [Agents -> Seq(Frames)]
      /\ \A q \in Requests : req[q].pc = "send" => req[q].sender \in Agents
      /\ conn' = conn
  BY HandlerFrame DEF TypeOK, ReqTypeOK, AgentTypeOK
<1>1. CASE /\ UNCHANGED chan
           /\ \A q \in Requests : req'[q].pc = "send" => req'[q] = req[q]
  BY <1>0, <1>1 DEF Serving
<1>2. ASSUME NEW h \in Hosts, NEW g \in Generations, FindRoute(r, h, g) PROVE FrameInv'
  <2>1. CASE Routable(h, Admin, g)
    <3>. DEFINE b == hosts[h].sender
    <3>1. /\ req'[r].sender = b /\ req'[r].host = h /\ req'[r].generation = g
          /\ \A q \in Requests \ {r} : req'[q] = req[q]
      BY <1>0, <1>2, <2>1 DEF FindRoute, ReqRecords
    <3>2. chan' = chan
      BY <1>2 DEF FindRoute, agentVars
    <3>3. Serving(b) /\ conn[b].host = h /\ conn[b].generation = g
      BY <2>1 DEF Routable, RouteInv, RouteHasLiveSocket
    <3>. QED
      BY <1>0, <3>1, <3>2, <3>3 DEF Serving
  <2>2. CASE ~Routable(h, Admin, g)
    BY <1>0, <1>1, <1>2, <2>2 DEF FindRoute, Finish, IdleRequest, agentVars
  <2>. QED
    BY <2>1, <2>2
<1>3. CASE SendFrame(r)
  <2>. DEFINE a == req[r].sender
              f == [session |-> req[r].session, host |-> req[r].host,
                    generation |-> req[r].generation]
  <2>1. /\ a \in Agents
        /\ \A q \in Requests : req'[q].pc = "send" => req'[q] = req[q]
    BY <1>0, <1>3 DEF SendFrame, Finish, IdleRequest
  <2>2. CASE ReceiverAlive(a)
    <3>1. chan' = [chan EXCEPT ![a] = Append(@, f)]
      BY <1>3, <2>2 DEF SendFrame
    <3>2. f.host = conn[a].host /\ f.generation = conn[a].generation
      BY <1>3, <2>2 DEF SendFrame, ReceiverAlive
    <3>3. Serving(a)
      BY <2>2 DEF ReceiverAlive
    <3>. HIDE DEF f, a
    <3>4. \A b \in Agents \ {a} : chan'[b] = chan[b]
      BY <1>0, <3>1
    <3>5. chan'[a] = Append(chan[a], f) /\ chan[a] \in Seq(Frames)
      BY <1>0, <2>1, <3>1
    <3>6. ASSUME NEW i \in 1 .. Len(chan'[a])
          PROVE  chan'[a][i].host = conn[a].host /\ chan'[a][i].generation = conn[a].generation
      BY <2>1, <3>2, <3>5, <3>6, AppendProperties, LenProperties
    <3>. QED
      BY <1>0, <2>1, <3>3, <3>4, <3>6 DEF Serving
  <2>3. CASE ~ReceiverAlive(a)
    BY <1>1, <1>3, <2>1, <2>3 DEF SendFrame
  <2>. QED
    BY <2>2, <2>3
<1>4. CASE DropRequest(r)
  BY <1>0, <1>1, <1>4 DEF DropRequest, Finish, IdleRequest, agentVars
<1>5. CASE /\ UNCHANGED chan
           /\ \A q \in Requests \ {r} : req'[q] = req[q]
           /\ req'[r].pc # "send"
  BY <1>1, <1>5
<1>6. ASSUME NEW s \in Sessions, Login(r, s) PROVE FrameInv'
  BY <1>0, <1>5, <1>6 DEF Login, ReqRecords, agentVars
<1>7. ASSUME NEW s \in Sessions, NEW pc \in AfterAuthentication, Authenticate(r, s, pc)
      PROVE  FrameInv'
  BY <1>0, <1>5, <1>7 DEF Authenticate, AfterAuthentication, ReqRecords, agentVars
<1>8. CASE InsertSession(r) \/ RemoveSession(r) \/ ForgetBrowser(r) \/ FindBrowser(r)
  BY <1>0, <1>5, <1>8 DEF InsertSession, RemoveSession, ForgetBrowser, FindBrowser, Goto,
                          Finish, IdleRequest, ReqRecords, agentVars
<1>9. ASSUME NEW t \in Tickets, IssueTicket(r, t) \/ RefuseSocket(r, t) PROVE FrameInv'
  BY <1>0, <1>5, <1>9 DEF IssueTicket, RefuseSocket, Finish, IdleRequest, ReqRecords, agentVars
<1>10. ASSUME NEW t \in Tickets, NEW w \in Sockets, UpgradeSocket(r, t, w) PROVE FrameInv'
  BY <1>0, <1>5, <1>10 DEF UpgradeSocket, Finish, IdleRequest, ReqRecords, agentVars
<1>. QED
  BY <1>2, <1>3, <1>4, <1>6, <1>7, <1>8, <1>9, <1>10 DEF Handler

LEMMA FrameAgent ==
    ASSUME TypeOK, FrameInv, NEW a \in Agents, AgentSocket(a)
    PROVE  FrameInv'
<1>. USE DEF FrameInv, FramesReachTheirGeneration
<1>0. /\ conn \in [Agents -> ConnRecords]
      /\ chan \in [Agents -> Seq(Frames)]
      /\ \A q \in Requests : req[q].pc = "send" => req[q].sender \in Agents
      /\ req' = req
  BY AgentFrame DEF TypeOK, ReqTypeOK, AgentTypeOK
<1>1. ASSUME NEW h \in Hosts, NEW g \in Generations, AgentConnect(a, h, g) PROVE FrameInv'
  BY <1>0, <1>1, LenProperties DEF AgentConnect, Serving, ConnRecords
<1>2. CASE AgentHello(a)
  BY <1>0, <1>2 DEF AgentHello, Serving, ConnRecords
<1>3. CASE AgentRejected(a)
  BY <1>0, <1>3 DEF AgentRejected, IdleConn, Serving, ConnRecords
<1>4. CASE AgentCloses(a)
  BY <1>0, <1>4 DEF AgentCloses, IdleConn, Serving, ConnRecords
<1>a. ASSUME StaysInLoop(a)
      PROVE  \A b \in Agents :
                 /\ conn'[b].host = conn[b].host
                 /\ conn'[b].generation = conn[b].generation
                 /\ Serving(b)' <=> Serving(b)
                 /\ conn[b].phase # "hello" => conn'[b].phase # "hello"
  BY <1>a DEF StaysInLoop, Serving
<1>5. ASSUME StaysInLoop(a), UNCHANGED chan PROVE FrameInv'
  BY <1>0, <1>5, <1>a DEF Serving
<1>6. CASE ForwardFrame(a)
  <2>1. StaysInLoop(a)
    BY <1>6, LoopSteps
  <2>2. chan' = [chan EXCEPT ![a] = Tail(@)] /\ chan[a] # <<>>
    BY <1>6 DEF ForwardFrame
  <2>3. \A b \in Agents \ {a} : chan'[b] = chan[b]
    BY <1>0, <2>2
  <2>4. chan'[a] = Tail(chan[a]) /\ chan[a] \in Seq(Frames)
    BY <1>0, <2>2
  <2>5. ASSUME NEW i \in 1 .. Len(chan'[a])
        PROVE  i + 1 \in 1 .. Len(chan[a]) /\ chan'[a][i] = chan[a][i + 1]
    <3>1. /\ Len(Tail(chan[a])) = Len(chan[a]) - 1
          /\ \A k \in 1 .. Len(Tail(chan[a])) : Tail(chan[a])[k] = chan[a][k + 1]
      BY <2>2, <2>4, HeadTailProperties
    <3>2. Len(chan[a]) \in Nat
      BY <2>4, LenProperties
    <3>. QED
      BY <2>4, <2>5, <3>1, <3>2
  <2>7. Serving(a)
    BY <2>1 DEF StaysInLoop
  <2>8. FramesReachTheirGeneration'
    <3>1. ASSUME NEW b \in Agents, NEW i \in 1 .. Len(chan'[b])
          PROVE  chan'[b][i].host = conn[b].host /\ chan'[b][i].generation = conn[b].generation
      BY <2>3, <2>5, <3>1
    <3>. QED
      BY <1>a, <2>1, <3>1
  <2>. QED
    BY <1>0, <1>a, <2>1, <2>3, <2>7, <2>8 DEF Serving
<1>. QED
  BY <1>1, <1>2, <1>3, <1>4, <1>5, <1>6, LoopSteps
     DEF AgentSocket, FrameForwarded, RouteGone, AcceptFrame, AgentStops,
         UpdateCapabilities, Publish

LEMMA FrameStep == TypeOK /\ RouteInv /\ FrameInv /\ [Next]_vars => FrameInv'
<1>. SUFFICES ASSUME TypeOK, RouteInv, FrameInv, [Next]_vars PROVE FrameInv'
  OBVIOUS
<1>1. CASE UNCHANGED <<conn, chan, req>>
  BY <1>1 DEF FrameInv, FramesReachTheirGeneration, Serving
<1>2. CASE Clock
  BY <1>1, <1>2, ClockFrame DEF agentVars
<1>3. ASSUME NEW w \in Sockets, BrowserSocket(w) PROVE FrameInv'
  BY <1>1, <1>3, BrowserSocketFrame DEF agentVars
<1>4. CASE UNCHANGED vars
  BY <1>1, <1>4 DEF vars, agentVars
<1>. QED
  BY <1>2, <1>3, <1>4, FrameHandler, FrameAgent DEF Next

(* A browser's frame is never queued for a connection of another host or   *)
(* generation than the browser named, however late it is sent.             *)
THEOREM FramesAreNotMisrouted == Spec => []FramesReachTheirGeneration
<1>1. Init => FrameInv
  BY DEF Init, FrameInv, FramesReachTheirGeneration, IdleConn, IdleRequest
<1>2. FrameInv => FramesReachTheirGeneration
  BY DEF FrameInv
<1>. QED
  BY <1>1, <1>2, FrameStep, RouteInvariant, TypeCorrect, PTL DEF Spec

(***************************************************************************)
(* Capabilities.                                                           *)
(***************************************************************************)
LEMMA CapabilityAgent ==
    ASSUME TypeOK, RouteInv, CapabilityIsFromTheRoute, NEW a \in Agents, AgentSocket(a)
    PROVE  CapabilityIsFromTheRoute'
<1>. USE DEF CapabilityIsFromTheRoute, Registered
<1>0. /\ conn \in [Agents -> ConnRecords]
      /\ highest \in [Hosts -> Nat]
      /\ hosts \in [Hosts -> Routes \cup {NoRoute}]
      /\ conn[a].phase # "idle" => conn[a].host \in Hosts
  BY DEF TypeOK, AgentTypeOK, RegistryTypeOK
<1>1. CASE UNCHANGED <<hosts, highest>>
  BY <1>1
<1>2. CASE AgentHello(a)
  <2>. DEFINE h == conn[a].host
              g == conn[a].generation
  <2>1. h \in Hosts /\ g \in Nat
    BY <1>0, <1>2 DEF AgentHello, ConnRecords
  <2>2. \A k \in Hosts : k # h => hosts'[k] = hosts[k] /\ highest'[k] = highest[k]
    BY <1>0, <1>2 DEF AgentHello, RegisterHost
  <2>3. hosts'[h].lunaMax = Unknown
    BY <1>0, <1>2, <2>1 DEF AgentHello, RegisterHost
  <2>. QED
    BY <2>1, <2>2, <2>3
<1>3. CASE AgentCloses(a)
  BY <1>0, <1>3 DEF AgentCloses, UnregisterHost
<1>4. CASE UpdateCapabilities(a) /\ ~UNCHANGED hosts
  <2>. DEFINE h == conn[a].host
  <2>1. /\ h \in Hosts /\ Serving(a)
        /\ hosts[h] \in Routes /\ hosts[h].generation = conn[a].generation
        /\ highest' = highest
    BY <1>0, <1>4 DEF UpdateCapabilities, MayUpdateCapabilities, AcceptsHostEvent, Serving
  <2>2. /\ \A k \in Hosts : k # h => hosts'[k] = hosts[k]
        /\ hosts'[h] = [hosts[h] EXCEPT !.lunaMax = a]
    BY <1>0, <1>4, <2>1 DEF UpdateCapabilities, UpdateHostCapabilities
  <2>3. /\ hosts'[h].lunaMax = a /\ hosts'[h].sender = hosts[h].sender
        /\ hosts'[h].generation = hosts[h].generation
    BY <2>1, <2>2 DEF Routes
  <2>4. hosts[h].sender = a \/ highest[h] > hosts[h].generation
    BY <1>0, <1>4, <2>1 DEF RouteInv, OvertakenUnlessOwner, Owns, UpdateCapabilities,
       MayUpdateCapabilities, AcceptsHostEvent
  <2>. QED
    BY <2>1, <2>2, <2>3, <2>4
<1>. QED
  BY <1>1, <1>2, <1>3, <1>4
     DEF AgentSocket, AgentConnect, AgentRejected, ForwardFrame, FrameForwarded, RouteGone,
         AcceptFrame, AgentStops, UpdateCapabilities, Publish

LEMMA CapabilityStep ==
    TypeOK /\ RouteInv /\ CapabilityIsFromTheRoute /\ [Next]_vars => CapabilityIsFromTheRoute'
<1>. SUFFICES ASSUME TypeOK, RouteInv, CapabilityIsFromTheRoute, [Next]_vars
              PROVE  CapabilityIsFromTheRoute'
  OBVIOUS
<1>1. CASE UNCHANGED <<hosts, highest>>
  BY <1>1 DEF CapabilityIsFromTheRoute, Registered
<1>2. CASE Clock
  BY <1>1, <1>2, ClockFrame DEF agentVars
<1>3. ASSUME NEW r \in Requests, Handler(r) PROVE CapabilityIsFromTheRoute'
  BY <1>1, <1>3, HandlerFrame
<1>4. ASSUME NEW w \in Sockets, BrowserSocket(w) PROVE CapabilityIsFromTheRoute'
  BY <1>1, <1>4, BrowserSocketFrame DEF agentVars
<1>5. CASE UNCHANGED vars
  BY <1>1, <1>5 DEF vars, agentVars
<1>. QED
  BY <1>2, <1>3, <1>4, <1>5, CapabilityAgent DEF Next

(* The capability shown for a host was reported by the connection that     *)
(* serves it, although the accept check and the update are two steps.      *)
THEOREM CapabilitiesAreCurrent == Spec => []CapabilityIsFromTheRoute
<1>1. Init => CapabilityIsFromTheRoute
  BY DEF Init, RegistryInit, CapabilityIsFromTheRoute, Registered
<1>. QED
  BY <1>1, CapabilityStep, RouteInvariant, TypeCorrect, PTL DEF Spec

(***************************************************************************)
(* Tickets.                                                                *)
(***************************************************************************)
LEMMA TicketHandler ==
    ASSUME TypeOK, TicketInv, NEW r \in Requests, Handler(r)
    PROVE  TicketInv'
<1>. USE DEF TicketInv, TicketOpensOneSocket
<1>0. /\ tickets \in [Tickets -> Sessions \cup {NoSession}]
      /\ minted \in [Tickets -> Sessions \cup {NoSession}]
      /\ sock \in [Sockets -> SockRecords]
      /\ \A w \in Sockets : sock[w].ticket # NoTicket => sock[w].ticket \in Tickets
      /\ req[r].pc # "idle" => req[r].session \in Sessions
  BY DEF TypeOK, TicketTypeOK, SockTypeOK, ReqTypeOK, SockRecords
<1>1. CASE UNCHANGED <<tickets, minted, sock>>
  BY <1>1
<1>2. ASSUME NEW t \in Tickets, IssueTicket(r, t) PROVE TicketInv'
  BY <1>0, <1>2 DEF IssueTicket, sockVars
<1>3. ASSUME NEW t \in Tickets, RefuseSocket(r, t) PROVE TicketInv'
  BY <1>0, <1>3 DEF RefuseSocket, TakeTicket, sockVars
<1>4. ASSUME NEW t \in Tickets, NEW w \in Sockets, UpgradeSocket(r, t, w) PROVE TicketInv'
  <2>1. /\ tickets[t] = req[r].session /\ req[r].session \in Sessions
        /\ minted' = minted
        /\ tickets' = [tickets EXCEPT ![t] = NoSession]
    BY <1>0, <1>4 DEF UpgradeSocket, TakeTicket, TicketAdmits
  <2>2. /\ sock'[w].ticket = t /\ sock'[w].session = req[r].session
        /\ \A v \in Sockets \ {w} : sock'[v] = sock[v]
    <3>1. sock' = [sock EXCEPT ![w] = [sock[w] EXCEPT !.phase = "upgrading",
                                       !.session = req[r].session, !.ticket = t]]
      BY <1>0, <1>4 DEF UpgradeSocket
    <3>. QED
      BY <1>0, <3>1 DEF SockRecords
  <2>3. minted[t] = req[r].session /\ req[r].session # NoSession
    BY <2>1, NullsAssumption
  <2>4. \A v \in Sockets : sock[v].ticket # t
    BY <2>1, <2>3, NullsAssumption
  <2>. QED
    BY <1>0, <2>1, <2>2, <2>3, <2>4
<1>. QED
  BY <1>1, <1>2, <1>3, <1>4
     DEF Handler, Login, InsertSession, Authenticate, RemoveSession, ForgetBrowser,
         FindBrowser, FindRoute, SendFrame, DropRequest, ticketVars, sockVars

LEMMA TicketStep == TypeOK /\ TicketInv /\ [Next]_vars => TicketInv'
<1>. SUFFICES ASSUME TypeOK, TicketInv, [Next]_vars PROVE TicketInv'
  OBVIOUS
<1>1. CASE /\ UNCHANGED <<tickets, minted>>
           /\ \A w \in Sockets : /\ sock'[w].ticket = sock[w].ticket
                                 /\ sock'[w].session = sock[w].session
  BY <1>1 DEF TicketInv, TicketOpensOneSocket
<1>2. CASE Clock
  BY <1>1, <1>2, ClockFrame DEF sockVars
<1>3. ASSUME NEW a \in Agents, AgentSocket(a) PROVE TicketInv'
  BY <1>1, <1>3, AgentFrame DEF ticketVars, sockVars
<1>4. ASSUME NEW w \in Sockets, BrowserSocket(w) PROVE TicketInv'
  <2>1. sock \in [Sockets -> SockRecords]
    BY DEF TypeOK, SockTypeOK
  <2>2. \A v \in Sockets : /\ sock'[v].ticket = sock[v].ticket
                           /\ sock'[v].session = sock[v].session
    BY <1>4, <2>1 DEF BrowserSocket, Subscribe, SessionCheck, ReceiveEvent, Lagged, EventSent,
       ResyncSent, BrowserLeaves, CloseSocket, SockRecords
  <2>. QED
    BY <1>1, <1>4, <2>2, BrowserSocketFrame DEF ticketVars
<1>5. CASE UNCHANGED vars
  BY <1>1, <1>5 DEF vars, ticketVars, sockVars
<1>. QED
  BY <1>2, <1>3, <1>4, <1>5, TicketHandler DEF Next

(* However many requests race for a ticket, one gets the socket, and only  *)
(* with the session the ticket was issued to.                              *)
THEOREM TicketsAreOneTime == Spec => []TicketOpensOneSocket
<1>1. Init => TicketInv
  BY DEF Init, TicketInv, TicketOpensOneSocket, IdleSock
<1>2. TicketInv => TicketOpensOneSocket
  BY DEF TicketInv
<1>. QED
  BY <1>1, <1>2, TicketStep, TypeCorrect, PTL DEF Spec

(***************************************************************************)
(* Delivery.                                                               *)
(***************************************************************************)
LEMMA DeliverySocket ==
    ASSUME TypeOK, DeliveryInv, NEW w \in Sockets, BrowserSocket(w)
    PROVE  DeliveryInv'
<1>. USE DEF DeliveryInv, DeliveryIsExact
<1>0. /\ sock \in [Sockets -> SockRecords]
      /\ seen \in [Sockets -> SUBSET Nat]
      /\ resynced \in [Sockets -> Nat]
      /\ Len(events) \in Nat
      /\ sock[w].next \in Nat \ {0}
  BY LenProperties DEF TypeOK, SockTypeOK, SockRecords
<1>1. /\ events' = events
      /\ \A v \in Sockets \ {w} : /\ sock'[v] = sock[v]
                                  /\ seen'[v] = seen[v]
                                  /\ resynced'[v] = resynced[v]
      /\ sock'[w].session = sock[w].session
  BY <1>0, BrowserSocketFrame
     DEF BrowserSocket, Subscribe, SessionCheck, ReceiveEvent, Lagged, EventSent,
         ResyncSent, BrowserLeaves, CloseSocket, SockRecords
<1>2. \A v \in Sockets, p \in Nat : Addressed(v, p)' <=> Addressed(v, p)
  BY <1>1 DEF Addressed
\* What is left to show is the invariant of w itself.
<1>3. SUFFICES
        /\ sock'[w].phase \in {"open", "sending", "resyncing"} =>
             /\ \A p \in seen'[w] : Addressed(w, p)
             /\ \A p \in 1 .. sock'[w].next - 1 :
                    Addressed(w, p) =>
                        \/ p \in seen'[w]
                        \/ p < resynced'[w]
                        \/ sock'[w].phase = "sending" /\ p = sock'[w].next - 1
                        \/ sock'[w].phase = "resyncing"
        /\ sock'[w].phase \in {"idle", "upgrading"} => seen'[w] = {}
        /\ sock'[w].next \in Nat \ {0}
        /\ sock'[w].next <= Len(events) + 1
        /\ seen'[w] \subseteq 1 .. Len(events)
        /\ sock'[w].phase = "sending" => sock'[w].next > 1 /\ Addressed(w, sock'[w].next - 1)
  <2>1. \A v \in Sockets : seen'[v] \subseteq Nat /\ sock'[v].next \in Nat \ {0}
    BY <1>0, <1>1, <1>3 DEF SockRecords
  <2>2. \A v \in Sockets : \A p \in seen'[v] : Addressed(v, p)' <=> Addressed(v, p)
    BY <1>2, <2>1
  <2>3. \A v \in Sockets : \A p \in 1 .. sock'[v].next - 1 : Addressed(v, p)' <=> Addressed(v, p)
    BY <1>2, <2>1
  <2>4. DeliveryIsExact'
    <3>1. ASSUME NEW v \in Sockets, sock'[v].phase \in {"open", "sending", "resyncing"},
                 NEW p \in seen'[v]
          PROVE  Addressed(v, p)'
      BY <1>1, <1>3, <2>2, <3>1
    <3>2. ASSUME NEW v \in Sockets, sock'[v].phase \in {"open", "sending", "resyncing"},
                 NEW p \in 1 .. sock'[v].next - 1, Addressed(v, p)'
          PROVE  \/ p \in seen'[v]
                 \/ p < resynced'[v]
                 \/ sock'[v].phase = "sending" /\ p = sock'[v].next - 1
                 \/ sock'[v].phase = "resyncing"
      <4>1. Addressed(v, p)
        BY <2>3, <3>2
      <4>2. CASE v = w
        BY <1>3, <3>2, <4>1, <4>2
      <4>3. CASE v # w
        BY <1>1, <3>2, <4>1, <4>3
      <4>. QED
        BY <4>2, <4>3
    <3>. QED
      BY <3>1, <3>2
  <2>5. ASSUME NEW v \in Sockets
        PROVE  /\ sock'[v].phase \in {"idle", "upgrading"} => seen'[v] = {}
               /\ sock'[v].next <= Len(events') + 1
               /\ seen'[v] \subseteq 1 .. Len(events')
               /\ sock'[v].phase = "sending" => /\ sock'[v].next > 1
                                                /\ Addressed(v, sock[v].next - 1)'
    <3>0. sock'[v].next - 1 \in Nat /\ Addressed(v, sock[v].next - 1)' = Addressed(v, sock'[v].next - 1)
      BY <1>1, <2>1 DEF Addressed
    <3>1. CASE v = w
      BY <1>1, <1>3, <3>0, <3>1
    <3>2. CASE v # w
      BY <1>1, <3>0, <3>2
    <3>. QED
      BY <3>1, <3>2
  <2>. QED
    BY <2>4, <2>5
<1>4. CASE Subscribe(w)
  BY <1>0, <1>4 DEF Subscribe, SockRecords
<1>5. CASE SessionCheck(w) \/ BrowserLeaves(w)
  BY <1>0, <1>5 DEF SessionCheck, BrowserLeaves, CloseSocket, SockRecords
<1>6. CASE ReceiveEvent(w)
  <2>1. /\ sock[w].phase = "open" /\ sock[w].next \in 1 .. Len(events)
        /\ sock'[w].next = sock[w].next + 1
        /\ sock'[w].phase = IF Addressed(w, sock[w].next) THEN "sending" ELSE "open"
        /\ seen' = seen /\ resynced' = resynced
    BY <1>0, <1>6 DEF ReceiveEvent, Oldest, SockRecords
  <2>. QED
    BY <1>0, <2>1
<1>7. CASE Lagged(w)
  <2>1. Oldest \in 1 .. Len(events) + 1
    BY <1>0, BoundsAssumption DEF Oldest
  <2>2. /\ sock[w].phase = "open"
        /\ sock'[w].next = Oldest /\ sock'[w].phase = "resyncing"
        /\ seen' = seen /\ resynced' = resynced
    BY <1>0, <1>7 DEF Lagged, SockRecords
  <2>. QED
    BY <1>0, <2>1, <2>2
<1>8. CASE EventSent(w)
  <2>1. /\ sock[w].phase = "sending" /\ sock'[w].phase = "open"
        /\ sock'[w].next = sock[w].next
        /\ seen'[w] = seen[w] \cup {sock[w].next - 1}
        /\ resynced' = resynced
    BY <1>0, <1>8 DEF EventSent, SockRecords
  <2>. QED
    BY <1>0, <2>1
<1>9. CASE ResyncSent(w)
  <2>1. /\ sock[w].phase = "resyncing" /\ sock'[w].phase = "open"
        /\ sock'[w].next = sock[w].next
        /\ resynced'[w] = sock[w].next
        /\ seen' = seen
    BY <1>0, <1>9 DEF ResyncSent, SockRecords
  <2>. QED
    BY <1>0, <2>1
<1>. QED
  BY <1>4, <1>5, <1>6, <1>7, <1>8, <1>9 DEF BrowserSocket

LEMMA DeliveryAgent ==
    ASSUME TypeOK, DeliveryInv, NEW a \in Agents, AgentSocket(a)
    PROVE  DeliveryInv'
<1>. USE DEF DeliveryInv, DeliveryIsExact
<1>1. CASE UNCHANGED events
  BY <1>1, AgentFrame DEF sockVars, Addressed
<1>2. CASE Publish(a)
  <2>. DEFINE e == conn[a].frame.to
  <2>1. e \in Sessions \cup {Everyone} /\ events \in Seq(Sessions \cup {Everyone})
    BY <1>2 DEF TypeOK, AgentTypeOK, SockTypeOK, ConnRecords, AgentFrames, NoFrame
  <2>2. events' = Append(events, e) /\ UNCHANGED <<sock, seen, resynced>>
    BY <1>2 DEF Publish, sockVars
  <2>. HIDE DEF e
  <2>3. /\ Len(events) \in Nat /\ Len(events') = Len(events) + 1
        /\ \A p \in 1 .. Len(events) : events'[p] = events[p]
    BY <2>1, <2>2, AppendProperties, LenProperties
  <2>4. \A v \in Sockets, p \in 1 .. Len(events) : Addressed(v, p)' <=> Addressed(v, p)
    BY <2>2, <2>3 DEF Addressed
  <2>5. \A v \in Sockets : sock[v].next \in Nat \ {0}
    BY DEF TypeOK, SockTypeOK, SockRecords
  <2>. QED
    BY <2>2, <2>3, <2>4, <2>5
<1>. QED
  BY <1>1, <1>2 DEF AgentSocket, AgentConnect, AgentHello, AgentRejected, ForwardFrame,
     FrameForwarded, RouteGone, AcceptFrame, AgentStops, UpdateCapabilities, AgentCloses

LEMMA DeliveryHandler ==
    ASSUME TypeOK, DeliveryInv, NEW r \in Requests, Handler(r)
    PROVE  DeliveryInv'
<1>. USE DEF DeliveryInv, DeliveryIsExact
<1>0. UNCHANGED <<events, seen, resynced>>
  BY HandlerFrame
<1>1. CASE UNCHANGED sock
  BY <1>0, <1>1 DEF Addressed
<1>2. ASSUME NEW t \in Tickets, NEW w \in Sockets, UpgradeSocket(r, t, w) PROVE DeliveryInv'
  <2>1. /\ sock[w].phase = "idle" /\ sock'[w].phase = "upgrading"
        /\ sock'[w].next = sock[w].next
        /\ \A v \in Sockets \ {w} : sock'[v] = sock[v]
    <3>1. sock \in [Sockets -> SockRecords]
      BY DEF TypeOK, SockTypeOK
    <3>2. sock' = [sock EXCEPT ![w] = [sock[w] EXCEPT !.phase = "upgrading",
                                       !.session = req[r].session, !.ticket = t]]
      BY <1>2, <3>1 DEF UpgradeSocket
    <3>. QED
      BY <1>2, <3>1, <3>2 DEF UpgradeSocket, SockRecords
  <2>. QED
    BY <1>0, <2>1 DEF Addressed
<1>. QED
  BY <1>1, <1>2
     DEF Handler, Login, InsertSession, Authenticate, RemoveSession, ForgetBrowser,
         IssueTicket, RefuseSocket, FindBrowser, FindRoute, SendFrame, DropRequest, sockVars

LEMMA DeliveryStep == TypeOK /\ DeliveryInv /\ [Next]_vars => DeliveryInv'
<1>. SUFFICES ASSUME TypeOK, DeliveryInv, [Next]_vars PROVE DeliveryInv'
  OBVIOUS
<1>1. CASE UNCHANGED <<events, sockVars>>
  BY <1>1 DEF DeliveryInv, DeliveryIsExact, Addressed, sockVars
<1>2. CASE Clock
  BY <1>1, <1>2, ClockFrame
<1>3. CASE UNCHANGED vars
  BY <1>1, <1>3 DEF vars
<1>. QED
  BY <1>2, <1>3, DeliveryHandler, DeliveryAgent, DeliverySocket DEF Next

(* What a browser received is what was addressed to its session, without a *)
(* hole it was not told about, however slow its socket is.                 *)
THEOREM EventsAreDeliveredExactly == Spec => []DeliveryIsExact
<1>1. Init => DeliveryInv
  BY DEF Init, DeliveryInv, DeliveryIsExact, IdleSock
<1>2. DeliveryInv => DeliveryIsExact
  BY DEF DeliveryInv
<1>. QED
  BY <1>1, <1>2, DeliveryStep, TypeCorrect, PTL DEF Spec
=============================================================================
