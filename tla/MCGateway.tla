------------------------------ MODULE MCGateway ------------------------------
(***************************************************************************)
(* Small instances of the Gateway for TLC.  The routes of several agents,  *)
(* the events of an agent and the tickets of several sessions hardly touch *)
(* each other, so a run makes each of them busy while the others are quiet *)
(* and never all of them at once.                                          *)
(***************************************************************************)
EXTENDS Gateway, TLC

(* Handlers, connections, sessions and tickets are interchangeable.        *)
Symmetry == Permutations(Requests) \cup Permutations(Agents)
            \cup Permutations(Sessions) \cup Permutations(Tickets)
            \cup Permutations(Sockets)

BusyAgents   == {a \in Agents : conn[a].phase # "idle"}
BusyRequests == {r \in Requests : req[r].pc # "idle"}

(* Nobody opens an event socket.                                           *)
NoSockets ==
    /\ \A t \in Tickets : minted[t] = NoSession
    /\ \A r \in Requests : req[r].pc \notin {"issue", "redeem"}

NoRpc == \A r \in Requests : req[r].pc \notin {"browser", "host", "send"}

(* A report concerns the routes; without sockets nobody gets what agents   *)
(* send.  A status is broadcast as a message for everyone is.              *)
OnlyReports  == \A a \in Agents : conn[a].frame.kind \in {"none", "capabilities"}
OnlyMessages == \A a \in Agents : conn[a].frame.kind \in {"none", "message"}

(* At most one agent and one handler at a time, no agent ever overtaken.   *)
OneAgent ==
    /\ Cardinality(BusyAgents) <= 1 /\ Cardinality(BusyRequests) <= 1
    /\ \A a \in Agents : conn[a].generation <= 1
    /\ \A h \in Hosts : highest[h] <= 1

SafetyScenarios ==
    \/ /\ NoSockets /\ OnlyReports
       /\ Cardinality(issued) <= 1 /\ Len(events) + EventsPending <= 1
    \/ OneAgent /\ NoRpc /\ OnlyMessages /\ Cardinality(issued) <= 1
    \/ \A h \in Hosts : highest[h] = 0 /\ BusyAgents = {}

(* Without symmetry, the one agent has a name, and so has the handler that *)
(* does everything; the others only carry RPCs.                            *)
TheAgent == CHOOSE a \in Agents : TRUE
TheRequest == CHOOSE r \in Requests : TRUE

(* Liveness: a step that only the outside world takes (an agent connects   *)
(* or sends, a request arrives, a ticket is issued) is left out where it   *)
(* would make both halves busy; no step that fairness speaks of is.        *)
LiveScenarios ==
    \/ /\ NoSockets' /\ Len(events') + EventsPending' = 0
       /\ \A r \in Requests \ {TheRequest} :
              req'[r].pc \in {"idle", "browser", "host", "send"}
    \/ OneAgent' /\ NoRpc' /\ OnlyMessages' /\ BusyAgents' \subseteq {TheAgent}
       /\ BusyRequests' \subseteq {TheRequest}
=============================================================================
