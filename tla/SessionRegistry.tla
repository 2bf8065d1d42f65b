--------------------------- MODULE SessionRegistry ---------------------------
(***************************************************************************)
(* The in-memory registry of crates/session-core: which browser sessions   *)
(* are known and which Host Agent connection currently serves each host.   *)
(* Two RwLock'd maps guard two variables; every operator below is one      *)
(* critical section of one lock.  A caller that needs both maps            *)
(* (route_for_browser) takes them one after the other, so it is two        *)
(* operators here and two steps of its caller.                             *)
(***************************************************************************)
EXTENDS Naturals

CONSTANTS
    Users,      \* authenticated users
    Sessions,   \* browser session ids; every login draws a fresh one
    Hosts,      \* host ids
    Agents,     \* Host Agent connections; one stands for its mpsc channel too
    NoUser,     \* "not in the browsers map"
    NoRoute,    \* "not in the hosts map"
    Unknown     \* luna_max: None

ASSUME NoUserAssumption == NoUser \notin Users
ASSUME NoRouteAssumption ==
    NoRoute \notin [owner : Users, generation : Nat,
                    lunaMax : Agents \cup {Unknown}, sender : Agents]

VARIABLES
    hosts,      \* host id -> HostRoute
    browsers    \* browser session id -> user

(* A capability report is abstracted to the connection that made it, the   *)
(* one thing about it the registry can get wrong.                          *)
Routes == [owner : Users, generation : Nat,
           lunaMax : Agents \cup {Unknown}, sender : Agents]

RegistryTypeOK ==
    /\ hosts \in [Hosts -> Routes \cup {NoRoute}]
    /\ browsers \in [Sessions -> Users \cup {NoUser}]

RegistryInit ==
    /\ hosts = [h \in Hosts |-> NoRoute]
    /\ browsers = [s \in Sessions |-> NoUser]

Registered(h) == hosts[h] # NoRoute

RegisterBrowser(s, u) == browsers' = [browsers EXCEPT ![s] = u]

UnregisterBrowser(s) == browsers' = [browsers EXCEPT ![s] = NoUser]

(* The definitions named ...Mistake are changes a maintainer could make to *)
(* the operator that follows them; a run shows what each would break.      *)

\* Lets a connection replace one of its own generation.
MayRegisterHostMistake(h, u, g) ==
    Registered(h) => hosts[h].owner = u /\ g >= hosts[h].generation

(* A later connection of the same owner replaces the route only with a     *)
(* strictly larger generation.                                             *)
MayRegisterHost(h, u, g) ==
    Registered(h) => /\ hosts[h].owner = u
                     /\ g > hosts[h].generation

RegisterHost(h, u, g, a) ==
    hosts' = [hosts EXCEPT ![h] = [owner |-> u, generation |-> g,
                                   lunaMax |-> Unknown, sender |-> a]]

AcceptsHostEvent(h, g) == Registered(h) /\ hosts[h].generation = g

\* Trusts the accept check the caller made before.
MayUpdateCapabilitiesMistake(h, g) == Registered(h)

MayUpdateCapabilities(h, g) == AcceptsHostEvent(h, g)

UpdateHostCapabilities(h, a) == hosts' = [hosts EXCEPT ![h].lunaMax = a]

\* Removes older routes but not the caller's own.
UnregisterHostMistake(h, g) ==
    hosts' = [hosts EXCEPT ![h] = IF Registered(h) /\ @.generation < g THEN NoRoute ELSE @]

UnregisterHost(h, g) ==
    hosts' = [hosts EXCEPT ![h] = IF AcceptsHostEvent(h, g) THEN NoRoute ELSE @]

(* route_for_browser: first the browsers lock, then the hosts lock.        *)
KnownBrowser(s) == browsers[s] # NoUser

\* Checks the owner only.
RoutableMistake(h, u, g) == Registered(h) /\ hosts[h].owner = u

Routable(h, u, g) ==
    /\ Registered(h)
    /\ hosts[h].owner = u
    /\ hosts[h].generation = g
=============================================================================
