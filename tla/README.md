# A formal model of hutoncodex

hutoncodex puts a remote front end on `codex app-server`. It has two front ends
that share little code: a **web** stack (browser, Rust Gateway, Rust Host Agent,
App Server on stdio) and a **desktop** stack (a Tauri application that talks to an
App Server directly, or through a relay after pairing). This directory holds TLA+
modules translated from the source, TLC configurations that check them on small
instances, and proofs, checked by TLAPS, that hold for every instance.

All paths below are relative to the repository root.

## 1. Inventory

| Component | Source | State it keeps | Operations |
|---|---|---|---|
| Session registry | `crates/session-core` | two locked maps: browser session -> user; host -> route (owner, generation, capability, sender) | register/unregister browser and host, update capability, find a route, accept an event |
| Gateway | `services/gateway` | session map, ticket map, the registry, one broadcast channel (1024), one mpsc channel (256) per agent | login, logout, ticket, RPC, event socket, agent socket |
| App Server client | `crates/app-server-client` | pending map, id counter, broadcast channel (512), reader task, child | request, notify, raw send, read loop, shutdown |
| Host Agent | `services/host-agent` | rewritten ids, thread owners, server-request owners, sequence | connect: handshake, then a loop over Gateway frames and App Server messages |
| Browser client | `src/lib/gatewayClient.ts` | CSRF token, pending requests, last sequence, socket | connect, request, respond, receive, disconnect |
| Browser application | `src/WebApp.tsx` | selected host, threads, turns, approvals | log in, select a host, open a thread, send, interrupt, approve |
| Desktop transport | `src-tauri/src/lib.rs`, `src/lib/appServer.ts` | connection attempts, cancels, installed connections, one task each, relay reassembly | begin, cancel, connect, pair, send, disconnect |
| Pairing | `src-tauri/src/pairing.rs` | a registration file naming a key and a client, two callback ports, the environments seen | check, refresh, discard, enroll, claim a code, choose an environment, open the relay |
| Auth broker | `src-tauri/src/auth_broker.rs` | one lock, a child process (Windows) or stored credentials (Android) | authenticate: dialogue, refresh, device-code login, store, clear |
| Key store bridge | `src-tauri/src/android_security.rs` | none of its own | sign, read, write and delete through the Kotlin plugin |
| Discord presence | `src-tauri/src/discord_presence.rs` | settings file, newest update, IPC connection, timers | update, save settings, shut down; connect, show, throttle, back off |
| Desktop views | `src/App.tsx` | one view state per connection and the mirror of the active one | add, activate, clear, cancel |

How they interact: the browser calls the Gateway over HTTP and listens on one
event WebSocket, opened with a one-time ticket. A Host Agent connects outwards to
the Gateway; a browser's RPC is queued on the mpsc channel of the agent's route,
and whatever the agent sends goes through one broadcast channel to all event
sockets, each of which keeps what is addressed to its session. The Host Agent owns
an App Server process: it rewrites request ids on the way in and maps them back on
the way out, and remembers which browser session owns a thread and a server
request. On the desktop, the Tauri process owns the WebSocket or relay and the
page talks to it with commands and events tagged with connection ids and
generations. A pairing asks the auth broker for a token, makes or reuses a registration of
the device, and ends in a relay connection; the presence service takes what the
page reports and shows it on Discord from a thread of its own.

Where it is hard:

* **Interleaving.** Every Gateway handler is a task that stops at each lock; the
  registry's two maps are never locked together. An HTTP client that goes away
  drops its handler wherever it stands.
* **Stale state.** A sender cloned from a route is used after the lock is gone,
  and the route may have been replaced by another generation meanwhile. Ids of
  requests, server requests, threads and generations outlive the processes they
  were drawn in.
* **Bounded channels.** mpsc channels block the producer; broadcast channels drop
  the oldest message and report a lag, or do not report it.
* **Failure.** Sockets close, processes die, tickets and sessions expire, calls
  time out while their answer is on the way; an agent starts again with its
  numbers at zero and the same generation.
* **What persists.** A registration is a key, a client on a server and a file, made
  and deleted one at a time; a refresh token may be replaced by an answer that
  never arrives; the presence settings are on file and in memory. A cancel, a
  timeout or a crash may come between any two of these.

What makes each component correct is stated as properties in the modules below;
`PROJECT.json` lists every hazard at its line with the properties that would catch
it.

## 2. Modules

| Module | Models | State and actions |
|---|---|---|
| `SessionRegistry` | `crates/session-core/src/lib.rs` | `hosts`, `browsers`; one operator per critical section. No specification of its own. |
| `Gateway` | `services/gateway/src/main.rs` over the registry | `req` (HTTP handlers with a program counter), `conn` and `chan` (agent sockets and their mpsc channels), `sock` (event sockets), `events` (the broadcast channel), `sessions`, `tickets`, the clock |
| `AppServerClient` | `crates/app-server-client/src/lib.rs` | `nextId`, `call` (each call of `request_value` with a program counter), `pending`, `reply` (the oneshot channels), `asked`/`answered` (the child), `reader`, `stopping`, `notifications`. State and steps, no specification of its own. |
| `AppServerCalls` | the client with concurrent callers and a shutdown | one specification over `AppServerClient`; `Calls` is in its names because one proof module holds it beside `HostAgent` |
| `CallContract` | what a caller of the client may rely on | `outcome`, `served`; `AppServerCalls` is shown to implement it |
| `HostAgent` | `services/host-agent/src/main.rs` over the client | `phase`, `rewritten`, `threadOwner`, `requestOwner` (the agent's maps); `requests`, `replied`, `known`, `asks`, `answers` (the App Server); `told`, `delivered`, `published` (what went to browsers) |
| `SessionContract` | what browser sessions that share one App Server may rely on | `owner`, `asked`, `served`, `home`, `about`, `shown`, `answers`; `HostAgent` is shown to implement it |
| `GatewayClient` | `src/lib/gatewayClient.ts`, and `src/WebApp.tsx` where it makes, drops and uses clients | `phase`, `hostGeneration`, `lastSequence` of each client, `selected` of each page, `requests`; the Gateway and the agent as what they promise: `unsent`, `queue`, `listening`, `run`, `sequence`, `asked` |
| `ConnectionAttempts` | `src-tauri/src/lib.rs`: the commands and tasks of desktop connections (`pairing.rs` and `auth_broker.rs` where they look at a cancel) | `cmd`, `ok`, `kind`, `signal` (each attempt's command and watch channel), `attempts`, `cancelled`, `connections` (the locked maps), `task`, `outbox`; `calls`, `replies`, `events` (Tauri's IPC). State and steps, no specification of its own. |
| `DesktopClient` | `src/lib/appServer.ts` over those commands | `active`, `current`, `op` (where each attempt's operation awaits), `retries`, `status`, `disposed` |
| `ConnectionContract` | what the interface may rely on when it connects a client | `wanted`, `result`, `link`; `DesktopClient` is shown to implement it |
| `RelayReassembly` | `src-tauri/src/lib.rs`: `unwrap_relay_message` | `table` (the assemblies by number), their age (`older`, `expired`), `emitted`. State and steps, no specification of its own. |
| `RelayConnection` | `src-tauri/src/lib.rs`: an established relay connection, over the reassembly | `connected`, `nextSeq`, `cmd` (the command on the main thread), `queue`, `task`, `wire` |
| `RelayContract` | what the page may rely on when it sends over the relay | `accepted`, `written`, `state`; `RelayConnection` is shown to implement it |
| `CodexAuthBroker` | `src-tauri/src/auth_broker.rs`: the dialogue with the child on Windows | `stage`, `requested`, `toChild`, `toBroker`, `login`, `verdict`; `child`, `account` (outside). State and steps, no specification of its own. |
| `AuthBroker` | the rest of `auth_broker.rs`, over the dialogue, and the credentials in `android_security.rs` | `lock`, `pc`, `held`, `poll`, `cancelled`; `store`, `clockAhead` (the device); `live`, `minted` (the issuer) |
| `Pairing` | `src-tauri/src/pairing.rs` | `file`, `keys` (the device), `registered`, `online` (the server), `pc`, `using`, `listener`, `opened`, `callbacks`, `code` (the step-up), `before`, `chosen`, `looks` |
| `DiscordPresence` | `src-tauri/src/discord_presence.rs`, and the generation counter of `src/App.tsx` | `file`, `settings`, `saving`, `stopping` (the main thread), `queue`, `current`, `latest`, `client`, `lastSent`, the timers (the worker), `shown` (Discord) |
| `MC...` | | symmetry sets, small values and scenarios for TLC |
| `GatewayProofs`, `AppServerProofs`, `GatewayClientProofs`, `DesktopClientProofs`, `RelayProofs`, `AuthBrokerProofs`, `PairingProofs`, `DiscordPresenceProofs` | | theorems; `AppServerProofs` is about `AppServerCalls` and `HostAgent` |

`Gateway`: an action is what happens between two awaits of the code.
`Login`/`InsertSession` are the two critical sections of `login`;
`RemoveSession`/`ForgetBrowser` those of `logout` and of the eviction in
`authenticated_session`; `FindBrowser`/`FindRoute`/`SendFrame` those of
`browser_rpc`; `DropRequest` drops a handler's future. An agent socket goes through
`AgentConnect`, `AgentHello` (or `AgentRejected`), its `select!` loop
(`ForwardFrame`, `AcceptFrame`, `UpdateCapabilities`, `Publish`, `AgentStops`,
`RouteGone`) and `AgentCloses`. An event socket goes through `UpgradeSocket`,
`Subscribe` and its loop (`ReceiveEvent`, `Lagged`, `SessionCheck`, ...). Agents,
sessions and tickets are model values; a capability report is abstracted to the
connection that made it; the allow-list, origin, CSRF and password checks are
stateless and appear as the possibility of a refusal, which changes nothing.

`AppServerClient`: `request_value` is `Register`, `Write` or `WriteFails`, then
`TakeReply` or `Expire`; the error path waits for the lock once more (`Forget`), and
until it has it the reader may still take the sender out. `read_messages` is
`ReadAnswer`/`ReadOther` for a line and `ReaderStops`, `Drain` at the end;
`shutdown` is `ShutdownKill`, then `ShutdownDrain` or, when the kill fails,
`ShutdownFails`, which leaves every call to its timeout. An answer is abstracted to the call whose
request it answers. The reader's end does not change what is already queued.

`HostAgent`: the agent's own calls run before its loop, one at a time, so
`StartCall`/`ContinueCall` are the client's steps and `Initialized`, `Listed`,
`Greet` the boundaries between them. The loop takes one message at a time and
nothing else touches its maps, so an iteration is one action: `BrowserRequest` and
`BrowserResponse` for the first branch of `select!`, `ForwardAnswer`,
`PublishAnswer`, `RefuseRequest`, `ForwardRequest` and `ForwardNotification` for the
second. The App Server is the environment: it answers in any order or not at all,
makes threads, asks and notifies about threads it has. A browser may name any thread,
also one that nobody has (`message_thread_id` takes any string). `web:{session}:{uuid}` keys are numbers that are
never drawn twice.

`GatewayClient`: a client is made for every selection of a host, in one page or in two of
the same session. `connect` is `SelectHost` (with the `disconnect` of the client before
it), `TicketArrives`, `SocketOpens`, each of which may fail, time out or come too late;
a client that is disconnected while it waits for its ticket opens its socket all
the same. JavaScript runs to completion, so the handling of an envelope is one
action: `Ignore`, `Receive` (a gap in the numbers makes the page load its catalog again),
`DropOversized`, `ReceiveResync`. Behind the clients, the Gateway and the
agent are what `Gateway` and `HostAgent` show of them: an answer goes to all sockets of
the session under the browser's own id, and a socket gets every envelope in order,
or a resync in place of the oldest. `NumberForOthers` is a number the agent gives to a
frame for another session; `RestartAgent` is an agent that starts again with the
generation it had.

`ConnectionAttempts` and `DesktopClient`: Tauri's commands run concurrently, so a
command is one action per lock or await: `TakeEarlyCancel`, `Register`,
`TakeLateCancel` are the three locks of `begin_connection_attempt`; then the attempt
authenticates (pairing only) and connects, unless `StopCancelled` or `FailAttempt`
comes first; `ForgetAttempt` and `ReturnAttempt` are the two locks of the guard's
drop. A connection's task answers, closes or is lost, then `FinishRemove` and
`FinishEmit`. On the page, JavaScript runs to completion, so an event or a call of
the interface is one action with the continuations it releases, and each await of
`connect`, `preparePair` and `initialize` is a value of `op`. Attempt ids are fresh
UUIDs: an attempt names its connection, replaces no earlier sender, and
`connectGeneration`, which only changes together with the id, decides nothing more.
The interface is assumed to start an attempt only while the client has no
established connection, as `App.tsx` does (it makes a client per connection); a
client that starts a second attempt while the first is under way is what
the tests of `appServer.ts` exercise. `dispose` leaves an established connection to
its task, and a cancel of an attempt that is over leaves its id in
`cancelled_attempts`; the model does both, and no property is about them. Left out: poisoned mutexes, and an `emit` that
fails after the connection is installed.

`RelayConnection`: the commands that touch an established connection are synchronous Tauri
commands, which share the main thread; the connection's task runs beside them, and
both draw from one counter. `StartSend`, `DrawNumber`, `QueuePart` (or
`QueueClosed`) are `send_app_server_message`, `Disconnect` is the end of
`disconnect_app_server`; the task's `select!` loop is `WriteQueued`, `SendPing`,
`ReceiveEnvelope`, `ConnectionBreaks`, and `FinishConnection` is what follows it.
`RelayReassembly` takes an envelope as the number and shape it claims and the bytes it carries:
it is foreign, whole, refused, spoils its assembly, is stored or completes a
message, after the table has dropped what expired and made room.

`CodexAuthBroker` and `AuthBroker`: `authenticate` is one step per await. `TakeLock`,
then by platform `StartDialogue` and one step per line of the child (`ReadAnswer`,
`ReadCompleted`, `ReadOther`, `ReadEnd`) or timeout (`RpcTimesOut`), with `EndWait` for the user's cancel of a login and
`LoginTimesOut` for `LOGIN_TIMEOUT`, both of which ask the child to cancel it; or `LoadAuth`, a
refresh that is answered, refused or fails, `StoreAuth` or `ClearAuth`, and the device-code
login (`Gate`, `RequestCode`, `Poll`, `Exchange`). Nothing is assumed of the issuer's verdict: it
may refuse any token (every 400 or 401 counts), answer with an access token that is not
valid, or with an empty refresh token, which `refresh_stored_auth` keeps and the next load
takes for garbage. `Drop` is the caller's timeout,
`Crash` a restart. The child and the issuer are external: they are modelled
from the requests the broker sends and the answers it accepts.

`Pairing`: an attempt starts authenticated. It reads the registration, checks its key,
refreshes it or discards it (`DiscardFile`, `DeleteKey` or
`DiscardKey`), enrolls (`CreateKey`, `BindListener`, `ServeCallback`, `FinishEnroll`,
`BeginWrite`, `FinishWrite`, or `DeleteOwnKey` on failure), and, when it pairs,
lists the environments, claims the code, looks for the environment and opens the relay.
A list is the first page the server gives (`FirstPages`): the code asks for a hundred and
ignores the cursor.
Nothing serialises two attempts here. The browser, the key store and the server are
external; registrations are named by who made them.

`DiscordPresence`: `set_settings` is `BeginSave`, `FinishWrite`, `ApplySettings`,
`SendSettings`; the page sends updates with growing generations and
`ReloadPage` starts them over. An iteration of the worker's loop takes a command
or its timer, then looks at what there is to do; waiting for Discord to accept a
connection is the one thing that takes time. Time is counted in units, with the
throttle at two.

Operators whose names end in `Mistake` are plausible wrong versions of the operator
that follows; each shows that some property notices the change.

## 3. Runs

States are distinct states; the bounds are in the `.cfg` files.

| Run | Specification and bounds | States | Shows |
|---|---|---|---|
| `gateway` | `Gateway`: one host, two generations, three connections, two sessions, two handlers, one ticket, two sockets, two events, channels of one slot; three scenarios | 529 k | routes, frames and capabilities stay with the right connection; a session that is accepted is registered; exact delivery or a resync |
| `gateway_live` | fair; two connections, one session, one event socket | 52 k | an overtaken connection ends; an RPC ends; a dead session's socket closes |
| `appserver_calls` | fair; three calls, one kind of notice, a channel of two | 466 k | each call gets its own answer; the pending map is exact; the client implements `CallContract`, its liveness included |
| `host_agent` | two sessions, two threads, one id used by both, two browser requests, one server request, a channel of two | 2.0 M | answers, threads and cards stay with their session; the agent implements `SessionContract` |
| `host_agent_reader_end` | fair; one session | | finding 1 |
| `gateway_client` | two clients, in one page or two, three requests, three envelopes, an agent that runs twice, channels of one slot; two scenarios | 2.4 M | no answer is taken for another's; loss is noticed; a page hears its host once |
| `desktop_client` | fair; `DesktopClient`: an attempt that connects or pairs, one that prepares or connects, one retry; two scenarios | 933 k | failed attempts leave no connection, established ones stay, ends are reported, pairings honour cancels; the client implements `ConnectionContract`, under which every attempt settles |
| `desktop_client_early_cancel` | two attempts, direct or preparing, no retries | | finding 2 |
| `relay` | fair; a table of two entries and five bytes, four messages in two or three segments, three outgoing messages of one to three envelopes, two pings | 113 k | what the page gets is whole; the wire is in order; a disconnect flushes; the connection implements `RelayContract`, under which a disconnect ends |
| `auth_broker` | fair; two attempts, two refresh tokens, two polls, one failure, one crash, one stray message | 287 k | only its own login counts; stored tokens are live, but for the losses below; a token is cleared only after a refresh of that very token that was not renewed; attempts end |
| `pairing` | fair; two attempts, two accounts, two environments, one port, two looks, one outside event | 1.3 M | the file is usable; no key is orphaned; the code's host is chosen; attempts end |
| `discord_presence` | fair; throttle 2, health 3, backoff 2, connects of at most 1; two updates, two outside events | 885 k | the link is what it is said to be; settings survive; updates are spaced; the last update sent is shown in the end, unless a page sent a higher number before |

*Why the bounds are enough.* The properties relate at most two of each thing: two
connections of a host (with a third, the generation may go up and down again
while the first is still running), two sessions, two
requests about one thread, one event behind another, an attempt and one that
overtakes it, two attempts over one file, two clients of one page. A broadcast channel of
one or two slots is full after as many messages, which is when it loses one; a
table of two entries makes room with the third. Deadlock is
checked in `gateway` and `gateway_live`; everywhere else
everything may really be over: all calls returned, the agent ended, the client
disposed, the attempts ended, the application gone, the bounds used up.

*Scenarios.* Where parts of a model hardly touch each other, a run makes one of them
busy at a time (`SafetyScenarios` and `LiveScenarios` in `MCGateway`, `Scenarios` in
`MCGatewayClient`, `OneDirection` in `MCRelay`). Two attempts of `DesktopClient` that
both connect do so in a calm world, where servers accept and stay, an attempt that was
overtaken may stop and the user does nothing else (`CalmStep`), and only a direct attempt meets an overloaded server,
because every failure of either is too much for a liveness run; the theorems hold for
any attempts and every failure. Likewise the theorems about
`Gateway` cover any number of agents, sessions and sockets busy at once. What the fair
runs leave out is left to the outside world; a task that fairness speaks of always
keeps a step to take. `SameHost` in `MCPairing` picks one of several initial states
that are alike.

*Contracts.* `CallContract`, `SessionContract`, `ConnectionContract` and `RelayContract`
say in a few actions what the users of a component see. The refinement mappings are in
`AppServerCalls` (a call's `CallOutcome`), `HostAgent` (the agent's owner maps, and the
requests without their keys), `DesktopClient` (`Wanted`, `ResultOf`, `Link`: where an
operation awaits decides the attempt's result, the task the state of its connection) and
`RelayConnection` (`Written`: the messages all of whose envelopes are on the wire; `State`:
the entry in the map, the task and the close). TLC checks them as PROPERTY of the
component's run; the liveness of all but the second is part of it (`FairSpec`).

*Symmetry* is used in safety runs only, over sets of model values no definition
tells apart.

### Fairness

* `Gateway`: the tasks of the runtime are scheduled (weak fairness of each task's
  steps). `SendFrame`, `ForwardFrame`, `RouteGone` and `SessionCheck` have strong
  fairness: tokio's mpsc queues its senders in order, and `select!` polls its
  branches in random order, so a branch that is ready again and again is taken.
  `FrameForwarded` and `EventSent` assume that a peer's TCP connection takes the
  bytes or fails; the code sets no timeout there.
* `AppServerCalls`: a caller that can go on does, its timer fires, and the child
  takes what is written to it or the pipe breaks (`write_json` has no timeout).
  Nothing is assumed of the child's answers or of the reader.
* `HostAgent`: the agent's calls proceed, its loop takes the next message, an
  ended reader closes what it owes. Nothing is assumed of browsers, the App Server
  or the Gateway.
* `RelayConnection`: the main thread runs its command to the end; `select!` picks among
  its ready branches at random, so a queue that is not empty is served; a write
  succeeds or fails.
* `AuthBroker`, `Pairing`: an attempt takes its next step, and each wait is a step
  because it has a timeout. Nothing is assumed of the child, the issuer, the
  user, the browser, the server or the hosts.
* `DiscordPresence`: the worker's thread is scheduled, commands end, time passes, and
  a Discord that is asked for ever accepts a connection and an update in the end.
* `GatewayClient` has no liveness property: the page may wait for ever.
* `DesktopClient`: commands and tasks run (each call of a short command is handled),
  timers fire, replies and events arrive. An attempt that is authenticating or
  connecting ends because the code gives it a timeout. Nobody has to use the
  interface and no App Server has to answer or hang up.

### Findings

1. **The end of the App Server's output goes unnoticed** (`ReaderEndEndsConnection`,
   `services/host-agent/src/main.rs:303`). The agent holds the broadcast sender
   itself, so its receiver never closes; it keeps the host registered and writes
   requests whose answers nobody reads. `docs/app-server-protocol.md:6` says that a
   line over the limit ends the connection.
2. **An early cancel does not stop a direct connection** (`EarlyCancelIsNotLost`,
   `src-tauri/src/lib.rs:286`). A cancel that comes before its attempt registers
   becomes the initial value of the watch channel, and `changed()` never fires for
   an initial value: the attempt connects. The page disconnects it afterwards
   (`FailedAttemptsLeaveNoConnection` holds), a pairing stops as it should
   (`PairHonoursEarlyCancel`). The test at `src-tauri/src/lib.rs:1155` is named for the
   cancel not being lost, and looks only at the channel's value.

### What the properties leave out, and why

Some behaviours of the code are written into the properties or their models rather than
asserted away. Of `GatewayClient`:

* Every client numbers its requests from 1, and an answer reaches all clients of the
  session (`src/lib/gatewayClient.ts:188`). A second tab, or a host selected
  again, may take an answer to another client's request for its own:
  `NoAnswerIsMixedUp` speaks of the requests of one client.
* An agent that starts again has its default generation and counts from 1
  (`services/host-agent/src/main.rs:37`): a client ignores its envelopes up to the
  last number of the run before (`src/lib/gatewayClient.ts:245`). `LossIsNoticed`
  speaks of one run. Envelopes lost before they are numbered
  (`services/host-agent/src/main.rs:303`) leave no gap at all.
* A client that is disconnected while it waits for its ticket opens its socket
  afterwards, and nobody closes it (`src/lib/gatewayClient.ts:164`).
  `OneSocketPerPage` excepts exactly those clients.

Of the others:

* A page that is loaded again numbers its updates from 1 (`src/App.tsx:445`), and the presence
  worker drops whatever is below the highest number it has seen
  (`src-tauri/src/discord_presence.rs:92`): Discord keeps what the page before sent until
  the new numbers have caught up. `NewestIsShown` is about the last update sent, unless
  a page sent a higher number before (history `sent`).
* Settings that could not be saved, or whose save was cut off by a crash, are exempt from
  `SettingsSurvive` until the next save that succeeds.
* A refresh token is spent before the one that replaces it is on the device: `StoredTokenIsLive`
  exempts a token the issuer revoked, an answer that got lost, a store that failed and
  a crash between answer and store (history `forgiven`).
* Keys in the hands of an attempt that is cancelled, times out or dies with the
  application stay in the key store; `KeysAreAccountedFor` excepts them (history `forsaken`).
* With more than a hundred environments, one that is online beyond the first page may be
  taken for the paired one when it moves onto it; `ConnectsToTheCodesHost` excepts it like
  one that comes online (history `arrived`).
* A response from a session that does not own a server request uses up its entry in
  `request_owners` (`services/host-agent/src/main.rs:275`), and the owner's answer is dropped.
  `SessionContract` says that nobody else answers and nobody answers twice, not that somebody does.
* When generations of a host have gone backwards, a socket that ends late may remove the route
  of a live one of the same generation (`services/gateway/src/main.rs:574`); `OvertakenUnlessOwner`
  says when two sockets can be taken for each other.
* The relay's table drops its oldest assembly to make room, also one that would still have been
  completed; `EmittedIsWhole` is about what is handed on.
* A login that times out or is cancelled is closed by the child, whose answer the broker
  ignores; `OnlyItsLoginCounts` is about which login counts.

## 4. Proofs

TLAPS proves the theorems below for every value of the constants: any number of
sessions, handlers, connections, tickets, calls, threads, requests, attempts, tokens and restarts, any
capacity of the channels, any timing bounds. The assumptions are those the modules name: null values are not
members of the sets they complete, bounds are natural numbers, channels have at
least one slot, the throttle is positive and no longer than the health interval.

| Module | Theorems |
|---|---|
| `GatewayProofs` | `TypeCorrect`, `LiveSessionsAreRegistered`, `RoutesAreAlive`, `OneConnectionPerGeneration`, `FramesAreNotMisrouted`, `CapabilitiesAreCurrent`, `TicketsAreOneTime`, `EventsAreDeliveredExactly` |
| `AppServerProofs` | `CallsTypeCorrect`, `CallsGetTheirAnswer`, `PendingIsExact`, `OnlyLateAnswersArePublished`, `CallsKeepTheContract`; `TypeCorrect`, `EveryAnswerGoesHome`, `ThreadsAreNotShared`, `CardsFindTheirSession`, `CardsAreAnsweredOnce`, `SessionsAreServedApart` |
| `GatewayClientProofs` | `TypeCorrect`, `AnswersGoToTheirRequests`, `PagesHearOneClient`, `LossesAreNoticed` |
| `DesktopClientProofs` | `TypeCorrect`, `FailedAttemptsAreClosed`, `EstablishedStays`, `CancelsReachTheirAttempt`, `PairingsHonourEarlyCancels`, `EndsAreReported`, `AttemptsImplementContract` |
| `RelayProofs` | `TypeCorrect`, `PageGetsWholeMessages`, `TableIsBounded`, `WireStaysInOrder`, `DisconnectWritesEverything`, `MessagesAreWrittenInTurn` |
| `AuthBrokerProofs` | `TypeCorrect`, `LockIsReleased`, `TokenIsLive`, `OnlyUselessIsCleared`, `LoginsAreTheirOwn` |
| `PairingProofs` | `TypeCorrect`, `FileIsUsable`, `NoKeyIsOrphaned`, `CodesAreTheirOwn`, `TheCodesHostIsChosen` |
| `DiscordPresenceProofs` | `TypeCorrect`, `LinkStaysTrue`, `SettingsAreKept`, `ThrottleHolds` |

*Gateway.* The safety properties are about the two maps and the sockets, but what
keeps them is where each task stands: the invariants say what a handler or a
connection between two locks may rely on (a session about to be inserted is
registered; a sender held by a handler belongs to its host; a connection whose
check has passed is still the one it checked, or no longer serves). That the
code compares generations and not connections leaves a gap: generations may go
backwards after a route is gone. `OvertakenUnlessOwner` bounds it exactly - two
connections pass for one generation only if that has happened.

*AppServerCalls.* The inductive invariant has three parts: an id is in the pending map
under its own call only and was drawn before `nextId` (`IdInv`); a reply in a oneshot
channel, and every answer of the child, is about the call that asked (`AnswerInv`);
a call that waits has its sender in the map, or a reply, or the reader is gone
(`WaitInv`). `RightAnswer` rests on ids never being drawn twice. The refinement `CallsSpec =>
Contract!Spec` follows step by step; the contract's liveness is checked by TLC
only.

*HostAgent.* `RightAnswer`'s argument does not reach here, because the answers go through a
bounded channel that loses messages. `QueueInv` says that a message in the channel
still has its effect ahead of it (an answer's request is in `rewritten_ids`, a
server request has not been shown or answered) and that no two messages there are
about the same request; with it `HomeInv` (the map agrees with the requests),
`OwnerInv` (a thread named by a request is owned by its session; owners never
change) and `CardInv` (a card is with the owner of its thread until it is
answered) are inductive. Losing messages only shrinks the channel, which is why the
theorems hold for any capacity. `SessionsAreServedApart` puts them together: with the invariant, each
iteration of the loop is one step of `SessionContract` or changes nothing it speaks of. For
that `HomeInv` also says that a request whose answer is home is no longer in
`rewritten_ids`, so that no second answer finds its way.

*GatewayClient.* Three arguments over one invariant of types (`TypeInv`), which includes that
a notice of a loss is first in its queue (`NoticeInv`): the channel reports a lag before it
goes on. An id is at most the number of requests its client has made, so the next one is new
(`IdInv`), and what resolves a request carries its id (`AnswerInv`). A
client that no page shows is closed or was left while its ticket was on its
way (`PageInv`); the exception in `OneSocketPerPage` is what is left of it. For
`LossesAreNoticed`, what is queued for a socket is later than what was handled
and than what was missed, in the order of its numbers (`OrderInv`), and the last number
handled is where the span of consecutive envelopes ends (`SpanInv`): an envelope missed inside
the span would have been seen as a gap.

*DesktopClient.* `CommandInv`: a command runs once, for an operation that awaits it,
and its reply says what it did. `RegistryInv`: while an attempt can be cancelled
its sender is in the map and its id nowhere else, which the second look for a late
cancel is needed for. `ConnectionInv`: only a command that succeeded has a
connection, and a reply to a disconnect means that it is gone - so an operation
that awaited one before failing leaves none. `CurrentInv`: the client's connection is
that of the attempt it tries, and of the one it has established. `TypeOK` needs
`BackoffInv`, that an operation waits to send again only while it may. `EndsAreReported` is about the order of events: `NotifyInv` (the
`initialized` notification is sent once, on the attempt's own connection) and `EndInv` (the ended event of an
established connection whose task is over is queued behind every event that says it is
connected, or has been handled). `AttemptsImplementContract` needs one more, `OpenInv`: an
attempt has had a connection exactly if its command, one that connects, succeeded.

*Relay.* `HeldInv`: an entry of the table holds segments of its own number and shape, each once. Since
as many segments as the shape says, with different numbers below it, are all of
them, a complete entry is whole. That the table stays within `MaxAssemblies` needs that the
oldest entry exists, which a relation that goes round in a circle would not
give: `RankInv` says that ages can be ranked. On the way out, the frames on the wire and those in
the queue are one `Stream`: a command adds to its end, the task moves the boundary,
and a ping enters at the boundary, which moves what is behind it by one
place (`Moved`, `PutIn`). `NumberInv` keeps the shared counter ahead of the stream,
`LinkInv` says what a command may add to it, `CloseInv` that a close is the end of it, and
`PromiseInv` that what was accepted is in it until the task drops the queue.
`MessagesAreWrittenInTurn` needs what the order on the wire means for whole messages
(`OrderInv`): the last envelopes lie in the stream in the order in which the messages were
accepted, each of an accepted message and after the other envelopes of it. So a
message is written when its last envelope is (`LastMeansWritten`), and then those before
it are (`LastInTurn`), which makes `WriteQueued` a step of `RelayContract`.

*AuthBroker.* `LockIsExact`: the attempt inside the lock is the one that holds it, at
most one. With it, what an attempt learned of the stored token is still about the stored token
when it clears (`ClearedOnlyUseless`, without any assumption about the issuer). `CarriesRight`: what it carries from one await to the next is what the store or
the issuer gave it, so the token that replaces another is the one that is stored. The
dialogue needs three more: one request is under way at a time, the
login is requested once, and a success on its way to the broker is that of
the child's login.

*Pairing.* The strengthening says when a name is visible to others
(`NamesArePublished`): only `FinishWrite` makes it so, and before that neither the
file nor another attempt holds it, hence nobody else deletes its key. With
`UseFitsPlace` (which registration an attempt uses where), `WritesAreUsable` (what is
about to be written has its key and client), `KeysHaveKeepers` (a key belongs to the file, to an attempt
or was given up) and `ArrivalsAreCounted`, which follows the environments that came online, the four safety properties
are inductive.

*DiscordPresence.* `LinkInv`, `SavingInv` and `ThrottleInv` follow the worker between its
commands, the main thread between the two places where it keeps the settings, and the timers between two updates.

*Proved and not run*: `TypeOK` of these modules, `TicketOpensOneSocket`,
`PublishedAnswersAreLate`, `NoCancelIsStranded`, `LockIsHeldByARunner`,
`StepUpIsItsOwn`, `AnsweredOnceByItsReader`, `EntriesAreBounded`. Each was small enough to
leave to its theorem, or is part of a contract that is run.

*Only model-checked*: liveness (`SupersededAgentEnds`, `SendingEnds`,
`DeadSessionSocketCloses`, the liveness of `KeepsContract`, of `AttemptsKeepContract` and of
`MessagesKeepContract`, `NewestIsShown`, `AttemptsEnd`, `PairingEnds`): the prover handles
neither liveness under fairness nor `ENABLED`. Every safety property that a passing run checks
has its theorem. What the runs and the proofs both leave out is that the bytes in the reassembly table stay
within their budget: a sum over a set grows and shrinks by induction, which the installed provers
cannot do.

## 5. Not modelled, and the plan

`PROJECT.json` lists every component with its status. Not modelled:

* The rest of `WebApp` (the opened thread, turns, approvals) and `App.tsx`: view state
  of one page, over clients that are modelled.
* Login, logout and restore of `GatewaySession`: single fetches.
* The Gateway's stateless checks (origin, CSRF, tokens, allow-list, sizes), which
  appear as refusals.
* What is inside the Android plugin, the key stores, the issuer, ChatGPT's server and
  the `codex` child: external, modelled from how the code uses them.
* The transport between the Gateway and an agent in both directions at once: that
  both wait to write while neither reads needs bounded sockets on both sides.
* LunaMax's paging through models (`services/host-agent/src/main.rs`) beyond the
  calls it makes; catalogues, mobile layout and presentation.

Next, in this order:

1. A contract for a sign-in (one login, one stored token).
2. `WebSystem`: `GatewayClient` over `Gateway` and `HostAgent` themselves, so that what it assumes
   of them becomes a refinement.
3. `WebApp`: the opened thread over answers that come late.
4. Bounded transport between Gateway and agent, for the wait in both directions.
