--------------------------- MODULE DiscordPresence ---------------------------
(***************************************************************************)
(* The Discord presence service of the desktop application                 *)
(* (src-tauri/src/discord_presence.rs): commands on the main thread hand   *)
(* the page's updates and the user's settings to a worker thread, which    *)
(* keeps a connection to Discord, shows the newest update on it, throttles *)
(* and backs off.  The settings survive a restart in a file.               *)
(*                                                                         *)
(* Time is counted in units of the throttle's resolution; a worker's step  *)
(* takes no time unless it waits for Discord.  Texts are abstracted to     *)
(* whether they tell the task's name.                                      *)
(***************************************************************************)
EXTENDS Integers, Sequences

CONSTANTS
  Throttle,       \* UPDATE_THROTTLE
  Health,         \* HEALTH_INTERVAL
  MaxBackoff,     \* MAX_BACKOFF
  MaxConnect,     \* bound on the time a connect may take
  MaxAttempt,     \* bound on the attempts counted; the backoff is constant before it
  MaxGeneration,  \* bound on the updates a page sends
  MaxQueue,       \* bound on the commands waiting for the worker
  MaxEvents       \* bound on the page's reloads, the settings saved and the restarts

ASSUME BoundsAssumption ==
  /\ Throttle \in Nat \ {0} /\ Health \in Nat /\ Throttle <= Health
  /\ MaxBackoff \in Nat \ {0} /\ MaxConnect \in Nat /\ MaxAttempt \in Nat
  /\ 2 ^ MaxAttempt >= MaxBackoff
  /\ {MaxGeneration, MaxQueue, MaxEvents} \subseteq Nat

Settings == [enabled : BOOLEAN, showTaskName : BOOLEAN]
Default  == [enabled |-> TRUE, showTaskName |-> FALSE]

Kinds   == {"idle", "task"}     \* "task": working, and naming the task
Updates == [generation : Nat, kind : Kinds]
NoUpdate == [generation |-> 0, kind |-> "none"]
NothingSent == [last |-> NoUpdate, highest |-> 0]

\* The worker's commands.
Update(u)   == [cmd |-> "update", update |-> u, settings |-> Default]
Configure(s) == [cmd |-> "settings", update |-> NoUpdate, settings |-> s]
Shutdown    == [cmd |-> "shutdown", update |-> NoUpdate, settings |-> Default]
Commands == [cmd : {"update", "settings", "shutdown"}, update : Updates \cup {NoUpdate},
             settings : Settings]

Never == Health + MaxConnect     \* sinceSend when nothing is within the health interval

VARIABLES
  configured,  \* a Discord application id was built in or set
  file,        \* discord-presence.json
  settings,    \* the service's settings mutex
  saving,      \* the settings command the main thread is in: where, and the new settings
  queue,       \* the channel to the worker
  stopping,    \* shutdown: "no", "waiting", "acknowledged", "over"
  page,        \* the page's presenceGenerationRef
  pc,          \* the worker: "recv", "look", "connect" or "gone"
  current,     \* its copy of the settings
  latest,      \* PresenceModel
  client,      \* it has a connection to Discord
  lastSent,    \* what it last sent on that connection
  sinceSend,   \* time since last_send_at
  untilRetry,  \* time until next_retry_at
  attempt,     \* retry_attempt
  age,         \* time since the worker looked at the clock
  status,      \* connection_state: what the application says of the link
  shown,       \* what Discord shows
  sent,        \* history: the last update a page sent, and the highest number sent since the start
  sinceCall,   \* history: time since the last update reached Discord
  first,       \* history: that update was the first on its connection
  gap,         \* history: time between it and the one before it
  acked,       \* history: the settings on file, unless a command failed or died over it
  events

serviceVars == <<configured, file, settings, saving, queue, stopping, page, acked>>
modelVars   == <<current, latest>>
linkVars    == <<client, lastSent, sinceSend, untilRetry, attempt, age, status>>
discordVars == <<shown, sinceCall, first, gap>>
vars == <<serviceVars, pc, modelVars, linkVars, discordVars, sent, events>>

NotSaving == [pc |-> "no", to |-> Default]

\* Files: whole, none, or what a crash in the middle of writing leaves.
Stored(s)   == [state |-> "whole", settings |-> s]
NoFile      == [state |-> "absent", settings |-> Default]
TornFile    == [state |-> "torn", settings |-> Default]
Files       == {NoFile, TornFile} \cup {Stored(s) : s \in Settings}
Unsure      == TornFile        \* acked: nothing is promised

\* load_settings, with the default for what is absent or cannot be parsed.
Load(f) == IF f.state = "whole" THEN f.settings ELSE Default

\* What run_worker reports before its loop.
FirstStatus(s) == IF configured /\ s.enabled THEN "disconnected" ELSE "disabled"

Init ==
  /\ configured \in BOOLEAN
  /\ file \in Files \ {TornFile}
  /\ settings = Load(file) /\ saving = NotSaving /\ queue = << >> /\ stopping = "no"
  /\ page = 0 /\ acked = file
  /\ pc = "recv" /\ current = Load(file) /\ latest = NoUpdate
  /\ status = FirstStatus(Load(file))
  /\ client = FALSE /\ lastSent = "none" /\ sinceSend = Never
  /\ untilRetry = 0 /\ attempt = 0 /\ age = 0
  /\ shown = "none" /\ sent = NothingSent
  /\ sinceCall = Throttle /\ first = TRUE /\ gap = Throttle
  /\ events = 0

-----------------------------------------------------------------------------
\* The page and the main thread.

MainFree == saving = NotSaving /\ stopping = "no"

\* discord_presence_update.  The page numbers its updates.
SendUpdate(k) ==
  /\ MainFree /\ page < MaxGeneration /\ Len(queue) < MaxQueue
  /\ page' = page + 1
  /\ LET u == [generation |-> page + 1, kind |-> k] IN
     /\ queue' = Append(queue, Update(u))
     /\ sent' = [last |-> u, highest |-> IF page < sent.highest THEN sent.highest ELSE page + 1]
  /\ UNCHANGED <<configured, file, settings, saving, stopping, acked, pc, modelVars,
                 linkVars, discordVars, events>>

\* A page that is loaded again numbers from the start; the worker stays.
ReloadPage ==
  /\ events < MaxEvents /\ stopping = "no"
  /\ page' = 0 /\ events' = events + 1
  /\ UNCHANGED <<configured, file, settings, saving, queue, stopping, acked, pc, modelVars,
                 linkVars, discordVars, sent>>

\* set_settings: fs::write truncates the file and then fills it.
BeginSave(s) ==
  /\ MainFree /\ events < MaxEvents
  /\ saving' = [pc |-> "write", to |-> s] /\ file' = TornFile /\ events' = events + 1
  /\ acked' = Unsure
  /\ UNCHANGED <<configured, settings, queue, stopping, page, pc, modelVars, linkVars,
                 discordVars, sent>>

\* Goes on when the write failed.
FinishWriteMistake ==
  /\ saving.pc = "write"
  /\ saving' = [saving EXCEPT !.pc = "apply"]
  /\ file' \in {Stored(saving.to), file}
  /\ UNCHANGED <<configured, settings, queue, stopping, page, acked, pc, modelVars,
                 linkVars, discordVars, sent, events>>

FinishWrite ==
  /\ saving.pc = "write"
  /\ \/ file' = Stored(saving.to) /\ saving' = [saving EXCEPT !.pc = "apply"]
     \/ UNCHANGED file /\ saving' = NotSaving          \* the write fails: Err
  /\ UNCHANGED <<configured, settings, queue, stopping, page, acked, pc, modelVars,
                 linkVars, discordVars, sent, events>>

ApplySettings ==
  /\ saving.pc = "apply"
  /\ settings' = saving.to
  /\ saving' = [saving EXCEPT !.pc = "send"]
  /\ UNCHANGED <<configured, file, queue, stopping, page, acked, pc, modelVars, linkVars,
                 discordVars, sent, events>>

SendSettings ==
  /\ saving.pc = "send"
  /\ queue' = Append(queue, Configure(saving.to))
  /\ saving' = NotSaving /\ acked' = Stored(saving.to)
  /\ UNCHANGED <<configured, file, settings, stopping, page, pc, modelVars, linkVars,
                 discordVars, sent, events>>

\* RunEvent::Exit.
BeginShutdown ==
  /\ MainFree
  /\ stopping' = "waiting"
  /\ queue' = Append(queue, Shutdown)
  /\ UNCHANGED <<configured, file, settings, saving, page, acked, pc, modelVars, linkVars,
                 discordVars, sent, events>>

\* The acknowledgement, or two seconds without one; the process exits and
\* Discord drops what its connections showed.
Exit ==
  /\ stopping \in {"waiting", "acknowledged"}
  /\ stopping = "acknowledged" => pc = "gone"
  /\ stopping' = "over" /\ pc' = "gone"
  /\ client' = FALSE /\ shown' = "none"
  /\ UNCHANGED <<configured, file, settings, saving, queue, page, acked, modelVars, lastSent,
                 sinceSend, untilRetry, attempt, age, status, sinceCall, first, gap, sent,
                 events>>

\* The process dies and is started again.
CrashAndRestart ==
  /\ events < MaxEvents /\ stopping # "over"
  /\ events' = events + 1
  /\ UNCHANGED <<configured, file, acked>>
  /\ pc' = "recv" /\ current' = Load(file) /\ latest' = NoUpdate
  /\ status' = FirstStatus(Load(file))
  /\ client' = FALSE /\ lastSent' = "none" /\ sinceSend' = Never
  /\ untilRetry' = 0 /\ attempt' = 0 /\ age' = 0
  /\ sinceCall' = Throttle /\ first' = TRUE /\ gap' = Throttle
  /\ settings' = Load(file) /\ saving' = NotSaving /\ queue' = << >> /\ stopping' = "no"
  /\ page' = 0 /\ sent' = NothingSent /\ shown' = "none"

-----------------------------------------------------------------------------
\* The worker: one iteration of run_worker takes a command, or times out, and
\* then looks at what is to be shown.

Least(a, b) == IF a < b THEN a ELSE b

\* reconnect_backoff.
Backoff == Least(2 ^ attempt, MaxBackoff)

\* Says nothing of the loss.
LoseLinkMistake(a) ==
  /\ client' = FALSE /\ shown' = "none" /\ UNCHANGED status
  /\ untilRetry' = IF Backoff > a THEN Backoff - a ELSE 0
  /\ attempt' = Least(attempt + 1, MaxAttempt)

\* Loses its link to Discord; `now` was read a units ago.
LoseLink(a) ==
  /\ client' = FALSE /\ shown' = "none" /\ status' = "disconnected"
  /\ untilRetry' = IF Backoff > a THEN Backoff - a ELSE 0
  /\ attempt' = Least(attempt + 1, MaxAttempt)

\* Drops what a page that was loaded again numbers as the last one.
AcceptsMistake(u) == u.generation > latest.generation

\* PresenceModel::accept.
Accepts(u) == u.generation >= latest.generation /\ u # latest

TakeUpdate ==
  /\ pc = "recv" /\ queue # << >> /\ Head(queue).cmd = "update"
  /\ queue' = Tail(queue) /\ pc' = "look"
  /\ latest' = IF Accepts(Head(queue).update) THEN Head(queue).update ELSE latest
  /\ UNCHANGED <<configured, file, settings, saving, stopping, page, acked, current, linkVars,
                 discordVars, sent, events>>

TakeSettings ==
  /\ pc = "recv" /\ queue # << >> /\ Head(queue).cmd = "settings"
  /\ queue' = Tail(queue) /\ pc' = "look"
  /\ current' = Head(queue).settings /\ lastSent' = "none"
  /\ IF current'.enabled
     THEN untilRetry' = 0 /\ attempt' = 0 /\ UNCHANGED <<client, shown, status>>
     ELSE /\ client' = FALSE /\ shown' = "none" /\ status' = "disabled"
          /\ UNCHANGED <<untilRetry, attempt>>
  /\ UNCHANGED <<configured, file, settings, saving, stopping, page, acked, latest, sinceSend,
                 age, sinceCall, first, gap, sent, events>>

TakeShutdown ==
  /\ pc = "recv" /\ queue # << >> /\ Head(queue).cmd = "shutdown"
  /\ queue' = Tail(queue) /\ pc' = "gone" /\ stopping' = "acknowledged"
  /\ client' = FALSE /\ shown' = "none"
  /\ UNCHANGED <<configured, file, settings, saving, page, acked, modelVars, lastSent,
                 sinceSend, untilRetry, attempt, age, status, sinceCall, first, gap, sent,
                 events>>

\* render_presence.
Render(u, s) == IF u.kind = "task" /\ ~s.showTaskName THEN "working" ELSE u.kind

\* The worker looks after every command, and when it timed out waiting for one.
Looks == pc = "look" \/ (pc = "recv" /\ queue = << >>)

HasWork == configured /\ current.enabled /\ latest # NoUpdate

NothingToDo ==
  /\ Looks
  /\ ~HasWork \/ (~client /\ untilRetry > 0)
  /\ pc' = "recv"
  /\ UNCHANGED <<serviceVars, modelVars, linkVars, discordVars, sent, events>>

StartConnect ==
  /\ Looks /\ HasWork /\ ~client /\ untilRetry = 0
  /\ pc' = "connect" /\ age' = 0 /\ status' = "connecting"
  /\ UNCHANGED <<serviceVars, modelVars, client, lastSent, sinceSend, untilRetry, attempt,
                 discordVars, sent, events>>

ConnectFails ==
  /\ pc = "connect"
  /\ LoseLink(age)
  /\ pc' = "recv"
  /\ UNCHANGED <<serviceVars, modelVars, lastSent, sinceSend, age, sinceCall, first, gap,
                 sent, events>>

\* Compares with what was sent, not with when.
DueMistake(a, text) == text # Render(latest, current) \/ sinceSend - a >= Health

\* Whether the update is sent, `now` having been read a units ago.
Due(a, text) ==
  /\ sinceSend - a >= Throttle
  /\ text # Render(latest, current) \/ sinceSend - a >= Health

SendOk(a, isFirst) ==
  /\ shown' = Render(latest, current) /\ lastSent' = shown'
  /\ sinceSend' = a /\ attempt' = 0 /\ client' = TRUE
  /\ status' = "connected" /\ sinceCall' = 0 /\ first' = isFirst
  /\ gap' = IF first THEN Throttle ELSE sinceCall
  /\ UNCHANGED untilRetry

SendFails(a) ==
  /\ LoseLink(a)
  /\ UNCHANGED <<lastSent, sinceSend, sinceCall, first, gap>>

\* The first update of a connection goes out with the clock read before it.
ConnectOk ==
  /\ pc = "connect"
  /\ pc' = "recv"
  /\ IF Due(age, "none")
     THEN \/ SendOk(age, TRUE)
          \/ /\ client' = FALSE /\ shown' = "none" /\ lastSent' = "none"
             /\ status' = "disconnected"
             /\ untilRetry' = (IF age = 0 THEN 1 ELSE 0)
             /\ attempt' = Least(1, MaxAttempt)
             /\ UNCHANGED <<sinceSend, sinceCall, first, gap>>
     ELSE /\ client' = TRUE /\ lastSent' = "none" /\ attempt' = 0 /\ status' = "connected"
          /\ UNCHANGED <<sinceSend, untilRetry, discordVars>>
  /\ UNCHANGED <<serviceVars, modelVars, age, sent, events>>

Present ==
  /\ Looks /\ HasWork /\ client
  /\ pc' = "recv"
  /\ IF Due(0, lastSent)
     THEN SendOk(0, FALSE) \/ SendFails(0)
     ELSE UNCHANGED <<client, lastSent, sinceSend, untilRetry, attempt, status, discordVars>>
  /\ UNCHANGED <<serviceVars, modelVars, age, sent, events>>

\* Time passes while the worker waits for a command or for Discord.
Tick ==
  /\ pc \in {"recv", "connect"} /\ (pc = "connect" => age < MaxConnect)
  /\ sinceSend' = Least(sinceSend + 1, Never)
  /\ untilRetry' = IF untilRetry > 0 THEN untilRetry - 1 ELSE 0
  /\ age' = IF pc = "connect" THEN age + 1 ELSE age
  /\ sinceCall' = Least(sinceCall + 1, Throttle)
  /\ UNCHANGED <<serviceVars, pc, modelVars, client, lastSent, attempt, status, shown, first,
                 gap, sent, events>>

-----------------------------------------------------------------------------
Main ==
  \/ \E k \in Kinds : SendUpdate(k)
  \/ ReloadPage
  \/ \E s \in Settings : BeginSave(s)
  \/ FinishWrite
  \/ ApplySettings
  \/ SendSettings
  \/ BeginShutdown
  \/ Exit
  \/ CrashAndRestart

Worker ==
  \/ TakeUpdate
  \/ TakeSettings
  \/ TakeShutdown
  \/ NothingToDo
  \/ StartConnect
  \/ ConnectFails
  \/ ConnectOk
  \/ Present

Next == Main \/ Worker \/ Tick

Spec == Init /\ [][Next]_vars

\* The worker's thread is scheduled, time passes, and Discord, however often
\* it fails, in the end accepts a connection and what is sent on it.
Fairness ==
  /\ WF_vars(Worker) /\ SF_vars(Tick)
  /\ SF_vars(ConnectOk /\ client') /\ SF_vars(Present /\ client')
  /\ WF_vars(FinishWrite) /\ WF_vars(ApplySettings) /\ WF_vars(SendSettings) /\ WF_vars(Exit)

FairSpec == Spec /\ Fairness

-----------------------------------------------------------------------------
(* Properties. *)

Shows == Kinds \cup {"working", "none"}

\* The types of the service's and the worker's state.
TypeOK ==
  /\ configured \in BOOLEAN /\ file \in Files /\ settings \in Settings
  /\ saving \in [pc : {"no", "write", "apply", "send"}, to : Settings]
  /\ queue \in Seq(Commands) /\ stopping \in {"no", "waiting", "acknowledged", "over"}
  /\ page \in Nat /\ acked \in Files
  /\ pc \in {"recv", "look", "connect", "gone"} /\ current \in Settings
  /\ latest \in Updates \cup {NoUpdate} /\ sent \in [last : Updates \cup {NoUpdate}, highest : Nat]
  /\ client \in BOOLEAN /\ lastSent \in Shows /\ shown \in Shows
  /\ status \in {"disabled", "disconnected", "connecting", "connected"}
  /\ sinceSend \in 0 .. Never /\ untilRetry \in 0 .. MaxBackoff /\ attempt \in 0 .. MaxAttempt
  /\ age \in 0 .. MaxConnect /\ sinceCall \in 0 .. Throttle /\ gap \in 0 .. Throttle
  /\ first \in BOOLEAN /\ events \in 0 .. MaxEvents

\* A worker that has taken the settings with Discord switched off, or that
\* acknowledged the shutdown, has no connection to Discord and shows nothing
\* there, whatever it was doing; and between two commands the application says it
\* is connected exactly while the worker holds a connection (client.take() and
\* set_status in run_worker, at each of its exits).
LinkIsTrue ==
  /\ ~configured \/ ~current.enabled \/ pc = "gone" \/ stopping = "acknowledged"
       => ~client /\ shown = "none"
  /\ pc = "recv" => (status = "connected" <=> client)

\* Unless a save failed or the process died over it, the settings in force are
\* those on file, across any number of restarts (set_settings, load_settings).
SettingsSurvive ==
  saving = NotSaving /\ acked # Unsure => settings = Load(acked) /\ file = acked

\* Two updates on one connection are UPDATE_THROTTLE apart, also when failures
\* and changes of the settings come between them; only the update a connection
\* begins with counts from before the connect.
UpdatesAreSpaced == gap >= Throttle

\* While the application runs with Discord switched on, what Discord shows comes
\* back to the last update sent under the settings in force, whatever is lost on
\* the way (run_worker's retries and health updates), if no page sent a higher
\* number before.  The exemption is what the code leaves open: a page that is
\* loaded again numbers from 1 (App.tsx, presenceGenerationRef), the worker drops
\* what it sends (PresenceModel::accept) until its numbers reach those of the page
\* before, and meanwhile Discord goes on showing that page's text.
NewestIsShown ==
  []<>(\/ stopping # "no" \/ ~configured \/ ~settings.enabled \/ sent = NothingSent
       \/ sent.last.generation < sent.highest
       \/ shown = Render(sent.last, settings))
=============================================================================
