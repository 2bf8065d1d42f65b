------------------------ MODULE DiscordPresenceProofs ------------------------
(***************************************************************************)
(* Theorems about the Discord presence service: its types and every safety *)
(* property of DiscordPresence, for any throttle, health interval, backoff *)
(* and connect time, and any number of updates, commands and restarts.     *)
(***************************************************************************)
EXTENDS DiscordPresence, SequenceTheorems, TLAPS

(***************************************************************************)
(* Types.                                                                  *)
(***************************************************************************)
LEMMA Bounds ==
  /\ Throttle \in Nat /\ Throttle > 0 /\ Health \in Nat /\ Throttle <= Health
  /\ MaxBackoff \in Nat /\ MaxBackoff > 0 /\ MaxConnect \in Nat /\ MaxAttempt \in Nat
  /\ MaxEvents \in Nat /\ MaxGeneration \in Nat
  /\ Never \in Nat /\ Throttle <= Never
BY BoundsAssumption DEF Never

LEMMA FileTypes ==
  /\ Default \in Settings /\ NoFile \in Files /\ TornFile \in Files
  /\ \A s \in Settings : Stored(s) \in Files /\ Load(Stored(s)) = s /\ Stored(s) # TornFile
  /\ \A f \in Files : Load(f) \in Settings
<1>1. Default \in Settings /\ NoFile \in Files /\ TornFile \in Files
  BY DEF Default, Settings, Files
<1>2. \A s \in Settings : Stored(s) \in Files /\ Load(Stored(s)) = s /\ Stored(s) # TornFile
  BY DEF Files, Load, Stored, TornFile
<1>3. \A f \in Files : Load(f) = Default \/ \E s \in Settings : f = Stored(s)
  BY DEF Files, Load, NoFile, TornFile
<1>. QED
  BY <1>1, <1>2, <1>3

LEMMA CommandTypes ==
  /\ \A u \in Updates : Update(u) \in Commands
  /\ \A s \in Settings : Configure(s) \in Commands
  /\ Shutdown \in Commands
  /\ \A c \in Commands : c.settings \in Settings /\ c.update \in Updates \cup {NoUpdate}
BY FileTypes DEF Update, Configure, Shutdown, Commands

LEMMA TakenTypes ==
  ASSUME TypeOK, queue # << >>
  PROVE  Tail(queue) \in Seq(Commands) /\ Head(queue) \in Commands
BY DEF TypeOK

\* The time until the next try is a wait, however much of it has passed.
LEMMA BackoffTypes ==
  ASSUME TypeOK, NEW a \in Nat
  PROVE  /\ (IF Backoff > a THEN Backoff - a ELSE 0) \in 0 .. MaxBackoff
         /\ Least(attempt + 1, MaxAttempt) \in 0 .. MaxAttempt
<1>1. attempt \in Nat /\ attempt + 1 \in Nat
  BY Bounds DEF TypeOK
<1>2. 2 ^ attempt \in Int
  BY <1>1
<1>3. Backoff \in Int /\ Backoff <= MaxBackoff
  BY <1>2, Bounds DEF Backoff, Least
<1>. QED
  BY <1>1, <1>3, Bounds DEF Least

LEMMA InitTypes == Init => TypeOK
<1>. SUFFICES ASSUME Init PROVE TypeOK
  OBVIOUS
<1>1. file \in Files /\ settings \in Settings /\ current \in Settings /\ acked \in Files
      /\ saving \in [pc : {"no", "write", "apply", "send"}, to : Settings]
  BY FileTypes DEF Init, NotSaving
<1>2. status \in {"disabled", "disconnected", "connecting", "connected"}
  BY DEF Init, FirstStatus
<1>3. /\ sinceSend \in 0 .. Never /\ untilRetry \in 0 .. MaxBackoff /\ attempt \in 0 .. MaxAttempt
      /\ age \in 0 .. MaxConnect /\ sinceCall \in 0 .. Throttle /\ gap \in 0 .. Throttle
      /\ events \in 0 .. MaxEvents
  BY Bounds DEF Init
<1>4. queue \in Seq(Commands) /\ page \in Nat
  BY DEF Init
<1>5. sent \in [last : Updates \cup {NoUpdate}, highest : Nat]
  BY DEF Init, NothingSent
<1>. QED
  BY <1>1, <1>2, <1>3, <1>4, <1>5 DEF Init, TypeOK, Shows

\* What a send does to the link.
SentTypes ==
  /\ shown' \in Shows /\ lastSent' \in Shows /\ sinceSend' \in 0 .. Never
  /\ attempt' \in 0 .. MaxAttempt /\ client' \in BOOLEAN /\ status' = "connected"
  /\ sinceCall' \in 0 .. Throttle /\ first' \in BOOLEAN /\ gap' \in 0 .. Throttle
  /\ UNCHANGED untilRetry

LEMMA SendKeepsTypes ==
  ASSUME TypeOK, NEW a \in 0 .. MaxConnect, NEW isFirst \in BOOLEAN, SendOk(a, isFirst),
         latest \in Updates
  PROVE  SentTypes
<1>1. Render(latest, current) \in Shows
  BY DEF Render, Shows, Updates
<1>2. MaxConnect <= Never
  BY Bounds DEF Never
<1>. QED
  BY <1>1, <1>2, Bounds DEF SendOk, SentTypes, TypeOK

\* And what its loss does.
LossTypes ==
  /\ client' \in BOOLEAN /\ shown' \in Shows /\ status' = "disconnected"
  /\ untilRetry' \in 0 .. MaxBackoff /\ attempt' \in 0 .. MaxAttempt

LEMMA LossKeepsTypes ==
  ASSUME TypeOK, NEW a \in 0 .. MaxConnect, LoseLink(a)
  PROVE  LossTypes
<1>1. a \in Nat
  BY Bounds
<1>2. untilRetry' \in 0 .. MaxBackoff /\ attempt' \in 0 .. MaxAttempt
  BY <1>1, BackoffTypes DEF LoseLink
<1>. QED
  BY <1>2 DEF LoseLink, LossTypes, Shows

LEMMA MainTypes == ASSUME TypeOK, Main PROVE TypeOK'
<1>1. ASSUME NEW k \in Kinds, SendUpdate(k) PROVE TypeOK'
  <2>1. [generation |-> page + 1, kind |-> k] \in Updates
    BY DEF TypeOK, Updates
  <2>2. queue' \in Seq(Commands) /\ sent' \in [last : Updates \cup {NoUpdate}, highest : Nat] /\ page' \in Nat
    BY <1>1, <2>1, CommandTypes DEF SendUpdate, TypeOK
  <2>. QED
    BY <1>1, <2>2 DEF SendUpdate, TypeOK, modelVars, linkVars, discordVars
<1>2. CASE ReloadPage
  BY <1>2, Bounds DEF ReloadPage, TypeOK, modelVars, linkVars, discordVars
<1>3. ASSUME NEW s \in Settings, BeginSave(s) PROVE TypeOK'
  BY <1>3, Bounds, FileTypes DEF BeginSave, TypeOK, Unsure, modelVars, linkVars, discordVars
<1>4. CASE FinishWrite
  <2>1. /\ file' \in Files
        /\ saving' \in [pc : {"no", "write", "apply", "send"}, to : Settings]
    BY <1>4, FileTypes DEF FinishWrite, TypeOK, NotSaving
  <2>. QED
    BY <1>4, <2>1 DEF FinishWrite, TypeOK, modelVars, linkVars, discordVars
<1>5. CASE ApplySettings
  BY <1>5 DEF ApplySettings, TypeOK, modelVars, linkVars, discordVars
<1>6. CASE SendSettings
  <2>1. queue' \in Seq(Commands) /\ acked' \in Files
        /\ saving' \in [pc : {"no", "write", "apply", "send"}, to : Settings]
    BY <1>6, CommandTypes, FileTypes DEF SendSettings, TypeOK, NotSaving
  <2>. QED
    BY <1>6, <2>1 DEF SendSettings, TypeOK, modelVars, linkVars, discordVars
<1>7. CASE BeginShutdown
  <2>1. queue' \in Seq(Commands)
    BY <1>7, CommandTypes DEF BeginShutdown, TypeOK
  <2>. QED
    BY <1>7, <2>1 DEF BeginShutdown, TypeOK, modelVars, linkVars, discordVars
<1>8. CASE Exit
  BY <1>8 DEF Exit, TypeOK, modelVars, Shows
<1>9. CASE CrashAndRestart
  <2>1. settings' \in Settings /\ current' \in Settings
        /\ saving' \in [pc : {"no", "write", "apply", "send"}, to : Settings]
    BY <1>9, FileTypes DEF CrashAndRestart, TypeOK, NotSaving
  <2>2. status' \in {"disabled", "disconnected", "connecting", "connected"}
    BY <1>9 DEF CrashAndRestart, FirstStatus
  <2>3. /\ sinceSend' \in 0 .. Never /\ untilRetry' \in 0 .. MaxBackoff
        /\ attempt' \in 0 .. MaxAttempt /\ age' \in 0 .. MaxConnect
        /\ sinceCall' \in 0 .. Throttle /\ gap' \in 0 .. Throttle
        /\ events' \in 0 .. MaxEvents
    BY <1>9, Bounds DEF CrashAndRestart, TypeOK
  <2>4. queue' \in Seq(Commands) /\ page' \in Nat
    BY <1>9 DEF CrashAndRestart
  <2>5. sent' \in [last : Updates \cup {NoUpdate}, highest : Nat]
    BY <1>9 DEF CrashAndRestart, NothingSent
  <2>. QED
    BY <1>9, <2>1, <2>2, <2>3, <2>4, <2>5 DEF CrashAndRestart, TypeOK, Shows
<1>. QED
  BY <1>1, <1>2, <1>3, <1>4, <1>5, <1>6, <1>7, <1>8, <1>9 DEF Main

\* While it connects there is something to show.
Connecting == pc = "connect" => HasWork /\ ~client

LEMMA WorkerTypes == ASSUME TypeOK, Connecting, Worker PROVE TypeOK'
<1>1. CASE TakeUpdate
  <2>1. queue' \in Seq(Commands) /\ latest' \in Updates \cup {NoUpdate}
    BY <1>1, TakenTypes, CommandTypes DEF TakeUpdate, TypeOK
  <2>. QED
    BY <1>1, <2>1 DEF TakeUpdate, TypeOK, linkVars, discordVars
<1>2. CASE TakeSettings
  <2>1. queue' \in Seq(Commands) /\ current' \in Settings
    BY <1>2, TakenTypes, CommandTypes DEF TakeSettings
  <2>2. /\ client' \in BOOLEAN /\ shown' \in Shows /\ lastSent' \in Shows
        /\ status' \in {"disabled", "disconnected", "connecting", "connected"}
        /\ untilRetry' \in 0 .. MaxBackoff /\ attempt' \in 0 .. MaxAttempt
    <3>1. /\ 0 \in 0 .. MaxBackoff /\ 0 \in 0 .. MaxAttempt
          /\ client \in BOOLEAN /\ shown \in Shows /\ untilRetry \in 0 .. MaxBackoff
          /\ status \in {"disabled", "disconnected", "connecting", "connected"}
          /\ attempt \in 0 .. MaxAttempt
      BY Bounds DEF TypeOK
    <3>2. "none" \in Shows
      BY DEF Shows
    <3>3. CASE current'.enabled
      BY <1>2, <3>1, <3>2, <3>3 DEF TakeSettings
    <3>4. CASE ~current'.enabled
      BY <1>2, <3>1, <3>2, <3>4 DEF TakeSettings
    <3>. QED
      BY <3>3, <3>4
  <2>3. UNCHANGED <<configured, file, settings, saving, stopping, page, acked, latest,
                    sinceSend, age, sinceCall, first, gap, sent, events>> /\ pc' = "look"
    BY <1>2 DEF TakeSettings
  <2>. QED
    BY <2>1, <2>2, <2>3 DEF TypeOK
<1>3. CASE TakeShutdown
  BY <1>3, TakenTypes DEF TakeShutdown, TypeOK, Shows, modelVars
<1>4. CASE NothingToDo
  BY <1>4 DEF NothingToDo, TypeOK, serviceVars, modelVars, linkVars, discordVars
<1>5. CASE StartConnect
  BY <1>5, Bounds DEF StartConnect, TypeOK, serviceVars, modelVars, discordVars
<1>6. CASE ConnectFails
  <2>1. LossTypes /\ UNCHANGED lastSent
    BY <1>6, LossKeepsTypes, Bounds DEF ConnectFails, TypeOK
  <2>. QED
    BY <1>6, <2>1 DEF ConnectFails, LossTypes, TypeOK, serviceVars, modelVars
<1>7. CASE ConnectOk
  <2>0. age \in 0 .. MaxConnect /\ latest \in Updates
    BY <1>7 DEF ConnectOk, Connecting, HasWork, TypeOK
  <2>1. CASE SendOk(age, TRUE)
    <3>1. SentTypes
      BY <2>0, <2>1, SendKeepsTypes
    <3>. QED
      BY <1>7, <3>1 DEF ConnectOk, SentTypes, TypeOK, serviceVars, modelVars
  <2>2. CASE ~SendOk(age, TRUE)
    <3>1. /\ client' \in BOOLEAN /\ lastSent' \in Shows /\ shown' \in Shows
          /\ status' \in {"disabled", "disconnected", "connecting", "connected"}
          /\ UNCHANGED <<sinceSend, sinceCall, first, gap>>
      BY <1>7, <2>2 DEF ConnectOk, TypeOK, Shows, discordVars
    <3>2. untilRetry' \in 0 .. MaxBackoff /\ attempt' \in 0 .. MaxAttempt
      <4>1. attempt' \in {0, Least(1, MaxAttempt)} /\ untilRetry' \in {0, 1, untilRetry}
        BY <1>7, <2>2 DEF ConnectOk
      <4>. QED
        BY <4>1, Bounds DEF Least, TypeOK
    <3>. QED
      BY <1>7, <3>1, <3>2 DEF ConnectOk, TypeOK, serviceVars, modelVars
  <2>. QED
    BY <2>1, <2>2
<1>8. CASE Present
  <2>0. latest \in Updates /\ 0 \in 0 .. MaxConnect
    BY <1>8, Bounds DEF Present, HasWork, TypeOK
  <2>1. CASE SendOk(0, FALSE)
    <3>1. SentTypes
      BY <2>0, <2>1, SendKeepsTypes
    <3>. QED
      BY <1>8, <3>1 DEF Present, SentTypes, TypeOK, serviceVars, modelVars
  <2>2. CASE SendFails(0)
    <3>1. LossTypes
      BY <2>0, <2>2, LossKeepsTypes DEF SendFails
    <3>. QED
      BY <1>8, <2>2, <3>1 DEF Present, SendFails, LossTypes, TypeOK, serviceVars, modelVars
  <2>3. CASE UNCHANGED <<client, lastSent, sinceSend, untilRetry, attempt, status, discordVars>>
    BY <1>8, <2>3 DEF Present, TypeOK, serviceVars, modelVars, discordVars
  <2>. QED
    BY <1>8, <2>1, <2>2, <2>3 DEF Present
<1>. QED
  BY <1>1, <1>2, <1>3, <1>4, <1>5, <1>6, <1>7, <1>8 DEF Worker

LEMMA TickTypes == ASSUME TypeOK, Tick PROVE TypeOK'
<1>1. /\ sinceSend' \in 0 .. Never /\ untilRetry' \in 0 .. MaxBackoff
      /\ age' \in 0 .. MaxConnect /\ sinceCall' \in 0 .. Throttle
  BY Bounds DEF Tick, Least, TypeOK
<1>. QED
  BY <1>1 DEF Tick, TypeOK, serviceVars, modelVars

LEMMA NextTypes == ASSUME TypeOK, Connecting, [Next]_vars PROVE TypeOK'
<1>1. CASE UNCHANGED vars
  BY <1>1 DEF vars, TypeOK, serviceVars, modelVars, linkVars, discordVars
<1>. QED
  BY <1>1, MainTypes, WorkerTypes, TickTypes DEF Next

(***************************************************************************)
(* The link.                                                               *)
(***************************************************************************)
LinkInv ==
  /\ Connecting
  /\ LinkIsTrue
  /\ pc = "look" => (status = "connected" <=> client)
  /\ stopping = "acknowledged" => pc = "gone"

LEMMA MainKeepsLink == ASSUME TypeOK, LinkInv, Main PROVE LinkInv'
<1>1. CASE Exit
  BY <1>1 DEF Exit, LinkInv, LinkIsTrue, Connecting
<1>2. CASE CrashAndRestart
  BY <1>2 DEF CrashAndRestart, FirstStatus, LinkInv, LinkIsTrue, Connecting
<1>3. CASE /\ UNCHANGED <<configured, pc, current, latest, client, shown, status>>
           /\ stopping' = "acknowledged" => stopping = "acknowledged"
  BY <1>3 DEF LinkInv, LinkIsTrue, Connecting, HasWork
<1>. QED
  BY <1>1, <1>2, <1>3 DEF Main, SendUpdate, ReloadPage, BeginSave, FinishWrite, ApplySettings,
     SendSettings, BeginShutdown, modelVars, linkVars, discordVars

LEMMA WorkerKeepsLink == ASSUME TypeOK, LinkInv, Worker PROVE LinkInv'
<1>1. CASE TakeUpdate
  BY <1>1 DEF TakeUpdate, LinkInv, LinkIsTrue, Connecting, linkVars, discordVars
<1>2. CASE TakeSettings
  BY <1>2 DEF TakeSettings, LinkInv, LinkIsTrue, Connecting
<1>3. CASE TakeShutdown
  BY <1>3 DEF TakeShutdown, LinkInv, LinkIsTrue, Connecting
<1>4. CASE NothingToDo
  BY <1>4 DEF NothingToDo, Looks, LinkInv, LinkIsTrue, Connecting, serviceVars, modelVars,
     linkVars, discordVars
<1>5. CASE StartConnect
  BY <1>5 DEF StartConnect, Looks, HasWork, LinkInv, LinkIsTrue, Connecting, serviceVars,
     modelVars, discordVars
<1>6. CASE ConnectFails
  BY <1>6 DEF ConnectFails, LoseLink, LinkInv, LinkIsTrue, Connecting, serviceVars, modelVars
<1>7. CASE ConnectOk
  <2>1. \/ client' = TRUE /\ status' = "connected"
        \/ client' = FALSE /\ shown' = "none" /\ status' = "disconnected"
    BY <1>7 DEF ConnectOk, SendOk
  <2>2. HasWork /\ stopping # "acknowledged" /\ pc' = "recv"
        /\ UNCHANGED <<configured, stopping, current>>
    BY <1>7 DEF ConnectOk, LinkInv, Connecting, serviceVars, modelVars
  <2>. QED
    BY <2>1, <2>2 DEF HasWork, LinkInv, LinkIsTrue, Connecting
<1>8. CASE Present
  <2>1. \/ client' = TRUE /\ status' = "connected"
        \/ client' = FALSE /\ shown' = "none" /\ status' = "disconnected"
        \/ UNCHANGED <<client, status, shown>>
    BY <1>8 DEF Present, SendOk, SendFails, LoseLink, discordVars
  <2>2. HasWork /\ stopping # "acknowledged" /\ pc' = "recv"
        /\ UNCHANGED <<configured, stopping, current>> /\ client /\ status = "connected"
    BY <1>8 DEF Present, Looks, LinkInv, LinkIsTrue, serviceVars, modelVars
  <2>. QED
    BY <2>1, <2>2 DEF HasWork, LinkInv, LinkIsTrue, Connecting
<1>. QED
  BY <1>1, <1>2, <1>3, <1>4, <1>5, <1>6, <1>7, <1>8 DEF Worker

(***************************************************************************)
(* The settings: a file that was acknowledged stays as it was until the    *)
(* next save begins, and a save that was applied is in the file.           *)
(***************************************************************************)
SavingInv ==
  /\ acked # Unsure => file = acked /\ settings = Load(acked)
  /\ saving.pc # "no" => acked = Unsure
  /\ saving.pc \in {"apply", "send"} => file = Stored(saving.to)
  /\ saving.pc = "send" => settings = saving.to

LEMMA SavingStep == ASSUME TypeOK, SavingInv, [Next]_vars PROVE SavingInv'
<1>0. saving \in [pc : {"no", "write", "apply", "send"}, to : Settings]
  BY DEF TypeOK
<1>1. CASE CrashAndRestart
  BY <1>1 DEF CrashAndRestart, SavingInv, NotSaving
<1>2. ASSUME NEW s \in Settings, BeginSave(s) PROVE SavingInv'
  BY <1>2 DEF BeginSave, SavingInv
<1>3. CASE FinishWrite
  BY <1>0, <1>3 DEF FinishWrite, SavingInv, NotSaving
<1>4. CASE ApplySettings
  BY <1>0, <1>4 DEF ApplySettings, SavingInv
<1>5. CASE SendSettings
  BY <1>0, <1>5, FileTypes DEF SendSettings, SavingInv, NotSaving
<1>6. CASE UNCHANGED <<file, settings, saving, acked>>
  BY <1>6 DEF SavingInv
<1>7. CASE Worker
  BY <1>6, <1>7 DEF Worker, TakeUpdate, TakeSettings, TakeShutdown, NothingToDo, StartConnect,
     ConnectFails, ConnectOk, Present, serviceVars
<1>8. CASE Main
  BY <1>1, <1>2, <1>3, <1>4, <1>5, <1>6, <1>8 DEF Main, SendUpdate, ReloadPage, BeginShutdown,
     Exit
<1>. QED
  BY <1>6, <1>7, <1>8 DEF Next, Tick, vars, serviceVars

(***************************************************************************)
(* The throttle: but for the update a connection begins with, the worker's *)
(* clock agrees with the time since the update was sent.                   *)
(***************************************************************************)
ThrottleInv ==
  /\ UpdatesAreSpaced
  /\ ~first => sinceCall = Least(sinceSend, Throttle)

LEMMA SendIsSpaced ==
  ASSUME TypeOK, ThrottleInv, NEW a \in 0 .. MaxConnect, NEW isFirst \in BOOLEAN,
         SendOk(a, isFirst), sinceSend - a >= Throttle, isFirst \/ a = 0
  PROVE  ThrottleInv'
<1>1. sinceSend \in Int /\ a \in Nat
  BY Bounds DEF TypeOK
<1>2. Least(sinceSend, Throttle) = Throttle
  BY <1>1, Bounds DEF Least
<1>3. gap' >= Throttle
  BY <1>2, Bounds DEF SendOk, ThrottleInv
<1>4. ~first' => sinceCall' = Least(sinceSend', Throttle)
  BY Bounds DEF SendOk, Least
<1>. QED
  BY <1>3, <1>4 DEF ThrottleInv, UpdatesAreSpaced

LEMMA ThrottleStep == ASSUME TypeOK, ThrottleInv, [Next]_vars PROVE ThrottleInv'
<1>1. CASE UNCHANGED <<sinceSend, sinceCall, first, gap>>
  BY <1>1 DEF ThrottleInv, UpdatesAreSpaced
<1>2. CASE CrashAndRestart
  BY <1>2, Bounds DEF CrashAndRestart, ThrottleInv, UpdatesAreSpaced
<1>3. CASE Tick
  BY <1>3, Bounds DEF Tick, Least, TypeOK, ThrottleInv, UpdatesAreSpaced
<1>4. CASE ConnectOk
  <2>1. age \in 0 .. MaxConnect
    BY DEF TypeOK
  <2>2. CASE SendOk(age, TRUE) /\ Due(age, "none")
    BY <2>1, <2>2, SendIsSpaced DEF Due
  <2>. QED
    BY <1>1, <1>4, <2>2 DEF ConnectOk, discordVars
<1>5. CASE Present
  <2>1. CASE SendOk(0, FALSE) /\ Due(0, lastSent)
    <3>1. 0 \in 0 .. MaxConnect /\ sinceSend - 0 >= Throttle
      BY <2>1, Bounds DEF Due
    <3>. QED
      BY <2>1, <3>1, SendIsSpaced
  <2>. QED
    BY <1>1, <1>5, <2>1 DEF Present, SendFails, discordVars
<1>6. CASE Main \/ UNCHANGED vars
  BY <1>1, <1>2, <1>6 DEF Main, SendUpdate, ReloadPage, BeginSave, FinishWrite, ApplySettings,
     SendSettings, BeginShutdown, Exit, vars, linkVars, discordVars
<1>7. CASE Worker /\ ~ConnectOk /\ ~Present
  BY <1>1, <1>7 DEF Worker, TakeUpdate, TakeSettings, TakeShutdown, NothingToDo, StartConnect,
     ConnectFails, linkVars, discordVars
<1>. QED
  BY <1>3, <1>4, <1>5, <1>6, <1>7 DEF Next

(***************************************************************************)
(* The inductive invariant.                                                *)
(***************************************************************************)
IInv == TypeOK /\ LinkInv /\ SavingInv /\ ThrottleInv

LEMMA InitInv == Init => IInv
<1>. SUFFICES ASSUME Init PROVE IInv
  OBVIOUS
<1>1. LinkInv
  BY DEF Init, FirstStatus, LinkInv, LinkIsTrue, Connecting
<1>2. SavingInv
  BY DEF Init, NotSaving, SavingInv
<1>3. ThrottleInv
  BY Bounds DEF Init, ThrottleInv, UpdatesAreSpaced
<1>. QED
  BY <1>1, <1>2, <1>3, InitTypes DEF IInv

LEMMA NextInv == IInv /\ [Next]_vars => IInv'
<1>. SUFFICES ASSUME IInv, [Next]_vars PROVE IInv'
  OBVIOUS
<1>1. TypeOK /\ LinkInv /\ SavingInv /\ ThrottleInv /\ Connecting
  BY DEF IInv, LinkInv
<1>2. LinkInv'
  <2>1. CASE UNCHANGED <<configured, pc, current, latest, client, shown, status, stopping>>
    BY <1>1, <2>1 DEF LinkInv, LinkIsTrue, Connecting, HasWork
  <2>. QED
    BY <1>1, <2>1, MainKeepsLink, WorkerKeepsLink DEF Next, Tick, vars, serviceVars, modelVars,
       linkVars, discordVars
<1>. QED
  BY <1>1, <1>2, NextTypes, SavingStep, ThrottleStep DEF IInv

\* Every variable keeps its type; the waits stay within their limits.
THEOREM TypeCorrect == Spec => []TypeOK
<1>1. IInv => TypeOK
  BY DEF IInv
<1>. QED
  BY <1>1, InitInv, NextInv, PTL DEF Spec

\* Discord shows nothing of a worker that is switched off or gone, and the
\* application says "connected" exactly when the worker is (run_worker).
THEOREM LinkStaysTrue == Spec => []LinkIsTrue
<1>1. IInv => LinkIsTrue
  BY DEF IInv, LinkInv
<1>. QED
  BY <1>1, InitInv, NextInv, PTL DEF Spec

\* The settings in force are those on file, unless a save failed or the process
\* died over it (set_settings, load_settings).
THEOREM SettingsAreKept == Spec => []SettingsSurvive
<1>1. IInv => SettingsSurvive
  BY DEF IInv, SavingInv, SettingsSurvive
<1>. QED
  BY <1>1, InitInv, NextInv, PTL DEF Spec

\* Two updates on one connection are UPDATE_THROTTLE apart, for any throttle,
\* health interval, backoff and connect time.
THEOREM ThrottleHolds == Spec => []UpdatesAreSpaced
<1>1. IInv => UpdatesAreSpaced
  BY DEF IInv, ThrottleInv
<1>. QED
  BY <1>1, InitInv, NextInv, PTL DEF Spec
=============================================================================
