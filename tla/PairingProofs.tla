----------------------------- MODULE PairingProofs -----------------------------
(***************************************************************************)
(* Theorems about pairing: type correctness and every safety property of   *)
(* Pairing, for any number of attempts, accounts, environments, ports and  *)
(* looks.                                                                  *)
(***************************************************************************)
EXTENDS Pairing, TLAPS

(***************************************************************************)
(* The strengthening.  An attempt's own name becomes a registration others *)
(* can see only by FinishWrite: before it, neither the file nor another    *)
(* attempt holds that name, so nobody else deletes its key.                *)
(***************************************************************************)
Published == {"authorized", "claim", "choose", "relay"} \cup Ends
Claimed   == {"check", "refresh", "discard", "discardKey"}
Enrolling == {"listen", "browser", "finish", "write", "writing", "cleanup"}

\* An attempt's name is on file, or another attempt's registration, only once
\* it is published.
NamesArePublished ==
  \A b \in Attempts : pc[b] \notin Published =>
    file # b /\ \A a \in Attempts \ {b} : using[a] # b

\* What an attempt uses where: a registration it read, or its own.
UseFitsPlace ==
  \A a \in Attempts :
    /\ pc[a] \in Claimed => using[a] \in Registrations
    /\ pc[a] = "discardKey" => using[a] # file
    /\ pc[a] \in Enrolling => using[a] = a

\* What is about to be written is usable.
WritesAreUsable ==
  \A a \in Attempts :
    pc[a] \in {"write", "writing"} => a \in (keys \cap registered) \cup lost

\* Every key has somebody who will use, publish, delete or forsake it.
KeysHaveKeepers ==
  keys \subseteq {file} \cup forsaken
                 \cup {using[a] : a \in {b \in Attempts : pc[b] = "discardKey"}}
                 \cup {a \in Attempts : pc[a] \in Enrolling}

\* Until it chooses, an attempt counts every arrival since it listed.
ArrivalsAreCounted ==
  \A a \in Attempts :
    /\ pc[a] \in {"claim", "choose"} => online \ before[a] \subseteq arrived[a]
    /\ pc[a] \notin {"relay"} \cup Ends => chosen[a] = None

IInv ==
  /\ TypeOK /\ NamesArePublished /\ UseFitsPlace /\ WritesAreUsable /\ KeysHaveKeepers
  /\ ArrivalsAreCounted /\ RegistrationIsUsable /\ StepUpIsItsOwn /\ ConnectsToTheCodesHost

\* The steps, in the three parts of an attempt and outside of it.
Registering(a) == Start(a) \/ ReadEnrollment(a) \/ CheckKey(a) \/ Refresh(a) \/ DiscardFile(a)
                    \/ DiscardKey(a)
Enrolls(a) == EnrollStart(a) \/ CreateKey(a) \/ BindListener(a) \/ ServeCallback(a)
                \/ CallbackTimesOut(a) \/ FinishEnroll(a) \/ BeginWrite(a) \/ FinishWrite(a)
                \/ DeleteOwnKey(a)
Connects(a) == Prepared(a) \/ ListBefore(a) \/ ClaimCode(a) \/ Look(a) \/ OpenRelay(a)
                 \/ Cancel(a)
Surroundings == Crash \/ Approve \/ CallbackRefused \/ LoseRegistration \/ EnvironmentTurns

LEMMA NextSplit ==
  ASSUME [Next]_vars
  PROVE  \/ \E a \in Attempts : Registering(a) \/ Enrolls(a) \/ Connects(a)
         \/ Surroundings \/ UNCHANGED vars
BY DEF Next, Step, Registering, Enrolls, Connects, Surroundings

(***************************************************************************)
(* Types.                                                                  *)
(***************************************************************************)
LEMMA NamesDiffer ==
  /\ None \notin Registrations /\ Torn \notin Registrations /\ None # Torn
  /\ Old \notin Attempts /\ None \notin Envs /\ Attempts \subseteq Registrations
BY PairingAssumption DEF Registrations

LEMMA InitTypes == Init => TypeOK
BY PairingAssumption, NamesDiffer
DEF Init, TypeOK, Registrations, Places, Ends, Awaits, Pages, Ports

LEMMA QuitType ==
  ASSUME TypeOK, NEW a PROVE Quit(a) \in [Ports -> Attempts \cup {None}]
BY DEF TypeOK, Quit

LEMMA RegistrationTypes ==
  ASSUME TypeOK, NEW a \in Attempts, Registering(a)
  PROVE  TypeOK'
<1>1. CASE Start(a)
  BY <1>1 DEF Start, Go, TypeOK, Places, deviceVars, serverVars, browserVars, choiceVars
<1>2. CASE ReadEnrollment(a)
  BY <1>2 DEF ReadEnrollment, Go, TypeOK, Places, Awaits, deviceVars, serverVars,
     browserVars, choiceVars
<1>3. CASE CheckKey(a)
  BY <1>3 DEF CheckKey, Go, TypeOK, Places, Awaits, deviceVars, serverVars, browserVars,
     choiceVars
<1>4. CASE Refresh(a)
  BY <1>4 DEF Refresh, Go, Fail, TypeOK, Places, Ends, Awaits, deviceVars, serverVars,
     browserVars, choiceVars
<1>5. CASE DiscardFile(a)
  BY <1>5 DEF DiscardFile, Go, Fail, Forsake, TypeOK, Places, Ends, serverVars, browserVars,
     choiceVars
<1>6. CASE DiscardKey(a)
  BY <1>6 DEF DiscardKey, DeleteKey, Go, Forsake, TypeOK, Places, Awaits, serverVars,
     browserVars, choiceVars
<1>. QED
  BY <1>1, <1>2, <1>3, <1>4, <1>5, <1>6 DEF Registering

LEMMA EnrollmentTypes ==
  ASSUME TypeOK, NEW a \in Attempts, Enrolls(a)
  PROVE  TypeOK'
<1>0. Quit(a) \in [Ports -> Attempts \cup {None}]
  BY QuitType
<1>1. CASE EnrollStart(a)
  BY <1>1 DEF EnrollStart, Go, Fail, TypeOK, Places, Ends, deviceVars, serverVars,
     browserVars, choiceVars
<1>2. CASE CreateKey(a)
  BY <1>2, NamesDiffer DEF CreateKey, Go, Fail, Forsake, TypeOK, Places, Ends, serverVars,
     browserVars, choiceVars
<1>3. CASE BindListener(a)
  BY <1>3 DEF BindListener, Free, Go, TypeOK, Places, Awaits, Pages, deviceVars, serverVars,
     choiceVars
<1>4. CASE ServeCallback(a)
  BY <1>0, <1>4 DEF ServeCallback, Go, TypeOK, Places, Awaits, Pages, deviceVars, serverVars,
     choiceVars
<1>5. CASE CallbackTimesOut(a)
  BY <1>0, <1>5 DEF CallbackTimesOut, Go, TypeOK, Places, deviceVars, serverVars, choiceVars
<1>6. CASE FinishEnroll(a)
  BY <1>6, NamesDiffer DEF FinishEnroll, Go, TypeOK, Places, deviceVars, browserVars,
     choiceVars
<1>7. CASE BeginWrite(a)
  BY <1>7 DEF BeginWrite, Go, Forsake, TypeOK, Places, serverVars, browserVars, choiceVars
<1>8. CASE FinishWrite(a)
  BY <1>8, NamesDiffer DEF FinishWrite, Go, Forsake, TypeOK, Places, Awaits, serverVars,
     browserVars, choiceVars
<1>9. CASE DeleteOwnKey(a)
  BY <1>9 DEF DeleteOwnKey, DeleteKey, Go, Fail, Forsake, TypeOK, Places, Ends, serverVars,
     browserVars, choiceVars
<1>. QED
  BY <1>1, <1>2, <1>3, <1>4, <1>5, <1>6, <1>7, <1>8, <1>9 DEF Enrolls

LEMMA ConnectionTypes ==
  ASSUME TypeOK, NEW a \in Attempts, Connects(a)
  PROVE  TypeOK'
<1>1. CASE Prepared(a)
  BY <1>1 DEF Prepared, Go, TypeOK, Places, Ends, deviceVars, serverVars, browserVars,
     choiceVars
<1>2. CASE ListBefore(a)
  BY <1>2 DEF ListBefore, Go, Fail, TypeOK, Places, Ends, Awaits, deviceVars, serverVars,
     browserVars
<1>3. CASE ClaimCode(a)
  BY <1>3 DEF ClaimCode, Go, Fail, TypeOK, Places, Ends, Awaits, deviceVars, serverVars,
     browserVars
<1>4. CASE Look(a)
  <2>1. looks' \in [Attempts -> 0 .. MaxLooks - 1]
    BY <1>4, PairingAssumption DEF Look, MayLookAgain, TypeOK
  <2>2. chosen' \in [Attempts -> Envs \cup {None}] /\ pc' \in [Attempts -> Places]
    BY <1>4 DEF Look, FirstPages, Candidates, Go, Fail, TypeOK, Places, Ends, Awaits
  <2>. QED
    BY <1>4, <2>1, <2>2 DEF Look, TypeOK, deviceVars, serverVars, browserVars
<1>5. CASE OpenRelay(a)
  BY <1>5 DEF OpenRelay, Go, Fail, TypeOK, Places, Ends, deviceVars, serverVars, browserVars,
     choiceVars
<1>6. CASE Cancel(a)
  <2>1. Quit(a) \in [Ports -> Attempts \cup {None}]
    BY QuitType
  <2>. QED
    BY <1>6, <2>1, NamesDiffer DEF Cancel, Go, Forsake, TypeOK, Places, Ends, deviceVars,
       choiceVars
<1>. QED
  BY <1>1, <1>2, <1>3, <1>4, <1>5, <1>6 DEF Connects

LEMMA SurroundingTypes == ASSUME TypeOK, Surroundings PROVE TypeOK'
<1>0. Happens => events' \in 0 .. MaxEvents
  BY PairingAssumption DEF Happens, TypeOK
<1>1. CASE Crash
  BY <1>0, <1>1 DEF Crash, Forsake, TypeOK, Places, Ends, deviceVars, serverVars, choiceVars
<1>2. CASE Approve
  BY <1>2 DEF Approve, TypeOK, deviceVars, serverVars, choiceVars
<1>3. CASE CallbackRefused
  BY <1>3 DEF CallbackRefused, TypeOK, deviceVars, serverVars, choiceVars
<1>4. CASE LoseRegistration
  BY <1>0, <1>4 DEF LoseRegistration, TypeOK, browserVars, choiceVars
<1>5. CASE EnvironmentTurns
  BY <1>0, <1>5 DEF EnvironmentTurns, TypeOK, deviceVars, browserVars
<1>. QED
  BY <1>1, <1>2, <1>3, <1>4, <1>5 DEF Surroundings

LEMMA StutterTypes == ASSUME TypeOK, UNCHANGED vars PROVE TypeOK'
BY DEF TypeOK, vars, deviceVars, serverVars, browserVars, choiceVars

LEMMA NextTypes == ASSUME TypeOK, [Next]_vars PROVE TypeOK'
BY NextSplit, RegistrationTypes, EnrollmentTypes, ConnectionTypes, SurroundingTypes,
   StutterTypes

\* Every variable keeps its type; an attempt never looks more often than
\* choose_environment's loop allows.
THEOREM TypeCorrect == Spec => []TypeOK
<1>1. TypeOK /\ [Next]_vars => TypeOK'
  BY NextTypes
<1>. QED
  BY InitTypes, <1>1, PTL DEF Spec

(***************************************************************************)
(* The parts of the strengthening, one lemma for each.                     *)
(***************************************************************************)
LEMMA NamesStayPublished ==
  ASSUME TypeOK, NamesArePublished, [Next]_vars PROVE NamesArePublished'
<1>. SUFFICES ASSUME NEW b \in Attempts, pc'[b] \notin Published
              PROVE  file' # b /\ \A a \in Attempts \ {b} : using'[a] # b
  BY DEF NamesArePublished
<1>0. pc \in [Attempts -> Places] /\ using \in [Attempts -> Registrations \cup {None}]
  BY DEF TypeOK
<1>1. ASSUME pc[b] \notin Published, file' \in {file, None, Torn}, UNCHANGED using
      PROVE  file' # b /\ \A a \in Attempts \ {b} : using'[a] # b
  BY <1>1, NamesDiffer DEF NamesArePublished
<1>2. ASSUME NEW a \in Attempts, Registering(a)
      PROVE  file' # b /\ \A c \in Attempts \ {b} : using'[c] # b
  <2>1. pc[b] \notin Published
    BY <1>0, <1>2 DEF Registering, Start, ReadEnrollment, CheckKey, Refresh, DiscardFile,
       DiscardKey, Go, Fail, Published, Ends
  <2>2. file' \in {file, None}
    BY <1>2 DEF Registering, Start, ReadEnrollment, CheckKey, Refresh, DiscardFile,
       DiscardKey, deviceVars
  <2>3. UNCHANGED using \/ \E u \in {file, None} : using' = [using EXCEPT ![a] = u]
    BY <1>2 DEF Registering, Start, ReadEnrollment, CheckKey, Refresh, DiscardFile, DiscardKey
  <2>. QED
    BY <1>0, <2>1, <2>2, <2>3, NamesDiffer DEF NamesArePublished
<1>3. ASSUME NEW a \in Attempts, Enrolls(a)
      PROVE  file' # b /\ \A c \in Attempts \ {b} : using'[c] # b
  <2>1. pc[b] \notin Published
    BY <1>0, <1>3 DEF Enrolls, EnrollStart, CreateKey, BindListener, ServeCallback,
       CallbackTimesOut, FinishEnroll, BeginWrite, FinishWrite, DeleteOwnKey, Go, Fail,
       Published, Ends
  <2>2. file' \in {file, Torn} \/ (file' = a /\ pc'[a] = "authorized")
    BY <1>0, <1>3 DEF Enrolls, EnrollStart, CreateKey, BindListener, ServeCallback,
       CallbackTimesOut, FinishEnroll, BeginWrite, FinishWrite, DeleteOwnKey, Go, deviceVars
  <2>3. UNCHANGED using \/ using' = [using EXCEPT ![a] = a]
    BY <1>3 DEF Enrolls, EnrollStart, CreateKey, BindListener, ServeCallback,
       CallbackTimesOut, FinishEnroll, BeginWrite, FinishWrite, DeleteOwnKey
  <2>. QED
    BY <1>0, <2>1, <2>2, <2>3, NamesDiffer DEF NamesArePublished, Published
<1>4. ASSUME NEW a \in Attempts, Connects(a)
      PROVE  file' # b /\ \A c \in Attempts \ {b} : using'[c] # b
  <2>1. pc[b] \notin Published /\ UNCHANGED <<file, using>>
    BY <1>0, <1>4 DEF Connects, Prepared, ListBefore, ClaimCode, Look, OpenRelay, Cancel, Go,
       Fail, Published, Ends, deviceVars
  <2>. QED
    BY <1>1, <2>1
<1>5. ASSUME Surroundings \/ UNCHANGED vars
      PROVE  file' # b /\ \A c \in Attempts \ {b} : using'[c] # b
  <2>1. pc[b] \notin Published /\ UNCHANGED <<file, using>>
    BY <1>0, <1>5 DEF Surroundings, Crash, Approve, CallbackRefused, LoseRegistration,
       EnvironmentTurns, Running, Published, Ends, deviceVars, vars
  <2>. QED
    BY <1>1, <2>1
<1>. QED
  BY <1>2, <1>3, <1>4, <1>5, NextSplit

LEMMA UseStaysFitting ==
  ASSUME TypeOK, NamesArePublished, UseFitsPlace, [Next]_vars PROVE UseFitsPlace'
<1>. SUFFICES ASSUME NEW b \in Attempts
              PROVE  /\ pc'[b] \in Claimed => using'[b] \in Registrations
                     /\ pc'[b] = "discardKey" => using'[b] # file'
                     /\ pc'[b] \in Enrolling => using'[b] = b
  BY DEF UseFitsPlace
<1>. DEFINE Fits == /\ pc'[b] \in Claimed => using'[b] \in Registrations
                    /\ pc'[b] = "discardKey" => using'[b] # file'
                    /\ pc'[b] \in Enrolling => using'[b] = b
<1>0. /\ pc \in [Attempts -> Places] /\ using \in [Attempts -> Registrations \cup {None}]
      /\ pc[b] \in Claimed => using[b] \in Registrations
      /\ pc[b] = "discardKey" => using[b] # file
      /\ pc[b] \in Enrolling => using[b] = b
  BY DEF TypeOK, UseFitsPlace
<1>1. ASSUME pc'[b] \in {pc[b]} \cup Published, UNCHANGED <<file, using>> PROVE Fits
  BY <1>0, <1>1 DEF Published, Claimed, Enrolling, Ends
<1>2. ASSUME NEW a \in Attempts, Registering(a) PROVE Fits
  <2>1. CASE Start(a) \/ CheckKey(a) \/ Refresh(a)
    BY <1>0, <2>1 DEF Start, CheckKey, Refresh, Go, Fail, Claimed, Enrolling, deviceVars
  <2>2. CASE ReadEnrollment(a)
    BY <1>0, <2>2 DEF ReadEnrollment, Go, Claimed, Enrolling, deviceVars
  <2>3. CASE DiscardFile(a)
    BY <1>0, <2>3, NamesDiffer DEF DiscardFile, Go, Fail, Claimed, Enrolling
  <2>4. CASE DiscardKey(a)
    BY <1>0, <2>4 DEF DiscardKey, Go, Claimed, Enrolling
  <2>. QED
    BY <1>2, <2>1, <2>2, <2>3, <2>4 DEF Registering
<1>3. ASSUME NEW a \in Attempts, Enrolls(a) PROVE Fits
  <2>1. CASE EnrollStart(a) \/ BindListener(a) \/ ServeCallback(a) \/ CallbackTimesOut(a)
             \/ FinishEnroll(a)
    BY <1>0, <2>1 DEF EnrollStart, BindListener, ServeCallback, CallbackTimesOut,
       FinishEnroll, Go, Fail, Claimed, Enrolling, deviceVars
  <2>2. CASE CreateKey(a)
    BY <1>0, <2>2 DEF CreateKey, Go, Fail, Claimed, Enrolling
  <2>3. CASE BeginWrite(a)
    BY <1>0, <2>3, NamesDiffer DEF BeginWrite, Go, Claimed, Enrolling
  <2>4. CASE FinishWrite(a)
    <3>1. pc[b] = "discardKey" => using[b] # a
      BY <1>0, <2>4 DEF FinishWrite, NamesArePublished, Published, Ends
    <3>. QED
      BY <1>0, <2>4, <3>1, NamesDiffer DEF FinishWrite, Go, Claimed, Enrolling
  <2>5. CASE DeleteOwnKey(a)
    BY <1>0, <2>5 DEF DeleteOwnKey, Go, Fail, Claimed, Enrolling
  <2>. QED
    BY <1>3, <2>1, <2>2, <2>3, <2>4, <2>5 DEF Enrolls
<1>4. ASSUME NEW a \in Attempts, Connects(a) PROVE Fits
  <2>1. pc'[b] \in {pc[b]} \cup Published /\ UNCHANGED <<file, using>>
    BY <1>0, <1>4 DEF Connects, Prepared, ListBefore, ClaimCode, Look, OpenRelay, Cancel, Go,
       Fail, Published, Ends, deviceVars
  <2>. QED
    BY <1>1, <2>1
<1>5. ASSUME Surroundings \/ UNCHANGED vars PROVE Fits
  <2>1. pc'[b] \in {pc[b]} \cup Published /\ UNCHANGED <<file, using>>
    BY <1>0, <1>5 DEF Surroundings, Crash, Approve, CallbackRefused, LoseRegistration,
       EnvironmentTurns, Published, Ends, deviceVars, vars
  <2>. QED
    BY <1>1, <2>1
<1>. QED
  BY <1>2, <1>3, <1>4, <1>5, NextSplit

\* The keys a step takes away: the one an attempt has finished with, or a lost one.
LEMMA KeysTaken ==
  ASSUME TypeOK, [Next]_vars, NEW r \in keys \cap registered, r \notin keys' \cap registered'
  PROVE  \/ r \in lost'
         \/ \E a \in Attempts : pc[a] \in {"discardKey", "cleanup"} /\ using[a] = r
<1>1. ASSUME NEW a \in Attempts, Registering(a)
      PROVE  pc[a] \in {"discardKey", "cleanup"} /\ using[a] = r
  BY <1>1 DEF Registering, Start, ReadEnrollment, CheckKey, Refresh, DiscardFile, DiscardKey,
     DeleteKey, deviceVars, serverVars
<1>2. ASSUME NEW a \in Attempts, Enrolls(a)
      PROVE  pc[a] \in {"discardKey", "cleanup"} /\ using[a] = r
  BY <1>2 DEF Enrolls, EnrollStart, CreateKey, BindListener, ServeCallback, CallbackTimesOut,
     FinishEnroll, BeginWrite, FinishWrite, DeleteOwnKey, DeleteKey, deviceVars, serverVars
<1>3. ASSUME NEW a \in Attempts, Connects(a) PROVE FALSE
  BY <1>3 DEF Connects, Prepared, ListBefore, ClaimCode, Look, OpenRelay, Cancel, deviceVars,
     serverVars
<1>4. ASSUME Surroundings \/ UNCHANGED vars PROVE r \in lost'
  BY <1>4 DEF Surroundings, Crash, Approve, CallbackRefused, LoseRegistration,
     EnvironmentTurns, deviceVars, serverVars, vars
<1>. QED
  BY <1>1, <1>2, <1>3, <1>4, NextSplit

LEMMA LostGrows == ASSUME [Next]_vars PROVE lost \subseteq lost'
<1>1. ASSUME NEW a \in Attempts, Registering(a) \/ Enrolls(a) \/ Connects(a)
      PROVE  UNCHANGED lost
  BY <1>1 DEF Registering, Start, ReadEnrollment, CheckKey, Refresh, DiscardFile, DiscardKey,
     Enrolls, EnrollStart, CreateKey, BindListener, ServeCallback, CallbackTimesOut,
     FinishEnroll, BeginWrite, FinishWrite, DeleteOwnKey,
     Connects, Prepared, ListBefore, ClaimCode, Look, OpenRelay, Cancel
<1>2. ASSUME Surroundings \/ UNCHANGED vars PROVE lost \subseteq lost'
  BY <1>2 DEF Surroundings, Crash, Approve, CallbackRefused, LoseRegistration,
     EnvironmentTurns, vars
<1>. QED
  BY <1>1, <1>2, NextSplit

LEMMA WritesStayUsable ==
  ASSUME TypeOK, NamesArePublished, UseFitsPlace, WritesAreUsable, [Next]_vars
  PROVE  WritesAreUsable'
<1>. SUFFICES ASSUME NEW b \in Attempts, pc'[b] \in {"write", "writing"}
              PROVE  b \in (keys' \cap registered') \cup lost'
  BY DEF WritesAreUsable
<1>0. pc \in [Attempts -> Places]
  BY DEF TypeOK
<1>1. ASSUME pc[b] \in {"write", "writing"} PROVE b \in (keys' \cap registered') \cup lost'
  <2>1. \A a \in Attempts : pc[a] \in {"discardKey", "cleanup"} => using[a] # b
    BY <1>1 DEF NamesArePublished, UseFitsPlace, Published, Enrolling, Ends
  <2>. QED
    BY <1>1, <2>1, KeysTaken, LostGrows DEF WritesAreUsable
<1>2. ASSUME pc[b] \notin {"write", "writing"} PROVE b \in (keys' \cap registered') \cup lost'
  <2>1. pc'[b] # pc[b]
    BY <1>2
  <2>2. ASSUME NEW a \in Attempts, Registering(a) \/ Connects(a) PROVE FALSE
    BY <1>0, <2>1, <2>2 DEF Registering, Start, ReadEnrollment, CheckKey, Refresh,
       DiscardFile, DiscardKey, Connects, Prepared, ListBefore, ClaimCode, Look, OpenRelay,
       Cancel, Go, Fail
  <2>3. ASSUME Surroundings \/ UNCHANGED vars PROVE FALSE
    BY <1>0, <2>1, <2>3 DEF Surroundings, Crash, Approve, CallbackRefused,
       LoseRegistration, EnvironmentTurns, vars
  <2>4. ASSUME NEW a \in Attempts, Enrolls(a) PROVE a = b /\ FinishEnroll(b)
    BY <1>0, <1>2, <2>1, <2>4 DEF Enrolls, EnrollStart, CreateKey, BindListener,
       ServeCallback, CallbackTimesOut, FinishEnroll, BeginWrite, FinishWrite, DeleteOwnKey,
       Go, Fail
  <2>5. FinishEnroll(b)
    BY <2>2, <2>3, <2>4, NextSplit
  <2>6. using[b] = b /\ pc[b] = "finish"
    BY <2>5 DEF FinishEnroll, UseFitsPlace, Enrolling
  <2>. QED
    BY <1>0, <2>5, <2>6 DEF FinishEnroll, CanSign, Go, deviceVars
<1>. QED
  BY <1>1, <1>2

LEMMA FileStaysUsable ==
  ASSUME TypeOK, NamesArePublished, UseFitsPlace, WritesAreUsable, RegistrationIsUsable,
         [Next]_vars
  PROVE  RegistrationIsUsable'
<1>. SUFFICES ASSUME file' \in Registrations
              PROVE  file' \in (keys' \cap registered') \cup lost'
  BY DEF RegistrationIsUsable
<1>1. CASE file' = file
  <2>1. \A a \in Attempts : pc[a] \in {"discardKey", "cleanup"} => using[a] # file
    BY DEF NamesArePublished, UseFitsPlace, Published, Enrolling, Ends
  <2>. QED
    BY <1>1, <2>1, KeysTaken, LostGrows DEF RegistrationIsUsable
<1>2. CASE file' # file
  <2>1. ASSUME NEW a \in Attempts, Registering(a) \/ Connects(a) PROVE FALSE
    BY <1>2, <2>1, NamesDiffer DEF Registering, Start, ReadEnrollment, CheckKey, Refresh,
       DiscardFile, DiscardKey, Connects, Prepared, ListBefore, ClaimCode, Look, OpenRelay,
       Cancel, deviceVars
  <2>2. ASSUME Surroundings \/ UNCHANGED vars PROVE FALSE
    BY <1>2, <2>2 DEF Surroundings, Crash, Approve, CallbackRefused, LoseRegistration,
       EnvironmentTurns, deviceVars, vars
  <2>3. ASSUME NEW a \in Attempts, Enrolls(a) PROVE file' \in (keys' \cap registered') \cup lost'
    <3>1. FinishWrite(a) /\ file' = a
      BY <1>2, <2>3, NamesDiffer DEF Enrolls, EnrollStart, CreateKey, BindListener,
         ServeCallback, CallbackTimesOut, FinishEnroll, BeginWrite, FinishWrite,
         DeleteOwnKey, deviceVars
    <3>. QED
      BY <3>1 DEF FinishWrite, WritesAreUsable, serverVars
  <2>. QED
    BY <2>1, <2>2, <2>3, NextSplit
<1>. QED
  BY <1>1, <1>2

LEMMA KeysStayKept ==
  ASSUME TypeOK, UseFitsPlace, KeysHaveKeepers, [Next]_vars PROVE KeysHaveKeepers'
<1>. SUFFICES ASSUME NEW k \in keys', k # file', k \notin forsaken'
              PROVE  \/ \E a \in Attempts : pc'[a] = "discardKey" /\ using'[a] = k
                     \/ k \in Attempts /\ pc'[k] \in Enrolling
  BY DEF KeysHaveKeepers
<1>. DEFINE Kept == \/ \E a \in Attempts : pc'[a] = "discardKey" /\ using'[a] = k
                    \/ k \in Attempts /\ pc'[k] \in Enrolling
<1>0. /\ pc \in [Attempts -> Places] /\ using \in [Attempts -> Registrations \cup {None}]
      /\ keys \subseteq Registrations
  BY DEF TypeOK
<1>1. k \in keys => \/ k = file \/ k \in forsaken
                    \/ \E a \in Attempts : pc[a] = "discardKey" /\ using[a] = k
                    \/ k \in Attempts /\ pc[k] \in Enrolling
  BY DEF KeysHaveKeepers
<1>2. ASSUME NEW a \in Attempts, Registering(a) PROVE Kept
  <2>1. CASE Start(a) \/ ReadEnrollment(a) \/ CheckKey(a) \/ Refresh(a)
    BY <1>0, <1>1, <2>1 DEF Start, ReadEnrollment, CheckKey, Refresh, Go, Fail, Enrolling,
       deviceVars
  <2>2. CASE DiscardFile(a)
    BY <1>0, <1>1, <2>2 DEF DiscardFile, Go, Fail, Forsake, Enrolling
  <2>3. CASE DiscardKey(a)
    BY <1>0, <1>1, <2>3 DEF DiscardKey, DeleteKey, Go, Forsake, Enrolling
  <2>. QED
    BY <1>2, <2>1, <2>2, <2>3 DEF Registering
<1>3. ASSUME NEW a \in Attempts, Enrolls(a) PROVE Kept
  <2>1. CASE EnrollStart(a) \/ BindListener(a) \/ ServeCallback(a) \/ CallbackTimesOut(a)
             \/ FinishEnroll(a)
    BY <1>0, <1>1, <2>1 DEF EnrollStart, BindListener, ServeCallback, CallbackTimesOut,
       FinishEnroll, Go, Fail, Enrolling, deviceVars
  <2>2. CASE CreateKey(a)
    BY <1>0, <1>1, <2>2, NamesDiffer DEF CreateKey, Go, Fail, Forsake, Enrolling
  <2>3. CASE BeginWrite(a)
    BY <1>0, <1>1, <2>3 DEF BeginWrite, Go, Forsake, Enrolling
  <2>4. CASE FinishWrite(a)
    BY <1>0, <1>1, <2>4, NamesDiffer DEF FinishWrite, Go, Forsake, Enrolling
  <2>5. CASE DeleteOwnKey(a)
    <3>1. using[a] = a
      BY <2>5 DEF DeleteOwnKey, UseFitsPlace, Enrolling
    <3>. QED
      BY <1>0, <1>1, <2>5, <3>1 DEF DeleteOwnKey, DeleteKey, Go, Fail, Forsake, Enrolling
  <2>. QED
    BY <1>3, <2>1, <2>2, <2>3, <2>4, <2>5 DEF Enrolls
<1>4. ASSUME NEW a \in Attempts, Connects(a) PROVE Kept
  <2>1. CASE Prepared(a) \/ ListBefore(a) \/ ClaimCode(a) \/ Look(a) \/ OpenRelay(a)
    BY <1>0, <1>1, <2>1 DEF Prepared, ListBefore, ClaimCode, Look, OpenRelay, Go, Fail,
       Enrolling, deviceVars
  <2>2. CASE Cancel(a)
    <3>1. pc[a] \in Enrolling => using[a] = a
      BY DEF UseFitsPlace
    <3>. QED
      BY <1>0, <1>1, <2>2, <3>1, NamesDiffer DEF Cancel, Go, Forsake, Enrolling, Awaits,
         deviceVars
  <2>. QED
    BY <1>4, <2>1, <2>2 DEF Connects
<1>5. ASSUME Surroundings \/ UNCHANGED vars PROVE Kept
  <2>1. CASE Crash
    <3>1. ASSUME NEW a \in Attempts, pc[a] = "discardKey" \/ pc[a] \in Enrolling, using[a] = k
          PROVE  k \in forsaken' \cup {file'}
      BY <1>0, <2>1, <3>1 DEF Crash, Running, Ends, Forsake, Enrolling, deviceVars
    <3>2. k \in Attempts /\ pc[k] \in Enrolling => using[k] = k
      BY DEF UseFitsPlace
    <3>. QED
      BY <1>0, <1>1, <2>1, <3>1, <3>2 DEF Crash, Forsake, deviceVars
  <2>2. CASE ~Crash
    BY <1>1, <1>5, <2>2 DEF Surroundings, Approve, CallbackRefused, LoseRegistration,
       EnvironmentTurns, deviceVars, vars
  <2>. QED
    BY <2>1, <2>2
<1>. QED
  BY <1>2, <1>3, <1>4, <1>5, NextSplit

LEMMA ArrivalsStayCounted ==
  ASSUME TypeOK, ArrivalsAreCounted, [Next]_vars PROVE ArrivalsAreCounted'
<1>. SUFFICES ASSUME NEW b \in Attempts
              PROVE  /\ pc'[b] \in {"claim", "choose"} => online' \ before'[b] \subseteq arrived'[b]
                     /\ pc'[b] \notin {"relay"} \cup Ends => chosen'[b] = None
  BY DEF ArrivalsAreCounted
<1>. DEFINE Counted ==
       /\ pc'[b] \in {"claim", "choose"} => online' \ before'[b] \subseteq arrived'[b]
       /\ pc'[b] \notin {"relay"} \cup Ends => chosen'[b] = None
<1>0. /\ pc \in [Attempts -> Places] /\ before \in [Attempts -> SUBSET Envs]
      /\ arrived \in [Attempts -> SUBSET Envs] /\ chosen \in [Attempts -> Envs \cup {None}]
      /\ pc[b] \in {"claim", "choose"} => online \ before[b] \subseteq arrived[b]
      /\ pc[b] \notin {"relay"} \cup Ends => chosen[b] = None
  BY DEF TypeOK, ArrivalsAreCounted
<1>1. ASSUME NEW a \in Attempts, Registering(a) PROVE Counted
  BY <1>0, <1>1 DEF Registering, Start, ReadEnrollment, CheckKey, Refresh, DiscardFile,
     DiscardKey, Go, Fail, Ends, serverVars, choiceVars
<1>2. ASSUME NEW a \in Attempts, Enrolls(a) PROVE Counted
  BY <1>0, <1>2 DEF Enrolls, EnrollStart, CreateKey, BindListener, ServeCallback,
     CallbackTimesOut, FinishEnroll, BeginWrite, FinishWrite, DeleteOwnKey, Go, Fail, Ends,
     serverVars, choiceVars
<1>3. ASSUME NEW a \in Attempts, Connects(a) PROVE Counted
  <2>1. CASE Prepared(a) \/ OpenRelay(a) \/ Cancel(a)
    BY <1>0, <2>1 DEF Prepared, OpenRelay, Cancel, Go, Fail, Ends, serverVars, choiceVars
  <2>2. CASE ListBefore(a)
    BY <1>0, <2>2 DEF ListBefore, Go, Fail, Ends, serverVars
  <2>3. CASE ClaimCode(a)
    BY <1>0, <2>3 DEF ClaimCode, Go, Fail, Ends, serverVars
  <2>4. CASE Look(a)
    BY <1>0, <2>4 DEF Look, Go, Fail, Ends, serverVars
  <2>. QED
    BY <1>3, <2>1, <2>2, <2>3, <2>4 DEF Connects
<1>4. ASSUME Surroundings \/ UNCHANGED vars PROVE Counted
  <2>1. CASE EnvironmentTurns
    BY <1>0, <2>1 DEF EnvironmentTurns
  <2>2. CASE ~EnvironmentTurns
    BY <1>0, <1>4, <2>2 DEF Surroundings, Crash, Approve, CallbackRefused, LoseRegistration,
       Ends, serverVars, choiceVars, vars
  <2>. QED
    BY <2>1, <2>2
<1>. QED
  BY <1>1, <1>2, <1>3, <1>4, NextSplit

LEMMA HostStaysTheCodes ==
  ASSUME TypeOK, ArrivalsAreCounted, ConnectsToTheCodesHost, [Next]_vars
  PROVE  ConnectsToTheCodesHost'
<1>. SUFFICES ASSUME NEW b \in Attempts, chosen'[b] # None
              PROVE  chosen'[b] = target'[b] \/ arrived'[b] \ {target'[b]} # {}
  BY DEF ConnectsToTheCodesHost
<1>0. /\ pc \in [Attempts -> Places] /\ arrived \in [Attempts -> SUBSET Envs]
      /\ chosen \in [Attempts -> Envs \cup {None}]
      /\ chosen[b] # None => chosen[b] = target[b] \/ arrived[b] \ {target[b]} # {}
      /\ pc[b] = "choose" => online \ before[b] \subseteq arrived[b]
      /\ pc[b] = "authorized" => chosen[b] = None
  BY DEF TypeOK, ConnectsToTheCodesHost, ArrivalsAreCounted, Ends
<1>1. ASSUME NEW a \in Attempts, Registering(a) \/ Enrolls(a)
      PROVE  UNCHANGED <<target, chosen, arrived>>
  BY <1>1 DEF Registering, Start, ReadEnrollment, CheckKey, Refresh, DiscardFile, DiscardKey,
     Enrolls, EnrollStart, CreateKey, BindListener, ServeCallback, CallbackTimesOut,
     FinishEnroll, BeginWrite, FinishWrite, DeleteOwnKey, choiceVars
<1>2. ASSUME NEW a \in Attempts, Connects(a)
      PROVE  chosen'[b] = target'[b] \/ arrived'[b] \ {target'[b]} # {}
  <2>1. CASE Prepared(a) \/ OpenRelay(a) \/ Cancel(a)
    BY <1>0, <2>1 DEF Prepared, OpenRelay, Cancel, choiceVars
  <2>2. CASE ListBefore(a)
    BY <1>0, <2>2 DEF ListBefore
  <2>3. CASE ClaimCode(a)
    BY <1>0, <2>3 DEF ClaimCode
  <2>4. CASE Look(a)
    BY <1>0, <2>4 DEF Look, FirstPages, Candidates
  <2>. QED
    BY <1>2, <2>1, <2>2, <2>3, <2>4 DEF Connects
<1>3. ASSUME Surroundings \/ UNCHANGED vars
      PROVE  UNCHANGED <<target, chosen>> /\ arrived[b] \subseteq arrived'[b]
  BY <1>0, <1>3 DEF Surroundings, Crash, Approve, CallbackRefused, LoseRegistration,
     EnvironmentTurns, choiceVars, vars
<1>. QED
  BY <1>0, <1>1, <1>2, <1>3, NextSplit

LEMMA CodesStayOwn == ASSUME TypeOK, StepUpIsItsOwn, [Next]_vars PROVE StepUpIsItsOwn'
<1>1. ASSUME NEW a \in Attempts, ServeCallback(a) PROVE StepUpIsItsOwn'
  BY <1>1 DEF ServeCallback, IsExpected, StepUpIsItsOwn, TypeOK
<1>2. ASSUME NEW a \in Attempts, Registering(a) \/ Enrolls(a) \/ Connects(a), ~ServeCallback(a)
      PROVE  UNCHANGED code
  BY <1>2 DEF Registering, Start, ReadEnrollment, CheckKey, Refresh, DiscardFile, DiscardKey,
     Enrolls, EnrollStart, CreateKey, BindListener, CallbackTimesOut,
     FinishEnroll, BeginWrite, FinishWrite, DeleteOwnKey,
     Connects, Prepared, ListBefore, ClaimCode, Look, OpenRelay, Cancel, browserVars
<1>3. ASSUME Surroundings \/ UNCHANGED vars PROVE UNCHANGED code
  BY <1>3 DEF Surroundings, Crash, Approve, CallbackRefused, LoseRegistration,
     EnvironmentTurns, browserVars, vars
<1>. QED
  BY <1>1, <1>2, <1>3, NextSplit DEF StepUpIsItsOwn

(***************************************************************************)
(* The inductive invariant and what follows from it.                       *)
(***************************************************************************)
LEMMA InitInv == Init => IInv
<1>. SUFFICES ASSUME Init PROVE IInv
  OBVIOUS
<1>1. NamesArePublished /\ UseFitsPlace /\ WritesAreUsable
  BY NamesDiffer DEF Init, NamesArePublished, UseFitsPlace, WritesAreUsable, Published, Ends,
     Claimed, Enrolling
<1>2. KeysHaveKeepers /\ RegistrationIsUsable
  BY NamesDiffer DEF Init, KeysHaveKeepers, RegistrationIsUsable
<1>3. ArrivalsAreCounted /\ StepUpIsItsOwn /\ ConnectsToTheCodesHost
  BY DEF Init, ArrivalsAreCounted, StepUpIsItsOwn, ConnectsToTheCodesHost, Ends
<1>. QED
  BY <1>1, <1>2, <1>3, InitTypes DEF IInv

LEMMA NextInv == ASSUME IInv, [Next]_vars PROVE IInv'
BY NextTypes, NamesStayPublished, UseStaysFitting, WritesStayUsable, FileStaysUsable,
   KeysStayKept, ArrivalsStayCounted, HostStaysTheCodes, CodesStayOwn DEF IInv

THEOREM Invariance == Spec => []IInv
<1>1. IInv /\ [Next]_vars => IInv'
  BY NextInv
<1>. QED
  BY InitInv, <1>1, PTL DEF Spec

\* The registration on file names a key the device has and a client the server
\* knows, or one that was lost by itself, whatever attempts do to one file.
THEOREM FileIsUsable == Spec => []RegistrationIsUsable
<1>1. IInv => RegistrationIsUsable
  BY DEF IInv
<1>. QED
  BY Invariance, <1>1, PTL

\* No enrollment, discard, cancel or crash leaves a key nobody accounts for.
THEOREM NoKeyIsOrphaned == Spec => []KeysAreAccountedFor
<1>1. IInv => KeysAreAccountedFor
  BY DEF IInv, KeysHaveKeepers, UseFitsPlace, KeysAreAccountedFor, Running, Enrolling, Ends
<1>. QED
  BY Invariance, <1>1, PTL

\* The step-up code of an attempt is from its own authorize page, however late
\* the pages of other attempts answer and whichever ports are free.
THEOREM CodesAreTheirOwn == Spec => []StepUpIsItsOwn
<1>1. IInv => StepUpIsItsOwn
  BY DEF IInv
<1>. QED
  BY Invariance, <1>1, PTL

\* Without another arrival the environment an attempt connects to is the one
\* whose code was entered, however hosts come and go.
THEOREM TheCodesHostIsChosen == Spec => []ConnectsToTheCodesHost
<1>1. IInv => ConnectsToTheCodesHost
  BY DEF IInv
<1>. QED
  BY Invariance, <1>1, PTL
=============================================================================
