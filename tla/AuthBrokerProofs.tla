--------------------------- MODULE AuthBrokerProofs ---------------------------
(***************************************************************************)
(* Theorems about the authentication broker: type correctness and every    *)
(* safety property of AuthBroker, for any number of attempts, refresh      *)
(* tokens, polls, failures, restarts and stray messages.                   *)
(***************************************************************************)
EXTENDS AuthBroker, SequenceTheorems, TLAPS

(***************************************************************************)
(* Types.                                                                  *)
(***************************************************************************)
LEMMA Bounds == MaxTokens \in Nat /\ PollLimit \in Nat /\ MaxFailures \in Nat
                  /\ MaxCrashes \in Nat /\ MaxNoise \in Nat /\ None \notin Attempts
BY AuthAssumption, NoiseAssumption

Credentials == [kind : {"none", "garbage", "auth"}, valid : BOOLEAN, refresh : Tokens]

LEMMA StoreTypes ==
  /\ NoAuth \in Stores /\ Garbage \in Stores
  /\ \A ok \in BOOLEAN, t \in Tokens : Auth(ok, t) \in Stores
BY DEF Stores

LEMMA StoreFields == Stores \subseteq Credentials
<1>1. 0 \in Tokens
  BY Bounds DEF Tokens
<1>2. NoAuth \in Credentials /\ Garbage \in Credentials
  BY <1>1 DEF NoAuth, Garbage, Credentials
<1>3. \A ok \in BOOLEAN, t \in Tokens : Auth(ok, t) \in Credentials
  BY DEF Auth, Credentials
<1>. QED
  BY <1>2, <1>3 DEF Stores

LEMMA StoreKinds ==
  /\ NoAuth.kind = "none" /\ Garbage.kind = "garbage"
  /\ \A ok, t : Auth(ok, t).kind = "auth" /\ Auth(ok, t).refresh = t
BY DEF NoAuth, Garbage, Auth

LEMMA InitTypes == Init => TypeOK
<1>. SUFFICES ASSUME Init PROVE TypeOK
  OBVIOUS
<1>1. DialogueTypeOK
  BY Bounds DEF Init, DialogueInit, DialogueTypeOK, Stages, Accounts, Verdicts
<1>2. store \in Stores /\ held \in [Attempts -> Stores]
  <2>1. 0 \in Tokens
    BY Bounds DEF Tokens
  <2>. QED
    BY <2>1, StoreTypes DEF Init
<1>3. poll \in [Attempts -> [polls : 0 .. PollLimit, failures : 0 .. MaxFailures]]
  BY Bounds DEF Init, NoPoll
<1>4. live \subseteq Tokens /\ minted \in Tokens /\ crashes \in 0 .. MaxCrashes
  BY Bounds DEF Init, Tokens
<1>. QED
  BY <1>1, <1>2, <1>3, <1>4 DEF Init, TypeOK, OuterTypeOK, Places, Verdicts

\* What a step of the dialogue appends and takes away keeps the types.
LEMMA RequestType ==
  ASSUME DialogueTypeOK, NEW method \in Methods, Request(method)
  PROVE  requested' \in Seq(Methods) /\ toChild' \in Seq([id : Nat, method : Methods])
<1>1. Len(requested) \in Nat /\ requested \in Seq(Methods)
      /\ toChild \in Seq([id : Nat, method : Methods])
  BY DEF DialogueTypeOK
<1>2. [id |-> Len(requested) + 1, method |-> method] \in [id : Nat, method : Methods]
  BY <1>1
<1>. QED
  BY <1>1, <1>2, AppendProperties DEF Request

LEMMA MessageTypes ==
  /\ \A i \in Nat, r \in Results : Answer(i, r) \in Messages
  /\ Completed("ok") \in Messages /\ Completed("error") \in Messages
  /\ Elsewhere \in Messages /\ Ask \in Messages
BY DEF Messages, Results, Answer, Completed, Elsewhere, Ask

LEMMA BrokerTypes == ASSUME DialogueTypeOK, Broker PROVE DialogueTypeOK'
<1>0. HasLine => Tail(toBroker) \in Seq(Messages)
  BY DEF DialogueTypeOK, HasLine
<1>1. CASE ReadAnswer
  <2>1. requested' \in Seq(Methods) /\ toChild' \in Seq([id : Nat, method : Methods])
    BY <1>1, RequestType DEF ReadAnswer, NoRequest, Return, DialogueTypeOK, Methods
  <2>2. stage' \in Stages /\ verdict' \in Verdicts
    BY <1>1 DEF ReadAnswer, Return, Failure, DialogueTypeOK, Stages, Verdicts
  <2>. QED
    BY <1>0, <1>1, <2>1, <2>2 DEF ReadAnswer, IsAnswer, DialogueTypeOK
<1>2. CASE ReadOther
  BY <1>0, <1>2 DEF ReadOther, DialogueTypeOK
<1>3. CASE ReadCompleted
  <2>1. requested' \in Seq(Methods) /\ toChild' \in Seq([id : Nat, method : Methods])
    BY <1>3, RequestType DEF ReadCompleted, NoRequest, DialogueTypeOK, Methods
  <2>. QED
    BY <1>0, <1>3, <2>1 DEF ReadCompleted, Return, DialogueTypeOK, Stages, Verdicts
<1>4. CASE ReadEnd \/ RpcTimesOut
  BY <1>4 DEF ReadEnd, RpcTimesOut, Return, Failure, DialogueTypeOK, Stages, Verdicts
<1>5. CASE EndWait \/ LoginTimesOut
  <2>1. requested' \in Seq(Methods) /\ toChild' \in Seq([id : Nat, method : Methods])
    BY <1>5, RequestType DEF EndWait, LoginTimesOut, Methods
  <2>. QED
    BY <1>5, <2>1 DEF EndWait, LoginTimesOut, DialogueTypeOK, Stages
<1>. QED
  BY <1>1, <1>2, <1>3, <1>4, <1>5 DEF Broker

LEMMA ChildTypes == ASSUME DialogueTypeOK, Child PROVE DialogueTypeOK'
<1>1. CASE ChildAnswers
  <2>1. Head(toChild).id \in Nat /\ Tail(toChild) \in Seq([id : Nat, method : Methods])
    <3>1. toChild \in Seq([id : Nat, method : Methods]) /\ toChild # << >>
      BY <1>1 DEF ChildAnswers, DialogueTypeOK
    <3>2. Head(toChild) \in [id : Nat, method : Methods]
          /\ Tail(toChild) \in Seq([id : Nat, method : Methods])
      BY <3>1, HeadTailProperties
    <3>. QED
      BY <3>2
  <2>2. toBroker' \in Seq(Messages)
    <3>1. \E r \in Results : toBroker' = Append(toBroker, Answer(Head(toChild).id, r))
      BY <1>1 DEF ChildAnswers, DialogueTypeOK, Results
    <3>. QED
      BY <2>1, <3>1, MessageTypes DEF DialogueTypeOK
  <2>3. login' \in {"none", "pending", "succeeded", "failed", "cancelled"}
    BY <1>1 DEF ChildAnswers, DialogueTypeOK
  <2>. QED
    BY <1>1, <2>1, <2>2, <2>3 DEF ChildAnswers, DialogueTypeOK
<1>2. CASE LoginEnds
  <2>1. toBroker' \in Seq(Messages)
    <3>1. toBroker \in Seq(Messages)
      BY DEF DialogueTypeOK
    <3>2. /\ Append(toBroker, Completed("ok")) \in Seq(Messages)
          /\ Append(toBroker, Completed("error")) \in Seq(Messages)
      BY <3>1, MessageTypes
    <3>. QED
      BY <1>2, <3>2 DEF LoginEnds
  <2>. QED
    BY <1>2, <2>1 DEF LoginEnds, DialogueTypeOK, Accounts
<1>3. CASE ChildSpeaks
  <2>1. toBroker' \in Seq(Messages)
    BY <1>3, MessageTypes DEF ChildSpeaks, DialogueTypeOK
  <2>2. noise' \in 0 .. MaxNoise
    BY <1>3, Bounds DEF ChildSpeaks, DialogueTypeOK
  <2>. QED
    BY <1>3, <2>1, <2>2 DEF ChildSpeaks, DialogueTypeOK
<1>4. CASE ChildEnds
  BY <1>4 DEF ChildEnds, DialogueTypeOK
<1>. QED
  BY <1>1, <1>2, <1>3, <1>4 DEF Child

LEMMA OpenTypes == ASSUME DialogueTypeOK, OpenDialogue \/ CloseDialogue PROVE DialogueTypeOK'
<1>1. CASE OpenDialogue
  <2>1. requested' \in Seq(Methods) /\ toChild' \in Seq([id : Nat, method : Methods])
        /\ toBroker' \in Seq(Messages)
    BY <1>1 DEF OpenDialogue, Methods
  <2>. QED
    BY <1>1, <2>1 DEF OpenDialogue, DialogueTypeOK, Stages
<1>2. CASE CloseDialogue
  BY <1>2 DEF CloseDialogue, DialogueTypeOK, Stages, Accounts, Verdicts
<1>. QED
  BY <1>1, <1>2

LEMMA DialogueUnchanged ==
  ASSUME DialogueTypeOK, UNCHANGED dialogueVars PROVE DialogueTypeOK'
BY DEF DialogueTypeOK, dialogueVars

LEMMA EndTypes ==
  ASSUME OuterTypeOK, NEW a \in Attempts, NEW o \in Verdicts, End(a, o)
  PROVE  /\ pc' \in [Attempts -> Places] /\ outcome' \in [Attempts -> Verdicts]
         /\ lock' \in Attempts \cup {None}
BY DEF OuterTypeOK, End, Go, Places

LEMMA GoTypes ==
  ASSUME OuterTypeOK, NEW a \in Attempts, NEW to \in Places, Go(a, to), Stay
  PROVE  /\ pc' \in [Attempts -> Places] /\ outcome' \in [Attempts -> Verdicts]
         /\ lock' \in Attempts \cup {None}
BY DEF OuterTypeOK, Go, Stay

LEMMA MintTypes ==
  ASSUME OuterTypeOK, NEW old \in SUBSET Tokens, Mint(old)
  PROVE  live' \subseteq Tokens /\ minted' \in Tokens
<1>1. CASE minted < MaxTokens /\ minted' = minted + 1 /\ live' = (live \ old) \cup {minted + 1}
  <2>1. minted + 1 \in Tokens
    BY <1>1, Bounds DEF OuterTypeOK, Tokens
  <2>. QED
    BY <1>1, <2>1 DEF OuterTypeOK
<1>2. CASE UNCHANGED <<minted, live>>
  BY <1>2 DEF OuterTypeOK
<1>. QED
  BY <1>1, <1>2 DEF Mint

LEMMA GrantedLive ==
  ASSUME OuterTypeOK, NEW t \in live, Mint({t})
  PROVE  Granted({t}) \in live' /\ Granted({t}) \in Tokens
<1>1. (CHOOSE u \in {t} : TRUE) = t
  OBVIOUS
<1>. QED
  BY <1>1, Bounds DEF OuterTypeOK, Mint, Granted, Tokens

Queues(a) == Begin(a) \/ Cancel(a) \/ CancelSeen(a) \/ TakeLock(a) \/ Drop(a)
               \/ StartDialogue(a) \/ EndDialogue(a)
Stored(a) == LoadAuth(a) \/ RefreshAnswered(a) \/ RefreshRefused(a) \/ RefreshFails(a)
               \/ StoreAuth(a) \/ ClearAuth(a)
LogsIn(a) == Gate(a) \/ RequestCode(a) \/ Poll(a) \/ Exchange(a)
Talks == DialogueStep \/ ChildStep
Surroundings == TokenExpires \/ Revoke \/ Crash

LEMMA NextSplit ==
  ASSUME [Next]_vars
  PROVE  \/ \E a \in Attempts : Queues(a) \/ Stored(a) \/ LogsIn(a)
         \/ Talks \/ Surroundings \/ UNCHANGED vars
BY DEF Next, Step, Queues, Stored, LogsIn, Talks, Surroundings

LEMMA QueueTypes == ASSUME TypeOK, NEW a \in Attempts, Queues(a) PROVE TypeOK'
<1>0. DialogueTypeOK /\ OuterTypeOK
  BY DEF TypeOK
<1>1. ASSUME UNCHANGED dialogueVars PROVE DialogueTypeOK'
  BY <1>0, <1>1, DialogueUnchanged
<1>2. CASE Begin(a)
  BY <1>0, <1>1, <1>2 DEF TypeOK, Begin, Go, OuterTypeOK, Places, storeVars, issuerVars
<1>3. CASE Cancel(a)
  BY <1>0, <1>1, <1>3 DEF TypeOK, Cancel, OuterTypeOK, storeVars, issuerVars
<1>4. CASE CancelSeen(a)
  BY <1>0, <1>1, <1>4, EndTypes
  DEF TypeOK, CancelSeen, OuterTypeOK, Verdicts, storeVars, issuerVars
<1>5. CASE TakeLock(a)
  <2>1. CASE End(a, "cancelled")
    BY <1>0, <1>1, <1>5, <2>1, EndTypes
    DEF TypeOK, TakeLock, OuterTypeOK, Verdicts, storeVars, issuerVars
  <2>2. CASE ~End(a, "cancelled")
    BY <1>0, <1>1, <1>5, <2>2
    DEF TypeOK, TakeLock, Go, OuterTypeOK, Places, storeVars, issuerVars
  <2>. QED
    BY <2>1, <2>2
<1>6. CASE Drop(a)
  <2>1. DialogueTypeOK'
    BY <1>0, <1>1, <1>6, OpenTypes DEF Drop
  <2>. QED
    BY <1>0, <1>6, <2>1, EndTypes
    DEF TypeOK, Drop, OuterTypeOK, Verdicts, storeVars, issuerVars
<1>7. CASE StartDialogue(a)
  <2>1. DialogueTypeOK'
    BY <1>0, <1>1, <1>7, OpenTypes DEF StartDialogue
  <2>2. /\ pc' \in [Attempts -> Places] /\ outcome' \in [Attempts -> Verdicts]
        /\ lock' \in Attempts \cup {None}
    BY <1>0, <1>7, EndTypes, GoTypes DEF StartDialogue, Verdicts, Places
  <2>. QED
    BY <1>0, <1>7, <2>1, <2>2 DEF TypeOK, StartDialogue, OuterTypeOK, storeVars, issuerVars
<1>8. CASE EndDialogue(a)
  <2>1. DialogueTypeOK' /\ verdict \in Verdicts
    BY <1>0, <1>8, OpenTypes DEF EndDialogue, DialogueTypeOK
  <2>. QED
    BY <1>0, <1>8, <2>1, EndTypes
    DEF TypeOK, EndDialogue, OuterTypeOK, storeVars, issuerVars
<1>. QED
  BY <1>2, <1>3, <1>4, <1>5, <1>6, <1>7, <1>8 DEF Queues

LEMMA StoredTypes == ASSUME TypeOK, NEW a \in Attempts, Stored(a) PROVE TypeOK'
<1>0. OuterTypeOK
  BY DEF TypeOK
<1>1. DialogueTypeOK'
  BY DialogueUnchanged DEF TypeOK, Stored, LoadAuth, RefreshAnswered, RefreshRefused,
     RefreshFails, StoreAuth, ClearAuth
<1>2. /\ pc' \in [Attempts -> Places] /\ outcome' \in [Attempts -> Verdicts]
      /\ lock' \in Attempts \cup {None}
  <2>1. ASSUME NEW to \in Places, Go(a, to) /\ Stay
        PROVE  /\ pc' \in [Attempts -> Places] /\ outcome' \in [Attempts -> Verdicts]
               /\ lock' \in Attempts \cup {None}
    BY <1>0, <2>1, GoTypes
  <2>2. ASSUME NEW o \in Verdicts, End(a, o)
        PROVE  /\ pc' \in [Attempts -> Places] /\ outcome' \in [Attempts -> Verdicts]
               /\ lock' \in Attempts \cup {None}
    BY <1>0, <2>2, EndTypes
  <2>. QED
    BY <2>1, <2>2 DEF Stored, LoadAuth, RefreshAnswered, RefreshRefused, RefreshFails,
       StoreAuth, ClearAuth, Places, Verdicts
<1>3. store.refresh \in Tokens /\ {NoAuth, held[a], store} \subseteq Stores
      /\ held[a].refresh \in Tokens
  <2>1. {NoAuth, held[a], store} \subseteq Stores
    BY <1>0, StoreTypes DEF OuterTypeOK
  <2>2. store \in Credentials /\ held[a] \in Credentials
    BY <2>1, StoreFields
  <2>. QED
    BY <2>1, <2>2 DEF Credentials
<1>4. ASSUME Forgive PROVE forgiven' \subseteq Tokens
  BY <1>0, <1>3, <1>4 DEF Forgive, OuterTypeOK
<1>5. CASE LoadAuth(a)
  BY <1>0, <1>1, <1>2, <1>3, <1>5 DEF TypeOK, LoadAuth, OuterTypeOK, issuerVars
<1>6. CASE RefreshAnswered(a)
  <2>1. live' \subseteq Tokens /\ minted' \in Tokens
    BY <1>0, <1>3, <1>6, MintTypes DEF RefreshAnswered
  <2>2. Granted({held[a].refresh}) \in Tokens
    BY <1>0, <1>6, GrantedLive DEF RefreshAnswered
  <2>3. held' \in [Attempts -> Stores]
    BY <1>0, <1>6, <2>2, StoreTypes DEF RefreshAnswered, OuterTypeOK
  <2>4. unrenewed' \subseteq Tokens
    BY <1>0, <1>3, <1>6 DEF RefreshAnswered, NotRenewed, OuterTypeOK
  <2>. QED
    BY <1>0, <1>1, <1>2, <1>6, <2>1, <2>3, <2>4
    DEF TypeOK, RefreshAnswered, OuterTypeOK, storeVars
<1>7. CASE RefreshRefused(a)
  BY <1>0, <1>1, <1>2, <1>3, <1>7
  DEF TypeOK, RefreshRefused, NotRenewed, OuterTypeOK, storeVars
<1>8. CASE RefreshFails(a)
  <2>1. /\ live' \subseteq Tokens /\ minted' \in Tokens
        /\ forgiven' \subseteq Tokens /\ unrenewed' \subseteq Tokens
    <3>1. CASE UNCHANGED issuerVars
      BY <1>0, <3>1 DEF OuterTypeOK, issuerVars
    <3>2. CASE /\ Mint({held[a].refresh}) /\ forgiven' = forgiven \cup {held[a].refresh}
               /\ UNCHANGED unrenewed
      BY <1>0, <1>3, <3>2, MintTypes DEF OuterTypeOK
    <3>. QED
      BY <1>8, <3>1, <3>2 DEF RefreshFails
  <2>. QED
    BY <1>0, <1>1, <1>2, <1>8, <2>1 DEF TypeOK, RefreshFails, OuterTypeOK, storeVars
<1>9. CASE StoreAuth(a)
  BY <1>0, <1>1, <1>2, <1>3, <1>4, <1>9 DEF TypeOK, StoreAuth, OuterTypeOK
<1>10. CASE ClearAuth(a)
  BY <1>0, <1>1, <1>2, <1>3, <1>4, <1>10 DEF TypeOK, ClearAuth, OuterTypeOK
<1>. QED
  BY <1>5, <1>6, <1>7, <1>8, <1>9, <1>10 DEF Stored

LEMMA LoginTypes == ASSUME TypeOK, NEW a \in Attempts, LogsIn(a) PROVE TypeOK'
<1>0. OuterTypeOK
  BY DEF TypeOK
<1>1. DialogueTypeOK'
  BY DialogueUnchanged DEF TypeOK, LogsIn, Gate, RequestCode, Poll, Exchange
<1>2. /\ pc' \in [Attempts -> Places] /\ outcome' \in [Attempts -> Verdicts]
      /\ lock' \in Attempts \cup {None}
  <2>1. ASSUME NEW to \in Places, Go(a, to) /\ Stay
        PROVE  /\ pc' \in [Attempts -> Places] /\ outcome' \in [Attempts -> Verdicts]
               /\ lock' \in Attempts \cup {None}
    BY <1>0, <2>1, GoTypes
  <2>2. ASSUME NEW o \in Verdicts, End(a, o)
        PROVE  /\ pc' \in [Attempts -> Places] /\ outcome' \in [Attempts -> Verdicts]
               /\ lock' \in Attempts \cup {None}
    BY <1>0, <2>2, EndTypes
  <2>3. ASSUME UNCHANGED pc, Stay
        PROVE  /\ pc' \in [Attempts -> Places] /\ outcome' \in [Attempts -> Verdicts]
               /\ lock' \in Attempts \cup {None}
    BY <1>0, <2>3 DEF OuterTypeOK, Stay
  <2>. QED
    BY <2>1, <2>2, <2>3 DEF LogsIn, Gate, RequestCode, Poll, Pending, Transient, Exchange,
       Places, Verdicts
<1>3. CASE Gate(a) \/ RequestCode(a)
  BY <1>0, <1>1, <1>2, <1>3 DEF TypeOK, Gate, RequestCode, OuterTypeOK, storeVars, issuerVars
<1>4. CASE Poll(a)
  <2>1. ASSUME NEW f \in 0 .. MaxFailures, Waited(a, f), ~Elapsed(a)
        PROVE  poll' \in [Attempts -> [polls : 0 .. PollLimit, failures : 0 .. MaxFailures]]
    BY <1>0, <2>1, Bounds DEF Waited, Elapsed, OuterTypeOK
  <2>2. poll[a].failures \in Nat
    BY <1>0, Bounds DEF OuterTypeOK
  <2>3. poll[a].failures < MaxFailures => poll[a].failures + 1 \in 0 .. MaxFailures
    BY <2>2, Bounds
  <2>4. poll' \in [Attempts -> [polls : 0 .. PollLimit, failures : 0 .. MaxFailures]]
    <3>1. CASE UNCHANGED poll
      BY <1>0, <3>1 DEF OuterTypeOK
    <3>2. CASE Waited(a, 0) /\ ~Elapsed(a)
      BY <2>1, <3>2, Bounds
    <3>3. CASE Waited(a, poll[a].failures + 1) /\ poll[a].failures < MaxFailures /\ ~Elapsed(a)
      BY <2>1, <2>3, <3>3
    <3>. QED
      BY <1>4, <3>1, <3>2, <3>3 DEF Poll, Pending, Transient
  <2>. QED
    BY <1>0, <1>1, <1>2, <1>4, <2>4 DEF TypeOK, Poll, OuterTypeOK, storeVars, issuerVars
<1>5. CASE Exchange(a)
  <2>1. live' \subseteq Tokens /\ minted' \in Tokens /\ held' \in [Attempts -> Stores]
    <3>1. CASE Mint({}) /\ held' = [held EXCEPT ![a] = Auth(TRUE, minted')]
      <4>1. live' \subseteq Tokens /\ minted' \in Tokens
        BY <1>0, <3>1, MintTypes
      <4>. QED
        BY <1>0, <3>1, <4>1, StoreTypes DEF OuterTypeOK
    <3>2. CASE UNCHANGED <<held, live, minted>>
      BY <1>0, <3>2 DEF OuterTypeOK
    <3>. QED
      BY <1>5, <3>1, <3>2 DEF Exchange
  <2>. QED
    BY <1>0, <1>1, <1>2, <1>5, <2>1 DEF TypeOK, Exchange, OuterTypeOK, storeVars
<1>. QED
  BY <1>3, <1>4, <1>5 DEF LogsIn

LEMMA SurroundingTypes ==
  ASSUME TypeOK, Talks \/ Surroundings \/ UNCHANGED vars PROVE TypeOK'
<1>0. DialogueTypeOK /\ OuterTypeOK
  BY DEF TypeOK
<1>1. CASE Talks
  <2>1. DialogueTypeOK'
    BY <1>0, <1>1, BrokerTypes, ChildTypes DEF Talks, DialogueStep, ChildStep, Broker
  <2>. QED
    BY <1>0, <1>1, <2>1 DEF TypeOK, Talks, DialogueStep, ChildStep, OuterTypeOK,
       attemptVars, storeVars, issuerVars
<1>2. CASE TokenExpires
  <2>1. DialogueTypeOK' /\ store' \in Stores
    BY <1>0, <1>2, DialogueUnchanged, StoreTypes, StoreFields
    DEF TokenExpires, OuterTypeOK, Credentials
  <2>. QED
    BY <1>0, <1>2, <2>1 DEF TypeOK, TokenExpires, OuterTypeOK, attemptVars, issuerVars
<1>3. CASE Revoke
  <2>1. DialogueTypeOK'
    BY <1>0, <1>3, DialogueUnchanged DEF Revoke
  <2>. QED
    BY <1>0, <1>3, <2>1 DEF TypeOK, Revoke, OuterTypeOK, attemptVars, storeVars
<1>4. CASE Crash
  <2>1. DialogueTypeOK'
    BY <1>0, <1>4, OpenTypes DEF Crash
  <2>2. crashes' \in 0 .. MaxCrashes
    BY <1>0, <1>4, Bounds DEF Crash, OuterTypeOK
  <2>3. forgiven' \subseteq Tokens
    BY <1>0, <1>4, StoreFields DEF Crash, Forgive, OuterTypeOK, Credentials
  <2>. QED
    BY <1>0, <1>4, <2>1, <2>2, <2>3
    DEF TypeOK, Crash, OuterTypeOK, Places, Verdicts, storeVars
<1>5. CASE UNCHANGED vars
  <2>1. DialogueTypeOK'
    BY <1>0, <1>5, DialogueUnchanged DEF vars
  <2>. QED
    BY <1>0, <1>5, <2>1 DEF TypeOK, vars, OuterTypeOK, attemptVars, storeVars, issuerVars
<1>. QED
  BY <1>1, <1>2, <1>3, <1>4, <1>5 DEF Surroundings

LEMMA NextTypes == ASSUME TypeOK, [Next]_vars PROVE TypeOK'
BY NextSplit, QueueTypes, StoredTypes, LoginTypes, SurroundingTypes

\* Every variable keeps its type; polls and transient failures stay within
\* their limits.
THEOREM TypeCorrect == Spec => []TypeOK
<1>1. TypeOK /\ [Next]_vars => TypeOK'
  BY NextTypes
<1>. QED
  BY InitTypes, <1>1, PTL DEF Spec

(***************************************************************************)
(* The lock: exactly the attempt that holds it is between taking it and    *)
(* its return.                                                             *)
(***************************************************************************)
Inside == {"start", "dialogue", "load", "refresh", "store", "clear", "gate", "code", "poll",
           "exchange"}

LockIsExact == \A a \in Attempts : pc[a] \in Inside <=> lock = a

LEMMA EndLetsGo ==
  ASSUME TypeOK, LockIsExact, NEW a \in Attempts, NEW o, End(a, o)
  PROVE  LockIsExact' /\ \A b \in Attempts \ {a} : pc'[b] = pc[b]
BY Bounds DEF TypeOK, OuterTypeOK, LockIsExact, End, Go, Inside

LEMMA GoStaysInside ==
  ASSUME TypeOK, LockIsExact, NEW a \in Attempts, pc[a] \in Inside, NEW to \in Inside,
         Go(a, to), Stay
  PROVE  LockIsExact' /\ \A b \in Attempts \ {a} : pc'[b] = pc[b]
BY DEF TypeOK, OuterTypeOK, LockIsExact, Go, Stay

LEMMA LockStaysExact == ASSUME TypeOK, LockIsExact, [Next]_vars PROVE LockIsExact'
<1>0. pc \in [Attempts -> Places]
  BY DEF TypeOK, OuterTypeOK
<1>1. ASSUME NEW a \in Attempts, Queues(a) PROVE LockIsExact'
  <2>1. CASE Begin(a)
    BY <1>0, <2>1 DEF Begin, Go, LockIsExact, Inside
  <2>2. CASE Cancel(a)
    BY <2>2 DEF Cancel, LockIsExact
  <2>3. CASE CancelSeen(a) \/ Drop(a) \/ EndDialogue(a)
    BY <2>3, EndLetsGo DEF CancelSeen, Drop, EndDialogue
  <2>4. CASE TakeLock(a)
    <3>1. CASE End(a, "cancelled")
      BY <3>1, EndLetsGo
    <3>2. CASE ~End(a, "cancelled")
      BY <1>0, <2>4, <3>2, Bounds DEF TakeLock, Go, LockIsExact, Inside
    <3>. QED
      BY <3>1, <3>2
  <2>5. CASE StartDialogue(a)
    BY <2>5, EndLetsGo, GoStaysInside DEF StartDialogue, Inside
  <2>. QED
    BY <1>1, <2>1, <2>2, <2>3, <2>4, <2>5 DEF Queues
<1>2. ASSUME NEW a \in Attempts, Stored(a) PROVE LockIsExact'
  BY <1>2, EndLetsGo, GoStaysInside DEF Stored, LoadAuth, RefreshAnswered, RefreshRefused,
     RefreshFails, StoreAuth, ClearAuth, Inside
<1>3. ASSUME NEW a \in Attempts, LogsIn(a) PROVE LockIsExact'
  <2>1. CASE UNCHANGED <<pc, lock>>
    BY <2>1 DEF LockIsExact
  <2>. QED
    BY <1>3, <2>1, EndLetsGo, GoStaysInside DEF LogsIn, Gate, RequestCode, Poll, Pending,
       Transient, Exchange, Stay, Inside
<1>4. ASSUME Talks \/ Surroundings \/ UNCHANGED vars PROVE LockIsExact'
  <2>1. CASE Crash
    BY <1>0, <2>1, Bounds DEF Crash, LockIsExact, Inside
  <2>2. CASE ~Crash
    BY <1>4, <2>2 DEF Talks, DialogueStep, ChildStep, Surroundings, TokenExpires, Revoke,
       LockIsExact, attemptVars, vars
  <2>. QED
    BY <2>1, <2>2
<1>. QED
  BY <1>1, <1>2, <1>3, <1>4, NextSplit

(***************************************************************************)
(* The credentials: what the attempt in refresh_stored_auth holds is what  *)
(* is stored, for nobody else can have changed it; what it stores next is  *)
(* what the issuer gave it; what it clears or overwrites with garbage was  *)
(* not renewed.                                                            *)
(***************************************************************************)
Carries(b) ==
  /\ pc[b] = "refresh" => store.kind = "auth" /\ held[b].refresh = store.refresh
  /\ pc[b] = "store" /\ held[b].kind = "auth" => held[b].refresh \in live \cup forgiven
  /\ pc[b] = "store" /\ held[b].kind # "auth" => store.refresh \in unrenewed
  /\ pc[b] = "clear" => store.refresh \in unrenewed

CarriesRight == \A b \in Attempts : Carries(b)

\* A step of another attempt inside finds this one outside.
LEMMA OnlyOneInside ==
  ASSUME TypeOK, LockIsExact, NEW a \in Attempts, NEW b \in Attempts \ {a},
         Stored(a) \/ LogsIn(a)
  PROVE  pc[b] \notin Inside /\ pc'[b] = pc[b]
<1>0. pc \in [Attempts -> Places]
  BY DEF TypeOK, OuterTypeOK
<1>1. pc[a] \in Inside
  BY DEF Stored, LoadAuth, RefreshAnswered, RefreshRefused, RefreshFails, StoreAuth,
     ClearAuth, LogsIn, Gate, RequestCode, Poll, Exchange, Inside
<1>2. pc'[b] = pc[b]
  BY <1>0 DEF Stored, LoadAuth, RefreshAnswered, RefreshRefused, RefreshFails, StoreAuth,
     ClearAuth, LogsIn, Gate, RequestCode, Poll, Pending, Transient, Exchange, End, Go
<1>. QED
  BY <1>1, <1>2 DEF LockIsExact

LEMMA CarriesStaysRight ==
  ASSUME TypeOK, LockIsExact, CarriesRight, [Next]_vars PROVE CarriesRight'
<1>. SUFFICES ASSUME NEW b \in Attempts PROVE Carries(b)'
  BY DEF CarriesRight
<1>0. /\ pc \in [Attempts -> Places] /\ held \in [Attempts -> Stores] /\ Carries(b)
  BY DEF TypeOK, OuterTypeOK, CarriesRight
<1>1. ASSUME pc'[b] \notin {"refresh", "store", "clear"} PROVE Carries(b)'
  BY <1>1 DEF Carries
<1>2. ASSUME UNCHANGED <<held, store, live, forgiven, unrenewed>>, pc'[b] = pc[b]
      PROVE  Carries(b)'
  BY <1>0, <1>2 DEF Carries
<1>3. ASSUME NEW a \in Attempts, Queues(a) PROVE Carries(b)'
  <2>1. UNCHANGED <<held, store, live, forgiven, unrenewed>>
    BY <1>3 DEF Queues, Begin, Cancel, CancelSeen, TakeLock, Drop, StartDialogue, EndDialogue,
       storeVars, issuerVars
  <2>2. pc'[b] \in {pc[b], "lock", "over", "load", "start", "dialogue"}
    BY <1>0, <1>3 DEF Queues, Begin, Cancel, CancelSeen, TakeLock, Drop, StartDialogue,
       EndDialogue, End, Go
  <2>. QED
    BY <1>1, <1>2, <2>1, <2>2
<1>4. ASSUME NEW a \in Attempts, a # b, Stored(a) \/ LogsIn(a) PROVE Carries(b)'
  BY <1>1, <1>4, OnlyOneInside DEF Inside
<1>5. ASSUME Stored(b) PROVE Carries(b)'
  <2>1. CASE LoadAuth(b)
    BY <1>0, <2>1 DEF LoadAuth, End, Go, Carries
  <2>2. CASE RefreshAnswered(b)
    <3>1. OuterTypeOK /\ held[b].refresh \in live /\ Mint({held[b].refresh})
      BY <2>2 DEF RefreshAnswered, TypeOK
    <3>2. Granted({held[b].refresh}) \in live'
      BY <3>1, GrantedLive
    <3>3. CASE held' = [held EXCEPT ![b] = Auth(TRUE, Granted({held[b].refresh}))]
               /\ Go(b, "store")
      <4>1. held'[b].kind = "auth" /\ held'[b].refresh \in live'
        BY <1>0, <3>2, <3>3, StoreKinds
      <4>. QED
        BY <1>0, <3>3, <4>1 DEF Go, Carries
    <3>4. CASE held' = [held EXCEPT ![b] = Garbage] /\ Go(b, "store") /\ NotRenewed(b)
      BY <1>0, <2>2, <3>4, StoreKinds DEF RefreshAnswered, Go, NotRenewed, Carries, storeVars
    <3>5. CASE UNCHANGED held /\ Go(b, "clear") /\ NotRenewed(b)
      BY <1>0, <2>2, <3>5 DEF RefreshAnswered, Go, NotRenewed, Carries, storeVars
    <3>. QED
      BY <2>2, <3>3, <3>4, <3>5 DEF RefreshAnswered
  <2>3. CASE RefreshRefused(b)
    BY <1>0, <2>3 DEF RefreshRefused, NotRenewed, Go, Carries, storeVars
  <2>4. CASE RefreshFails(b)
    BY <1>0, <1>1, <2>4 DEF RefreshFails, End, Go
  <2>5. CASE StoreAuth(b)
    BY <1>0, <1>1, <2>5 DEF StoreAuth, End, Go
  <2>6. CASE ClearAuth(b)
    BY <1>0, <1>1, <2>6 DEF ClearAuth, End, Go
  <2>. QED
    BY <1>5, <2>1, <2>2, <2>3, <2>4, <2>5, <2>6 DEF Stored
<1>6. ASSUME LogsIn(b) PROVE Carries(b)'
  <2>1. CASE Gate(b) \/ RequestCode(b) \/ Poll(b)
    <3>1. pc'[b] \notin {"refresh", "store", "clear"}
      BY <1>0, <2>1 DEF Gate, RequestCode, Poll, Pending, Transient, End, Go
    <3>. QED
      BY <1>1, <3>1
  <2>2. CASE Exchange(b)
    <3>1. CASE pc'[b] = "store"
      <4>1. Mint({}) /\ held' = [held EXCEPT ![b] = Auth(TRUE, minted')]
        BY <1>0, <2>2, <3>1 DEF Exchange, End, Go
      <4>2. minted' \in live'
        BY <4>1 DEF Mint
      <4>3. held'[b].kind = "auth" /\ held'[b].refresh \in live'
        BY <1>0, <4>1, <4>2, StoreKinds
      <4>. QED
        BY <3>1, <4>3 DEF Carries
    <3>2. CASE pc'[b] # "store"
      <4>1. pc'[b] = "over"
        BY <1>0, <2>2, <3>2 DEF Exchange, End, Go
      <4>. QED
        BY <1>1, <4>1
    <3>. QED
      BY <3>1, <3>2
  <2>. QED
    BY <1>6, <2>1, <2>2 DEF LogsIn
<1>7. ASSUME Talks \/ Surroundings \/ UNCHANGED vars PROVE Carries(b)'
  <2>1. CASE Talks \/ UNCHANGED vars
    BY <1>2, <2>1 DEF Talks, DialogueStep, ChildStep, vars, attemptVars, storeVars, issuerVars
  <2>2. CASE TokenExpires
    <3>1. store'.kind = "auth" /\ store'.refresh = store.refresh
      BY <2>2, StoreKinds DEF TokenExpires
    <3>. QED
      BY <1>0, <2>2, <3>1 DEF TokenExpires, Carries, attemptVars, issuerVars
  <2>3. CASE Revoke
    BY <1>0, <2>3 DEF Revoke, Carries, attemptVars, storeVars
  <2>4. CASE Crash
    BY <1>0, <1>1, <2>4 DEF Crash
  <2>. QED
    BY <1>7, <2>1, <2>2, <2>3, <2>4 DEF Surroundings
<1>. QED
  BY <1>3, <1>4, <1>5, <1>6, <1>7, NextSplit

LEMMA TokenStaysLive ==
  ASSUME TypeOK, LockIsExact, CarriesRight, StoredTokenIsLive, [Next]_vars
  PROVE  StoredTokenIsLive'
<1>. SUFFICES ASSUME store'.kind = "auth"
              PROVE  \/ store'.refresh \in live' \cup forgiven'
                     \/ \E a \in Attempts : pc'[a] \in {"store", "clear"}
  BY DEF StoredTokenIsLive
<1>. DEFINE Live == \/ store'.refresh \in live' \cup forgiven'
                    \/ \E a \in Attempts : pc'[a] \in {"store", "clear"}
<1>0. /\ pc \in [Attempts -> Places] /\ held \in [Attempts -> Stores]
      /\ store.kind = "auth" => \/ store.refresh \in live \cup forgiven
                                \/ \E a \in Attempts : pc[a] \in {"store", "clear"}
  BY DEF TypeOK, OuterTypeOK, StoredTokenIsLive
<1>1. ASSUME NEW a \in Attempts, Queues(a) PROVE Live
  <2>1. UNCHANGED <<store, live, forgiven>>
    BY <1>1 DEF Queues, Begin, Cancel, CancelSeen, TakeLock, Drop, StartDialogue, EndDialogue,
       storeVars, issuerVars
  <2>2. \A b \in Attempts : pc[b] \in {"store", "clear"} => pc'[b] = pc[b]
    BY <1>0, <1>1 DEF Queues, Begin, Cancel, CancelSeen, Listens, TakeLock, Drop, Awaits,
       StartDialogue, EndDialogue, End, Go
  <2>. QED
    BY <1>0, <2>1, <2>2
<1>2. ASSUME NEW a \in Attempts, Stored(a) PROVE Live
  <2>0. ASSUME pc[a] \notin {"store", "clear"}, store.kind = "auth"
        PROVE  store.refresh \in live \cup forgiven
    <3>1. \A b \in Attempts \ {a} : pc[b] \notin {"store", "clear"}
      BY <1>2, OnlyOneInside DEF Inside
    <3>. QED
      BY <1>0, <2>0, <3>1
  <2>1. CASE LoadAuth(a)
    BY <2>0, <2>1, StoreKinds DEF LoadAuth, issuerVars
  <2>2. CASE RefreshAnswered(a) \/ RefreshRefused(a)
    BY <1>0, <2>2 DEF RefreshAnswered, RefreshRefused, Go
  <2>3. CASE RefreshFails(a)
    <3>1. store.kind = "auth" /\ held[a].refresh = store.refresh /\ UNCHANGED store
      BY <2>3 DEF RefreshFails, CarriesRight, Carries, storeVars
    <3>2. store.refresh \in live \cup forgiven
      BY <2>0, <2>3, <3>1 DEF RefreshFails
    <3>3. CASE UNCHANGED issuerVars
      BY <3>1, <3>2, <3>3 DEF issuerVars
    <3>4. CASE Mint({held[a].refresh}) /\ forgiven' = forgiven \cup {held[a].refresh}
      BY <3>1, <3>4
    <3>. QED
      BY <2>3, <3>3, <3>4 DEF RefreshFails
  <2>4. CASE StoreAuth(a)
    BY <2>4 DEF StoreAuth, Forgive, CarriesRight, Carries
  <2>5. CASE ClearAuth(a)
    BY <1>0, <2>5 DEF ClearAuth, Forgive, Go, NoAuth
  <2>. QED
    BY <1>2, <2>1, <2>2, <2>3, <2>4, <2>5 DEF Stored
<1>3. ASSUME NEW a \in Attempts, LogsIn(a) PROVE Live
  <2>1. UNCHANGED <<store, forgiven>> /\ live \subseteq live'
    BY <1>3 DEF LogsIn, Gate, RequestCode, Poll, Exchange, Mint, storeVars, issuerVars
  <2>2. pc[a] \notin {"store", "clear"}
    BY <1>3 DEF LogsIn, Gate, RequestCode, Poll, Exchange
  <2>3. \A b \in Attempts \ {a} : pc[b] \notin {"store", "clear"}
    BY <1>3, OnlyOneInside DEF Inside
  <2>. QED
    BY <1>0, <2>1, <2>2, <2>3
<1>4. ASSUME Talks \/ UNCHANGED vars PROVE Live
  BY <1>0, <1>4 DEF Talks, DialogueStep, ChildStep, vars, attemptVars, storeVars, issuerVars
<1>5. ASSUME Surroundings PROVE Live
  <2>1. CASE TokenExpires
    BY <1>0, <2>1, StoreKinds DEF TokenExpires, attemptVars, issuerVars
  <2>2. CASE Revoke
    BY <1>0, <2>2 DEF Revoke, attemptVars, storeVars
  <2>3. CASE Crash
    BY <1>0, <2>3 DEF Crash, Forgive, storeVars
  <2>. QED
    BY <1>5, <2>1, <2>2, <2>3 DEF Surroundings
<1>. QED
  BY <1>1, <1>2, <1>3, <1>4, <1>5, NextSplit

LEMMA ClearsUseless ==
  ASSUME TypeOK, CarriesRight, [Next]_vars, store.kind = "auth", store'.kind # "auth"
  PROVE  store.refresh \in unrenewed
<1>1. ASSUME NEW a \in Attempts, Queues(a) \/ LogsIn(a) PROVE FALSE
  BY <1>1 DEF Queues, Begin, Cancel, CancelSeen, TakeLock, Drop, StartDialogue, EndDialogue,
     LogsIn, Gate, RequestCode, Poll, Exchange, storeVars
<1>2. ASSUME Talks \/ Surroundings \/ UNCHANGED vars PROVE FALSE
  <2>1. CASE TokenExpires
    BY <2>1, StoreKinds DEF TokenExpires
  <2>. QED
    BY <1>2, <2>1 DEF Talks, DialogueStep, ChildStep, Surroundings, Revoke, Crash, storeVars, vars
<1>3. ASSUME NEW a \in Attempts, Stored(a) PROVE store.refresh \in unrenewed
  <2>1. CASE StoreAuth(a)
    BY <2>1 DEF StoreAuth, CarriesRight, Carries
  <2>2. CASE ClearAuth(a)
    BY <2>2 DEF ClearAuth, CarriesRight, Carries
  <2>. QED
    BY <1>3, <2>1, <2>2 DEF Stored, LoadAuth, RefreshAnswered, RefreshRefused, RefreshFails,
       storeVars
<1>. QED
  BY <1>1, <1>2, <1>3, NextSplit

(***************************************************************************)
(* The dialogue: one request is under way at a time, the login's request   *)
(* among them at most once, so a login that succeeded stays so.            *)
(***************************************************************************)
Start == "account/login/start"

OneRequestAtATime ==
  /\ toChild # << >> =>
       /\ Len(toChild) = 1 /\ toChild[1].id = Len(requested)
       /\ \A i \in 1 .. Len(toBroker) :
            toBroker[i].is = "answer" => toBroker[i].id < Len(requested)
  /\ \A i \in 1 .. Len(toBroker) : toBroker[i].is = "answer" => toBroker[i].id <= Len(requested)
  /\ stage = "wait" => toChild = << >>

OneLogin ==
  /\ toChild # << >> /\ toChild[1].method = Start => login = "none"
  /\ stage \in {"initialize", "account", "status"} =>
       /\ login = "none"
       /\ toChild # << >> => toChild[1].method # Start

SuccessIsReal ==
  /\ \A i \in 1 .. Len(toBroker) :
       toBroker[i].is = "completed" /\ toBroker[i].result = "ok" => login = "succeeded"
  /\ OnlyItsLoginCounts

DialogueFacts == OneRequestAtATime /\ OneLogin /\ SuccessIsReal

\* Once LOGIN_TIMEOUT is over the broker asks for nothing but the end of its login.
DialogueInv == stage \notin {"closed", "expire"} => DialogueFacts

\* A request after an answer, or while none is under way.
LEMMA RequestStep ==
  ASSUME DialogueTypeOK, OneRequestAtATime, toChild = << >>, NEW method \in Methods,
         Request(method)
  PROVE  /\ Len(requested') = Len(requested) + 1
         /\ toChild' # << >> => /\ Len(toChild') = 1 /\ toChild'[1].id = Len(requested')
                                /\ toChild'[1].method = method
BY DEF DialogueTypeOK, Request

\* Reading a line leaves the later ones in their order.
LEMMA ReadStep ==
  ASSUME DialogueTypeOK, HasLine, toBroker' = Tail(toBroker)
  PROVE  /\ Line \in Messages /\ Line = toBroker[1] /\ 1 \in 1 .. Len(toBroker)
         /\ \A i \in 1 .. Len(toBroker') : /\ i + 1 \in 1 .. Len(toBroker)
                                           /\ toBroker'[i] = toBroker[i + 1]
<1>1. toBroker \in Seq(Messages) /\ toBroker # << >>
  BY DEF DialogueTypeOK, HasLine
<1>2. Len(toBroker) \in Nat \ {0} /\ Len(toBroker') = Len(toBroker) - 1
  BY <1>1, HeadTailProperties, EmptySeq
<1>. QED
  BY <1>1, <1>2, HeadTailProperties DEF Line

LEMMA LaterAnswers ==
  ASSUME DialogueTypeOK, OneRequestAtATime, HasLine, toBroker' = Tail(toBroker)
  PROVE  \A i \in 1 .. Len(toBroker') :
           toBroker'[i].is = "answer" =>
             /\ toBroker'[i].id \in Nat /\ toBroker'[i].id <= Len(requested)
             /\ toChild # << >> => toBroker'[i].id < Len(requested)
<1>. SUFFICES ASSUME NEW i \in 1 .. Len(toBroker'), toBroker'[i].is = "answer"
              PROVE  /\ toBroker'[i].id \in Nat /\ toBroker'[i].id <= Len(requested)
                     /\ toChild # << >> => toBroker'[i].id < Len(requested)
  OBVIOUS
<1>1. i + 1 \in 1 .. Len(toBroker) /\ toBroker'[i] = toBroker[i + 1]
  BY ReadStep
<1>2. toBroker[i + 1] \in Messages
  BY <1>1, ElementOfSeq DEF DialogueTypeOK
<1>. QED
  BY <1>1, <1>2 DEF OneRequestAtATime, Messages

LEMMA AnswerStep ==
  ASSUME DialogueTypeOK, DialogueFacts, ReadAnswer PROVE DialogueFacts'
<1>0. Len(requested) \in Nat
  BY DEF DialogueTypeOK
<1>1. toBroker' = Tail(toBroker) /\ UNCHANGED <<child, account, login>> /\ HasLine
      /\ Line.is = "answer" /\ Line.id = Len(requested)
  BY DEF ReadAnswer, IsAnswer
<1>2. toChild = << >>
  BY <1>0, <1>1, ReadStep DEF DialogueFacts, OneRequestAtATime
<1>3. \/ NoRequest /\ stage' \in {"wait", "closed"}
      \/ \E method \in Methods : Request(method) /\
           \/ method # Start /\ stage = "initialize" /\ stage' = "account"
           \/ method # Start /\ stage = "account" /\ stage' = "status"
           \/ method = Start /\ stage = "status" /\ stage' = "login"
           \/ method # Start /\ stage = "accountAfter" /\ stage' = "statusAfter"
  BY DEF ReadAnswer, Return, Methods, Start
<1>4. OneRequestAtATime'
  <2>1. CASE NoRequest /\ stage' \in {"wait", "closed"}
    BY <1>0, <1>1, <1>2, <2>1, ReadStep DEF NoRequest, DialogueFacts, OneRequestAtATime
  <2>2. ASSUME NEW method \in Methods, Request(method), stage' # "wait"
        PROVE  OneRequestAtATime'
    <3>1. /\ Len(requested') = Len(requested) + 1
          /\ toChild' # << >> => /\ Len(toChild') = 1 /\ toChild'[1].id = Len(requested')
      BY <1>2, <2>2, RequestStep DEF DialogueFacts
    <3>2. \A i \in 1 .. Len(toBroker') :
            toBroker'[i].is = "answer" =>
              toBroker'[i].id \in Nat /\ toBroker'[i].id <= Len(requested)
      BY <1>1, LaterAnswers DEF DialogueFacts
    <3>3. ASSUME NEW i \in 1 .. Len(toBroker'), toBroker'[i].is = "answer"
          PROVE  toBroker'[i].id < Len(requested') /\ toBroker'[i].id <= Len(requested')
      <4>1. toBroker'[i].id \in Nat /\ toBroker'[i].id <= Len(requested)
        BY <3>2, <3>3
      <4>. QED
        BY <1>0, <3>1, <4>1
    <3>. QED
      BY <2>2, <3>1, <3>3 DEF OneRequestAtATime
  <2>. QED
    BY <1>3, <2>1, <2>2
<1>5. OneLogin'
  <2>1. CASE NoRequest /\ stage' \in {"wait", "closed"}
    BY <1>1, <1>2, <2>1 DEF NoRequest, OneLogin
  <2>2. ASSUME NEW method \in Methods, Request(method),
               \/ method # Start /\ stage = "initialize" /\ stage' = "account"
               \/ method # Start /\ stage = "account" /\ stage' = "status"
               \/ method = Start /\ stage = "status" /\ stage' = "login"
               \/ method # Start /\ stage = "accountAfter" /\ stage' = "statusAfter"
        PROVE  OneLogin'
    BY <1>1, <1>2, <2>2, RequestStep DEF DialogueFacts, OneLogin
  <2>. QED
    BY <1>3, <2>1, <2>2
<1>6. SuccessIsReal'
  <2>1. stage' \in {"accountAfter", "statusAfter"} => login = "succeeded"
    BY <1>3 DEF DialogueFacts, SuccessIsReal, OnlyItsLoginCounts
  <2>. QED
    BY <1>1, <2>1, ReadStep DEF DialogueFacts, SuccessIsReal, OnlyItsLoginCounts
<1>. QED
  BY <1>4, <1>5, <1>6 DEF DialogueFacts

\* A step that only takes the first line away.
LEMMA OnlyReads ==
  ASSUME DialogueTypeOK, DialogueFacts, HasLine, toBroker' = Tail(toBroker),
         UNCHANGED <<stage, requested, toChild, login>>
  PROVE  DialogueFacts'
<1>0. Len(requested) \in Nat
  BY DEF DialogueTypeOK
<1>1. OneRequestAtATime'
  BY LaterAnswers DEF DialogueFacts, OneRequestAtATime
<1>2. OneLogin'
  BY DEF DialogueFacts, OneLogin
<1>3. SuccessIsReal'
  BY ReadStep DEF DialogueFacts, SuccessIsReal, OnlyItsLoginCounts
<1>. QED
  BY <1>1, <1>2, <1>3 DEF DialogueFacts

LEMMA CompletedStep ==
  ASSUME DialogueTypeOK, DialogueFacts, ReadCompleted PROVE DialogueFacts'
<1>0. Len(requested) \in Nat
  BY DEF DialogueTypeOK
<1>1. /\ toBroker' = Tail(toBroker) /\ UNCHANGED login /\ HasLine
      /\ Line.is = "completed" /\ toChild = << >>
  BY DEF ReadCompleted, DialogueFacts, OneRequestAtATime
<1>2. Line.result = "ok" => login = "succeeded"
  BY <1>1, ReadStep DEF DialogueFacts, SuccessIsReal
<1>3. CASE stage' = "closed" /\ NoRequest
  <2>1. OneRequestAtATime'
    BY <1>1, <1>3, LaterAnswers DEF NoRequest, DialogueFacts, OneRequestAtATime
  <2>2. OneLogin'
    BY <1>1, <1>3 DEF NoRequest, OneLogin
  <2>3. SuccessIsReal'
    BY <1>1, <1>3, ReadStep DEF DialogueFacts, SuccessIsReal, OnlyItsLoginCounts
  <2>. QED
    BY <2>1, <2>2, <2>3 DEF DialogueFacts
<1>4. CASE stage' = "accountAfter" /\ Request("account/read") /\ Line.result = "ok"
  <2>1. /\ Len(requested') = Len(requested) + 1
        /\ toChild' # << >> => /\ Len(toChild') = 1 /\ toChild'[1].id = Len(requested')
                               /\ toChild'[1].method = "account/read"
    BY <1>1, <1>4, RequestStep DEF DialogueFacts, Methods
  <2>2. \A i \in 1 .. Len(toBroker') :
          toBroker'[i].is = "answer" => /\ toBroker'[i].id < Len(requested')
                                        /\ toBroker'[i].id <= Len(requested')
    <3>1. \A i \in 1 .. Len(toBroker') :
            toBroker'[i].is = "answer" =>
              toBroker'[i].id \in Nat /\ toBroker'[i].id <= Len(requested)
      BY <1>1, LaterAnswers DEF DialogueFacts
    <3>. QED
      BY <1>0, <2>1, <3>1
  <2>3. OneRequestAtATime'
    BY <1>4, <2>1, <2>2 DEF OneRequestAtATime
  <2>4. OneLogin'
    BY <1>4, <2>1 DEF OneLogin, Start
  <2>5. SuccessIsReal'
    BY <1>1, <1>2, <1>4, ReadStep DEF DialogueFacts, SuccessIsReal, OnlyItsLoginCounts
  <2>. QED
    BY <2>3, <2>4, <2>5 DEF DialogueFacts
<1>. QED
  BY <1>3, <1>4 DEF ReadCompleted, Return

LEMMA EndWaitStep ==
  ASSUME DialogueTypeOK, DialogueFacts, EndWait PROVE DialogueFacts'
<1>0. Len(requested) \in Nat
  BY DEF DialogueTypeOK
<1>1. /\ stage' = "cancel" /\ UNCHANGED <<toBroker, login>>
      /\ Request("account/login/cancel") /\ toChild = << >>
  BY DEF EndWait, DialogueFacts, OneRequestAtATime
<1>2. /\ Len(requested') = Len(requested) + 1
      /\ toChild' # << >> => /\ Len(toChild') = 1 /\ toChild'[1].id = Len(requested')
                             /\ toChild'[1].method = "account/login/cancel"
  BY <1>1, RequestStep DEF DialogueFacts, Methods
<1>3. \A i \in 1 .. Len(toBroker) :
        toBroker[i].is = "answer" => toBroker[i].id \in Nat /\ toBroker[i].id <= Len(requested)
  <2>1. \A i \in 1 .. Len(toBroker) : toBroker[i] \in Messages
    BY ElementOfSeq DEF DialogueTypeOK
  <2>. QED
    BY <2>1 DEF Messages, DialogueFacts, OneRequestAtATime
<1>4. OneRequestAtATime'
  BY <1>0, <1>1, <1>2, <1>3 DEF OneRequestAtATime
<1>5. OneLogin'
  BY <1>1, <1>2 DEF OneLogin, Start
<1>6. SuccessIsReal'
  BY <1>1 DEF DialogueFacts, SuccessIsReal, OnlyItsLoginCounts
<1>. QED
  BY <1>4, <1>5, <1>6 DEF DialogueFacts

LEMMA BrokerStep == ASSUME DialogueTypeOK, DialogueInv, Broker PROVE DialogueInv'
<1>1. CASE ReadEnd \/ RpcTimesOut \/ LoginTimesOut
  BY <1>1 DEF ReadEnd, RpcTimesOut, LoginTimesOut, Return, DialogueInv
<1>2. CASE stage \notin {"closed", "expire"} /\ (ReadAnswer \/ ReadCompleted \/ EndWait)
  BY <1>2, AnswerStep, CompletedStep, EndWaitStep DEF DialogueInv
<1>3. CASE ReadOther
  <2>1. CASE stage \in {"closed", "expire"}
    BY <1>3, <2>1 DEF ReadOther, DialogueInv
  <2>2. CASE stage \notin {"closed", "expire"}
    BY <1>3, <2>2, OnlyReads DEF ReadOther, DialogueInv
  <2>. QED
    BY <2>1, <2>2
<1>4. CASE stage \in {"closed", "expire"} /\ (ReadAnswer \/ ReadCompleted \/ EndWait)
  BY <1>4 DEF ReadAnswer, ReadCompleted, EndWait, Waits, GivingUp, Return, DialogueInv
<1>. QED
  BY <1>1, <1>2, <1>3, <1>4 DEF Broker

\* The child's messages come after those it sent before.
LEMMA AppendStep ==
  ASSUME DialogueTypeOK, NEW m \in Messages, toBroker' = Append(toBroker, m)
  PROVE  \A i \in 1 .. Len(toBroker') :
           \/ toBroker'[i] = m
           \/ i \in 1 .. Len(toBroker) /\ toBroker'[i] = toBroker[i]
BY AppendProperties DEF DialogueTypeOK

LEMMA ChildAnswersStep ==
  ASSUME DialogueTypeOK, DialogueFacts, ChildAnswers PROVE DialogueFacts'
<1>0. Len(requested) \in Nat
  BY DEF DialogueTypeOK
<1>1. /\ toChild # << >> /\ toChild \in Seq([id : Nat, method : Methods])
      /\ Head(toChild) = toChild[1] /\ toChild' = Tail(toChild)
      /\ UNCHANGED <<stage, requested, account>>
  BY DEF ChildAnswers, DialogueTypeOK
<1>2. toChild' = << >> /\ toChild[1].id = Len(requested) /\ stage # "wait"
  BY <1>1, HeadTailProperties, EmptySeq DEF DialogueFacts, OneRequestAtATime
<1>3. PICK r \in Results : toBroker' = Append(toBroker, Answer(Len(requested), r))
  BY <1>1, <1>2 DEF ChildAnswers, DialogueTypeOK, Results
<1>4. /\ toChild[1].method = Start => login = "none"
      /\ toChild[1].method # Start => \/ login' = login
                                      \/ login = "pending" /\ login' = "cancelled"
  BY <1>1 DEF ChildAnswers, Start, DialogueFacts, OneLogin
<1>5. \A i \in 1 .. Len(toBroker') :
        \/ toBroker'[i] = Answer(Len(requested), r)
        \/ i \in 1 .. Len(toBroker) /\ toBroker'[i] = toBroker[i]
  <2>1. Answer(Len(requested), r) \in Messages
    BY <1>0, MessageTypes
  <2>. QED
    BY <1>3, <2>1, AppendStep
<1>6. login = "succeeded" => login' = "succeeded"
  BY <1>4
<1>7. OneRequestAtATime'
  BY <1>0, <1>1, <1>2, <1>5 DEF DialogueFacts, OneRequestAtATime, Answer
<1>8. OneLogin'
  BY <1>1, <1>2, <1>4 DEF DialogueFacts, OneLogin
<1>9. SuccessIsReal'
  <2>1. Answer(Len(requested), r).is = "answer"
    BY DEF Answer
  <2>. QED
    BY <1>1, <1>5, <1>6, <2>1 DEF DialogueFacts, SuccessIsReal, OnlyItsLoginCounts
<1>. QED
  BY <1>7, <1>8, <1>9 DEF DialogueFacts

LEMMA LoginEndsStep ==
  ASSUME DialogueTypeOK, DialogueFacts, LoginEnds PROVE DialogueFacts'
<1>1. PICK r \in {"ok", "error"} :
        /\ toBroker' = Append(toBroker, Completed(r))
        /\ r = "ok" => login' = "succeeded"
  BY DEF LoginEnds
<1>2. \A i \in 1 .. Len(toBroker') :
        \/ toBroker'[i] = Completed(r)
        \/ i \in 1 .. Len(toBroker) /\ toBroker'[i] = toBroker[i]
  <2>1. Completed(r) \in Messages
    BY MessageTypes
  <2>. QED
    BY <1>1, <2>1, AppendStep
<1>3. login = "pending" /\ UNCHANGED <<stage, requested, toChild>>
  BY DEF LoginEnds
<1>4. OneRequestAtATime'
  BY <1>2, <1>3 DEF DialogueFacts, OneRequestAtATime, Completed
<1>5. OneLogin'
  BY <1>3 DEF DialogueFacts, OneLogin
<1>6. SuccessIsReal'
  BY <1>1, <1>2, <1>3 DEF DialogueFacts, SuccessIsReal, OnlyItsLoginCounts, Completed
<1>. QED
  BY <1>4, <1>5, <1>6 DEF DialogueFacts

LEMMA ChildSpeaksStep ==
  ASSUME DialogueTypeOK, DialogueFacts, ChildSpeaks PROVE DialogueFacts'
<1>1. PICK m \in {Ask, Elsewhere} : toBroker' = Append(toBroker, m)
  BY DEF ChildSpeaks
<1>2. m.is \in {"ask", "elsewhere"}
  BY DEF Ask, Elsewhere
<1>3. \A i \in 1 .. Len(toBroker') :
        \/ toBroker'[i] = m
        \/ i \in 1 .. Len(toBroker) /\ toBroker'[i] = toBroker[i]
  BY <1>1, MessageTypes, AppendStep
<1>4. UNCHANGED <<stage, requested, toChild, login>>
  BY DEF ChildSpeaks
<1>. QED
  BY <1>2, <1>3, <1>4 DEF DialogueFacts, OneRequestAtATime, OneLogin, SuccessIsReal,
     OnlyItsLoginCounts

LEMMA ChildStepKeeps == ASSUME DialogueTypeOK, DialogueInv, Child PROVE DialogueInv'
<1>1. ASSUME DialogueFacts, ChildEnds PROVE DialogueFacts'
  BY <1>1 DEF ChildEnds, DialogueFacts, OneRequestAtATime, OneLogin, SuccessIsReal,
     OnlyItsLoginCounts
<1>2. DialogueFacts => DialogueFacts'
  BY <1>1, ChildAnswersStep, LoginEndsStep, ChildSpeaksStep DEF Child
<1>3. UNCHANGED stage
  BY DEF Child, ChildAnswers, LoginEnds, ChildSpeaks, ChildEnds
<1>. QED
  BY <1>2, <1>3 DEF DialogueInv

LEMMA OpenStep == ASSUME OpenDialogue \/ CloseDialogue PROVE DialogueFacts'
<1>1. toBroker' = << >> /\ Len(toBroker') = 0 /\ 1 .. 0 = {}
  BY DEF OpenDialogue, CloseDialogue
<1>2. CASE OpenDialogue
  <2>1. /\ Len(toChild') = 1 /\ toChild'[1].id = 1 /\ toChild'[1].method # Start
        /\ Len(requested') = 1 /\ toChild' # << >>
    BY <1>2 DEF OpenDialogue, Start
  <2>2. stage' = "initialize" /\ login' = "none"
    BY <1>2 DEF OpenDialogue
  <2>. QED
    BY <1>1, <2>1, <2>2 DEF DialogueFacts, OneRequestAtATime, OneLogin, SuccessIsReal,
       OnlyItsLoginCounts
<1>3. CASE CloseDialogue
  <2>1. toChild' = << >> /\ stage' = "closed"
    BY <1>3 DEF CloseDialogue
  <2>. QED
    BY <1>1, <2>1 DEF DialogueFacts, OneRequestAtATime, OneLogin, SuccessIsReal,
       OnlyItsLoginCounts
<1>. QED
  BY <1>2, <1>3

LEMMA DialogueStays ==
  ASSUME TypeOK, DialogueInv, [Next]_vars PROVE DialogueInv'
<1>0. DialogueTypeOK
  BY DEF TypeOK
<1>1. ASSUME UNCHANGED dialogueVars PROVE DialogueInv'
  BY <1>1 DEF dialogueVars, DialogueInv, DialogueFacts, OneRequestAtATime, OneLogin,
     SuccessIsReal, OnlyItsLoginCounts
<1>2. ASSUME NEW a \in Attempts, Queues(a) PROVE DialogueInv'
  BY <1>1, <1>2, OpenStep DEF DialogueInv, Queues, Begin, Cancel, CancelSeen, TakeLock, Drop, StartDialogue,
     EndDialogue
<1>3. ASSUME NEW a \in Attempts, Stored(a) \/ LogsIn(a) PROVE DialogueInv'
  BY <1>1, <1>3 DEF Stored, LoadAuth, RefreshAnswered, RefreshRefused, RefreshFails, StoreAuth,
     ClearAuth, LogsIn, Gate, RequestCode, Poll, Exchange
<1>4. CASE Talks
  BY <1>0, <1>4, BrokerStep, ChildStepKeeps DEF Talks, DialogueStep, ChildStep, Broker
<1>5. CASE Surroundings \/ UNCHANGED vars
  BY <1>1, <1>5, OpenStep DEF DialogueInv, Surroundings, TokenExpires, Revoke, Crash, vars
<1>. QED
  BY <1>2, <1>3, <1>4, <1>5, NextSplit

(***************************************************************************)
(* The inductive invariant.                                                *)
(***************************************************************************)
IInv == TypeOK /\ LockIsExact /\ CarriesRight /\ StoredTokenIsLive /\ DialogueInv

LEMMA InitInv == Init => IInv
<1>. SUFFICES ASSUME Init PROVE IInv
  OBVIOUS
<1>1. LockIsExact /\ CarriesRight
  BY Bounds DEF Init, LockIsExact, CarriesRight, Carries, Inside
<1>2. StoredTokenIsLive
  <2>1. store \in {NoAuth, Garbage, Auth(TRUE, 0), Auth(FALSE, 0)} /\ live = {0}
    BY DEF Init
  <2>2. store.kind = "auth" => store.refresh = 0
    BY <2>1, StoreKinds
  <2>. QED
    BY <2>1, <2>2 DEF StoredTokenIsLive
<1>3. DialogueInv
  BY DEF Init, DialogueInit, DialogueInv
<1>. QED
  BY <1>1, <1>2, <1>3, InitTypes DEF IInv

LEMMA NextInv == IInv /\ [Next]_vars => IInv'
BY NextTypes, LockStaysExact, CarriesStaysRight, TokenStaysLive, DialogueStays DEF IInv

\* IInv is an invariant.
THEOREM Invariance == Spec => []IInv
BY InitInv, NextInv, PTL DEF Spec

\* Whoever holds the lock is running: no return, cancel, dropped future or crash
\* leaves AUTH_BROKER_LOCK behind.
THEOREM LockIsReleased == Spec => []LockIsHeldByARunner
<1>1. IInv => LockIsHeldByARunner
  BY DEF IInv, TypeOK, OuterTypeOK, LockIsExact, LockIsHeldByARunner, Inside
<1>. QED
  BY <1>1, Invariance, PTL

\* The refresh token on the device is one the issuer accepts, or was lost
\* outside this code (refresh_stored_auth, store_auth).
THEOREM TokenIsLive == Spec => []StoredTokenIsLive
<1>1. IInv => StoredTokenIsLive
  BY DEF IInv
<1>. QED
  BY <1>1, Invariance, PTL

\* The device loses credentials only when the refresh of this very token got
\* nothing that can be kept (authenticate_platform, refresh_stored_auth): for any
\* issuer, whatever it refuses or answers.
THEOREM OnlyUselessIsCleared == Spec => ClearedOnlyUseless
<1>1. IInv /\ [Next]_vars =>
        [store.kind = "auth" /\ store'.kind # "auth" => store.refresh \in unrenewed]_store
  BY ClearsUseless DEF IInv
<1>. QED
  BY <1>1, Invariance, PTL DEF Spec, ClearedOnlyUseless

\* The broker reads the account again only after its own login succeeded: the
\* dialogue has one request under way at a time, so no answer and no
\* account/login/completed is taken for another one's.
THEOREM LoginsAreTheirOwn == Spec => []OnlyItsLoginCounts
<1>1. IInv => OnlyItsLoginCounts
  BY DEF IInv, DialogueInv, DialogueFacts, SuccessIsReal, OnlyItsLoginCounts
<1>. QED
  BY <1>1, Invariance, PTL
=============================================================================
