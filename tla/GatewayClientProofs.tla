------------------------- MODULE GatewayClientProofs --------------------------
(***************************************************************************)
(* Theorems about the browser's clients of one session, for any number of  *)
(* clients, pages and requests, any length of the agent's runs and any     *)
(* capacity of the Gateway's channel: type correctness, which answer       *)
(* settles a request, how a page learns of lost envelopes, and which       *)
(* clients a page hears.                                                   *)
(***************************************************************************)
EXTENDS GatewayClient, FiniteSetTheorems, SequenceTheorems, TLAPS

Items == Envelopes \cup {Resync}

(***************************************************************************)
(* The queue of a socket.                                                  *)
(***************************************************************************)
LEMMA ItemKinds ==
    /\ Resync.kind = "resync" /\ Resync \notin Envelopes
    /\ \A e \in Envelopes : /\ e # Resync /\ e.kind \in {"answer", "notification"}
                            /\ e.of \in 0 .. MaxRequests /\ e.run \in Nat \ {0}
                            /\ e.sequence \in Nat /\ e.generation \in Nat
<1>1. \A e \in Envelopes : e.kind \in {"answer", "notification"}
  BY DEF Envelopes
<1>2. Resync.kind = "resync"
  BY DEF Resync
<1>. QED
  BY <1>1, <1>2 DEF Envelopes

LEMMA TailItems ==
    ASSUME NEW q \in Seq(Items), q # <<>>
    PROVE  /\ Head(q) \in Items /\ Head(q) = q[1] /\ 1 \in DOMAIN q
           /\ Tail(q) \in Seq(Items) /\ Len(q) \in Nat \ {0} /\ Len(Tail(q)) = Len(q) - 1
           /\ DOMAIN q = 1 .. Len(q) /\ DOMAIN Tail(q) = 1 .. Len(q) - 1
           /\ \A i \in 1 .. Len(q) - 1 : Tail(q)[i] = q[i + 1] /\ i + 1 \in DOMAIN q
OBVIOUS

(* A notice of a loss can only come first.                                 *)
NoticeFirst(q) == \A i \in DOMAIN q : q[i] = Resync => i = 1

LEMMA KeptItems ==
    ASSUME NEW q \in Seq(Items), NoticeFirst(q)
    PROVE  \E d \in {0, 1} :
              /\ Kept(q) \in Seq(Items) /\ Len(Kept(q)) = Len(q) - d
              /\ \A i \in 1 .. Len(q) - d : Kept(q)[i] = q[i + d] /\ q[i + d] \in Envelopes
<1>1. \A i \in DOMAIN q : q[i] \in Envelopes \/ i = 1
  BY DEF NoticeFirst, Items
<1>2. DOMAIN q = 1 .. Len(q) /\ Len(q) \in Nat
  OBVIOUS
<1>3. CASE q # <<>> /\ Head(q) = Resync
  <2>1. Kept(q) = Tail(q)
    BY <1>3 DEF Kept
  <2>2. /\ Kept(q) \in Seq(Items) /\ Len(Kept(q)) = Len(q) - 1
        /\ \A i \in 1 .. Len(q) - 1 : Kept(q)[i] = q[i + 1] /\ q[i + 1] \in Envelopes
    BY <1>1, <1>2, <1>3, <2>1, TailItems
  <2>. QED
    BY <2>2
<1>4. CASE ~(q # <<>> /\ Head(q) = Resync)
  <2>1. Kept(q) = q
    BY <1>4 DEF Kept
  <2>2. 1 \in DOMAIN q => q[1] \in Envelopes
    BY <1>4, TailItems DEF Items
  <2>3. /\ Kept(q) \in Seq(Items) /\ Len(Kept(q)) = Len(q) - 0
        /\ \A i \in 1 .. Len(q) - 0 : Kept(q)[i] = q[i + 0] /\ q[i + 0] \in Envelopes
    BY <1>1, <1>2, <2>1, <2>2
  <2>. QED
    BY <2>3
<1>. QED
  BY <1>3, <1>4

(* What was in the channel moves up by d places, when the first envelope   *)
(* behind a notice is lost.                                                *)
Moved(q, new, e, d) ==
    /\ new \in Seq(Items) /\ NoticeFirst(new)
    /\ d <= Len(q) /\ Len(new) = Len(q) + 1 - d /\ new[Len(new)] = e
    /\ \A i \in 1 .. Len(q) - d : new[i] # Resync => new[i] = q[i + d]
    /\ Full(q) => /\ d + 1 <= Len(q) /\ new[1] = Resync
                  /\ Head(Kept(q)) = q[1 + d] /\ q[1 + d] \in Envelopes

LEMMA QueuedMoves ==
    ASSUME NEW q \in Seq(Items), NoticeFirst(q), NEW e \in Envelopes
    PROVE  \E d \in {0, 1} : Moved(q, Queued(q, e), e, d)
<1>0. e \in Items /\ e # Resync /\ Resync \in Items /\ Resync \notin Envelopes
  BY ItemKinds DEF Items
<1>1. CASE Full(q)
  <2>1. PICK d \in {0, 1} :
              /\ Kept(q) \in Seq(Items) /\ Len(Kept(q)) = Len(q) - d
              /\ \A i \in 1 .. Len(q) - d : Kept(q)[i] = q[i + d] /\ q[i + d] \in Envelopes
    BY KeptItems
  <2>2. Len(q) \in Nat /\ Len(Kept(q)) >= 1 /\ Kept(q) # <<>>
    BY <1>1, <2>1, BoundAssumption DEF Full
  <2>. DEFINE rest == Append(Tail(Kept(q)), e)
              new  == <<Resync>> \o rest
  <2>3. /\ Head(Kept(q)) = Kept(q)[1] /\ Tail(Kept(q)) \in Seq(Items)
        /\ Len(Tail(Kept(q))) = Len(q) - d - 1
        /\ \A i \in 1 .. Len(q) - d - 1 : Tail(Kept(q))[i] = Kept(q)[i + 1]
    BY <2>1, <2>2, TailItems
  <2>4. /\ rest \in Seq(Items) /\ Len(rest) = Len(q) - d /\ rest[Len(q) - d] = e
        /\ \A i \in 1 .. Len(q) - d - 1 : rest[i] = q[i + 1 + d] /\ rest[i] \in Envelopes
    <3>1. rest \in Seq(Items) /\ Len(rest) = Len(q) - d /\ rest[Len(q) - d] = e
      BY <1>0, <2>2, <2>3
    <3>2. ASSUME NEW i \in 1 .. Len(q) - d - 1
          PROVE  rest[i] = q[i + 1 + d] /\ rest[i] \in Envelopes
      <4>1. rest[i] = Tail(Kept(q))[i]
        BY <1>0, <2>2, <2>3
      <4>2. i + 1 \in 1 .. Len(q) - d /\ i \in Nat
        BY <2>2
      <4>. QED
        BY <2>1, <2>3, <4>1, <4>2
    <3>. HIDE DEF rest
    <3>. QED
      BY <3>1, <3>2
  <2>. HIDE DEF rest
  <2>5. <<Resync>> \in Seq(Items) /\ Len(<<Resync>>) = 1 /\ <<Resync>>[1] = Resync
    BY <1>0
  <2>6. /\ new \in Seq(Items) /\ Len(new) = Len(q) - d + 1
        /\ new[1] = Resync /\ \A i \in 2 .. Len(q) - d + 1 : new[i] = rest[i - 1]
    <3>1. /\ new \in Seq(Items) /\ Len(new) = 1 + Len(rest)
          /\ \A i \in 1 .. 1 + Len(rest) : new[i] = IF i <= 1 THEN <<Resync>>[i] ELSE rest[i - 1]
      BY <2>4, <2>5, ConcatProperties
    <3>. QED
      BY <2>2, <2>4, <2>5, <3>1
  <2>. HIDE DEF new
  <2>7. \A i \in 2 .. Len(q) - d + 1 : new[i] # Resync /\ (i <= Len(q) - d => new[i] = q[i + d])
    BY <1>0, <2>2, <2>4, <2>6
  <2>8. Moved(q, new, e, d)
    <3>1. NoticeFirst(new)
      BY <2>2, <2>6, <2>7 DEF NoticeFirst
    <3>2. d <= Len(q) /\ Len(new) = Len(q) + 1 - d /\ new[Len(new)] = e
      BY <2>1, <2>2, <2>4, <2>6
    <3>3. \A i \in 1 .. Len(q) - d : new[i] # Resync => new[i] = q[i + d]
      BY <2>2, <2>6, <2>7
    <3>4. d + 1 <= Len(q) /\ Head(Kept(q)) = q[1 + d] /\ q[1 + d] \in Envelopes
      BY <2>1, <2>2, <2>3
    <3>. QED
      BY <2>6, <3>1, <3>2, <3>3, <3>4 DEF Moved
  <2>9. new = Queued(q, e)
    BY <1>1 DEF Queued, new, rest
  <2>. QED
    BY <2>8, <2>9
<1>2. CASE ~Full(q)
  <2>. DEFINE new == Append(q, e)
  <2>1. /\ new \in Seq(Items) /\ Len(q) \in Nat /\ Len(new) = Len(q) + 1 /\ new[Len(q) + 1] = e
        /\ \A i \in 1 .. Len(q) : new[i] = q[i]
    BY <1>0
  <2>. HIDE DEF new
  <2>2. NoticeFirst(new)
    BY <1>0, <2>1 DEF NoticeFirst
  <2>3. Moved(q, new, e, 0)
    BY <1>2, <2>1, <2>2 DEF Moved
  <2>4. new = Queued(q, e)
    BY <1>2 DEF Queued, new
  <2>. QED
    BY <2>3, <2>4
<1>. QED
  BY <1>1, <1>2

LEMMA TailNotice ==
    ASSUME NEW q \in Seq(Items), q # <<>>, NoticeFirst(q)
    PROVE  NoticeFirst(Tail(q)) /\ \A i \in DOMAIN Tail(q) : Tail(q)[i] \in Envelopes
<1>1. /\ DOMAIN q = 1 .. Len(q) /\ DOMAIN Tail(q) = 1 .. Len(q) - 1 /\ Len(q) \in Nat \ {0}
      /\ \A i \in 1 .. Len(q) - 1 : Tail(q)[i] = q[i + 1] /\ i + 1 \in DOMAIN q
  BY TailItems
<1>2. ASSUME NEW i \in 1 .. Len(q) - 1
      PROVE  Tail(q)[i] \in Envelopes /\ Tail(q)[i] # Resync
  <2>1. i + 1 # 1 /\ i + 1 \in DOMAIN q /\ Tail(q)[i] = q[i + 1]
    BY <1>1
  <2>2. q[i + 1] # Resync /\ q[i + 1] \in Items
    BY <2>1 DEF NoticeFirst
  <2>. QED
    BY <2>1, <2>2 DEF Items
<1>. QED
  BY <1>1, <1>2 DEF NoticeFirst

(***************************************************************************)
(* The requests of the session.                                            *)
(***************************************************************************)
Own(all, c) == {n \in DOMAIN all : all[n].client = c}

LEMMA RequestFields ==
    ASSUME NEW r \in Requests
    PROVE  /\ r.client \in Clients /\ r.id \in 1 .. MaxRequests
           /\ r.state \in {"waiting", "resolved", "rejected"} /\ r.answer \in 0 .. MaxRequests
BY DEF Requests

LEMMA OwnIsFinite ==
    ASSUME NEW all \in Seq(Requests), NEW c
    PROVE  /\ IsFiniteSet(Own(all, c)) /\ Own(all, c) \subseteq 1 .. Len(all)
           /\ Cardinality(Own(all, c)) \in Nat /\ Cardinality(Own(all, c)) <= Len(all)
<1>1. Own(all, c) \subseteq 1 .. Len(all) /\ Len(all) \in Nat
  BY DEF Own
<1>2. IsFiniteSet(1 .. Len(all)) /\ Cardinality(1 .. Len(all)) = Len(all)
  <2>1. IsFiniteSet(1 .. Len(all))
    BY <1>1, FS_Interval
  <2>2. Cardinality(1 .. Len(all)) = IF 1 > Len(all) THEN 0 ELSE Len(all) - 1 + 1
    BY <1>1, FS_Interval
  <2>. QED
    BY <1>1, <2>1, <2>2
<1>3. IsFiniteSet(Own(all, c)) /\ Cardinality(Own(all, c)) <= Cardinality(1 .. Len(all))
  BY <1>1, <1>2, FS_Subset
<1>4. Cardinality(Own(all, c)) \in Nat
  BY <1>3, FS_CardinalityType
<1>. QED
  BY <1>1, <1>2, <1>3, <1>4

LEMMA NewRequestType ==
    ASSUME TypeOK, NEW c \in Clients, Len(requests) < MaxRequests
    PROVE  /\ NextId(c) = Cardinality(Own(requests, c)) + 1
           /\ NextId(c) \in 1 .. MaxRequests
           /\ NewRequest(c) \in Requests
           /\ NewRequest(c).client = c /\ NewRequest(c).id = NextId(c)
           /\ NewRequest(c).state = "waiting"
<1>1. NextId(c) = Cardinality(Own(requests, c)) + 1
  BY DEF NextId, Own
<1>2. /\ Cardinality(Own(requests, c)) \in Nat
      /\ Cardinality(Own(requests, c)) <= Len(requests) /\ Len(requests) \in Nat
  BY OwnIsFinite DEF TypeOK
<1>3. NextId(c) \in 1 .. MaxRequests
  BY <1>1, <1>2, BoundAssumption
<1>4. 0 \in 0 .. MaxRequests
  BY BoundAssumption
<1>. QED
  BY <1>1, <1>3, <1>4 DEF NewRequest, Requests

(* What a step may do to the requests: one of a client is added with the   *)
(* next id, and some that wait are settled - resolved only by an answer to *)
(* a request that had their id.                                            *)
Grown(all, c) ==
    \/ all = requests
    \/ Len(requests) < MaxRequests /\ all = Append(requests, NewRequest(c))

SettledBy(r, s) ==
    /\ s.client = r.client /\ s.id = r.id
    /\ s.state = "resolved" =>
          \/ r.state = "resolved" /\ s.answer = r.answer
          \/ s.answer \in DOMAIN requests /\ requests[s.answer].id = r.id

Settled(all, new) ==
    /\ new \in Seq(Requests) /\ Len(new) = Len(all)
    /\ \A n \in DOMAIN all : SettledBy(all[n], new[n])

RequestsChange ==
    \E c \in Clients : \E all \in Seq(Requests) : Grown(all, c) /\ Settled(all, requests')

LEMMA GrownType ==
    ASSUME TypeOK, NEW c \in Clients, NEW all, Grown(all, c)
    PROVE  /\ all \in Seq(Requests) /\ Len(all) <= MaxRequests
           /\ Len(all) \in Nat /\ Len(requests) \in Nat /\ Len(requests) <= Len(all)
           /\ DOMAIN all = 1 .. Len(all) /\ DOMAIN requests = 1 .. Len(requests)
           /\ DOMAIN requests \subseteq DOMAIN all
           /\ \A n \in DOMAIN requests : all[n] = requests[n]
<1>1. requests \in Seq(Requests) /\ Len(requests) <= MaxRequests /\ MaxRequests \in Nat
  BY BoundAssumption DEF TypeOK
<1>2. CASE all = requests
  BY <1>1, <1>2
<1>3. CASE Len(requests) < MaxRequests /\ all = Append(requests, NewRequest(c))
  <2>1. NewRequest(c) \in Requests
    BY <1>3, NewRequestType
  <2>. QED
    BY <1>1, <1>3, <2>1
<1>. QED
  BY <1>2, <1>3 DEF Grown

LEMMA WithRequestGrown == \A c : Grown(WithRequest(c), c)
BY DEF Grown, WithRequest

LEMMA SettledType ==
    ASSUME TypeOK, NEW c \in Clients, NEW all, NEW new, Grown(all, c), Settled(all, new)
    PROVE  /\ new \in Seq(Requests) /\ Len(new) <= MaxRequests
           /\ DOMAIN new = DOMAIN all /\ DOMAIN requests \subseteq DOMAIN new
BY GrownType DEF Settled

LEMMA UnsettledIsSettled ==
    ASSUME NEW all \in Seq(Requests)
    PROVE  Settled(all, all)
BY DEF Settled, SettledBy

(* The functions that go through all requests.                             *)
LEMMA Through ==
    ASSUME NEW all \in Seq(Requests), NEW new,
           new = [n \in DOMAIN all |-> new[n]],
           \A n \in DOMAIN all : new[n] \in Requests /\ SettledBy(all[n], new[n])
    PROVE  Settled(all, new)
<1>1. DOMAIN all = 1 .. Len(all) /\ Len(all) \in Nat
  OBVIOUS
<1>2. new \in [1 .. Len(all) -> Requests]
  BY <1>1
<1>3. new \in Seq(Requests) /\ Len(new) = Len(all)
  BY <1>1, <1>2, SeqDef
<1>. QED
  BY <1>3 DEF Settled

LEMMA RejectAllSettles ==
    ASSUME TypeOK, NEW c
    PROVE  Settled(requests, RejectAll(c))
<1>1. requests \in Seq(Requests)
  BY DEF TypeOK
<1>2. \A n \in DOMAIN requests : requests[n] \in Requests
  BY <1>1
<1>3. \A n \in DOMAIN requests :
         RejectAll(c)[n] \in Requests /\ SettledBy(requests[n], RejectAll(c)[n])
  BY <1>2 DEF RejectAll, SettledBy, Requests
<1>4. RejectAll(c) = [n \in DOMAIN requests |-> RejectAll(c)[n]]
  BY DEF RejectAll
<1>. QED
  BY <1>1, <1>3, <1>4, Through

LEMMA FailureSettles ==
    ASSUME TypeOK, NEW k \in DOMAIN requests
    PROVE  Settled(requests, [requests EXCEPT ![k].state = "rejected"])
<1>. DEFINE new == [requests EXCEPT ![k].state = "rejected"]
<1>1. requests \in Seq(Requests)
  BY DEF TypeOK
<1>2. \A n \in DOMAIN requests : requests[n] \in Requests
  BY <1>1
<1>3. \A n \in DOMAIN requests :
         new[n] \in Requests /\ SettledBy(requests[n], new[n])
  BY <1>2 DEF SettledBy, Requests
<1>4. new = [n \in DOMAIN requests |-> new[n]]
  OBVIOUS
<1>. QED
  BY <1>1, <1>3, <1>4, Through

LEMMA ResolveSettles ==
    ASSUME TypeOK, NEW c, NEW all \in Seq(Requests), NEW m \in DOMAIN requests
    PROVE  Settled(all, Resolve(all, c, m))
<1>1. \A n \in DOMAIN all : all[n] \in Requests
  OBVIOUS
<1>2. m \in 0 .. MaxRequests
  BY BoundAssumption DEF TypeOK
<1>3. \A n \in DOMAIN all :
         Resolve(all, c, m)[n] \in Requests /\ SettledBy(all[n], Resolve(all, c, m)[n])
  BY <1>1, <1>2 DEF Resolve, SettledBy, Requests
<1>4. Resolve(all, c, m) = [n \in DOMAIN all |-> Resolve(all, c, m)[n]]
  BY DEF Resolve
<1>. QED
  BY <1>3, <1>4, Through

(***************************************************************************)
(* What the actions share keeps the types.                                 *)
(***************************************************************************)
RequestsTypeOK ==
    /\ requests \in Seq(Requests) /\ Len(requests) <= MaxRequests
    /\ unsent \subseteq DOMAIN requests /\ asked \subseteq DOMAIN requests

WireTypeOK == queue \in [Clients -> Seq(Items)] /\ listening \subseteq Clients

(* A step of the clients leaves what the agent owes alone, or adds to it   *)
(* what was unsent.                                                        *)
LEMMA RequestsType ==
    ASSUME TypeOK, NEW c \in Clients, NEW all, Grown(all, c), Settled(all, requests'),
           unsent' \subseteq unsent \cup (DOMAIN all \ DOMAIN requests),
           asked' \subseteq asked \cup unsent
    PROVE  RequestsTypeOK' /\ RequestsChange /\ DOMAIN requests \subseteq DOMAIN requests'
<1>1. /\ requests' \in Seq(Requests) /\ Len(requests') <= MaxRequests
      /\ DOMAIN requests' = DOMAIN all /\ DOMAIN requests \subseteq DOMAIN requests'
  BY SettledType
<1>2. RequestsChange
  BY GrownType DEF RequestsChange
<1>. QED
  BY <1>1, <1>2 DEF RequestsTypeOK, TypeOK

LEMMA SameRequestsType ==
    ASSUME TypeOK, requests' = requests, unsent' \subseteq unsent, asked' \subseteq asked \cup unsent
    PROVE  RequestsTypeOK' /\ DOMAIN requests \subseteq DOMAIN requests'
BY DEF RequestsTypeOK, TypeOK

LEMMA SendGrows ==
    ASSUME TypeOK, NEW c \in Clients, Send(c)
    PROVE  /\ Grown(requests', c) /\ Settled(requests', requests')
           /\ unsent' \subseteq unsent \cup (DOMAIN requests' \ DOMAIN requests)
<1>1. Grown(requests', c)
  BY WithRequestGrown DEF Send
<1>2. requests' \in Seq(Requests)
  BY <1>1, GrownType
<1>. QED
  BY <1>1, <1>2, UnsettledIsSettled DEF Send

(***************************************************************************)
(* The invariant every other one rests on: types, and what a queue holds.  *)
(***************************************************************************)
\* A notice of a loss comes before all envelopes of its queue.
NoticeInv == \A c \in Clients : NoticeFirst(queue[c])

\* Answers on their way are to requests that were made.
WayInv ==
    \A c \in Clients : \A i \in DOMAIN queue[c] :
        queue[c][i].kind = "answer" => queue[c][i].of \in DOMAIN requests

TypeInv == TypeOK /\ NoticeInv /\ WayInv

LEMMA EmptyQueue ==
    ASSUME TypeOK, NEW c \in Clients,
           queue' = queue \/ queue' = [queue EXCEPT ![c] = <<>>]
    PROVE  /\ queue' \in [Clients -> Seq(Items)]
           /\ \A d \in Clients : queue'[d] = queue[d] \/ queue'[d] = <<>>
<1>1. queue \in [Clients -> Seq(Items)] /\ <<>> \in Seq(Items)
  BY DEF TypeOK, Items
<1>. QED
  BY <1>1

LEMMA DisconnectType ==
    ASSUME TypeOK, NEW c \in Clients, Disconnect(c)
    PROVE  /\ left' \in [Clients -> Phases]
           /\ Settled(requests, requests')
           /\ WireTypeOK'
           /\ \A d \in Clients : queue'[d] = queue[d] \/ queue'[d] = <<>>
<1>1. left' \in [Clients -> Phases]
  BY DEF Disconnect, TypeOK
<1>2. Settled(requests, requests')
  BY RejectAllSettles DEF Disconnect
<1>3. listening' \subseteq Clients
  BY DEF Disconnect, TypeOK
<1>4. queue' = queue \/ queue' = [queue EXCEPT ![c] = <<>>]
  BY DEF Disconnect, TypeOK
<1>. QED
  BY <1>1, <1>2, <1>3, <1>4, EmptyQueue DEF WireTypeOK

LEMMA AfterDisconnectType ==
    ASSUME TypeOK, NEW c \in Clients
    PROVE  AfterDisconnect(c) \in {"ticket", "closed"} /\ AfterDisconnect(c) \in Phases
BY DEF AfterDisconnect, Phases

(* Publish keeps the types, and what it loses was in a queue.              *)
LEMMA PublishType ==
    ASSUME TypeInv, NEW e \in Envelopes, Publish(e)
    PROVE  /\ queue' \in [Clients -> Seq(Items)] /\ \A c \in Clients : NoticeFirst(queue'[c])
           /\ missed' \in [Clients -> SUBSET Envelopes]
           /\ sequence' \in Nat
<1>1. \A c \in Clients : queue[c] \in Seq(Items) /\ NoticeFirst(queue[c])
  BY DEF TypeInv, NoticeInv, TypeOK, Items
<1>2. ASSUME NEW c \in Clients
      PROVE  /\ Queued(queue[c], e) \in Seq(Items) /\ NoticeFirst(Queued(queue[c], e))
             /\ Full(queue[c]) => Head(Kept(queue[c])) \in Envelopes
  <2>1. \E d \in {0, 1} : Moved(queue[c], Queued(queue[c], e), e, d)
    BY <1>1, QueuedMoves
  <2>. QED
    BY <2>1 DEF Moved
<1>3. /\ queue' = [c \in Clients |-> IF c \in listening THEN Queued(queue[c], e) ELSE queue[c]]
      /\ sequence' = sequence + 1
      /\ missed' = [c \in Clients |->
                     IF c \in listening /\ Full(queue[c])
                        /\ Head(Kept(queue[c])).generation = hostGeneration[c]
                     THEN missed[c] \cup {Head(Kept(queue[c]))} ELSE missed[c]]
  BY DEF Publish
<1>4. \A c \in Clients : missed[c] \subseteq Envelopes
  BY DEF TypeInv, TypeOK
<1>5. missed' \in [Clients -> SUBSET Envelopes]
  BY <1>2, <1>3, <1>4
<1>. QED
  BY <1>1, <1>2, <1>3, <1>5 DEF TypeInv, TypeOK

BrowserTypeOK ==
    /\ page \in [Clients -> Pages \cup {NoPage}]
    /\ selected \in [Pages -> Clients \cup {NoClient}]
    /\ left \in [Clients -> Phases] /\ phase \in [Clients -> Phases]
    /\ hostGeneration \in [Clients -> Nat] /\ lastSequence \in [Clients -> Nat]

AgentTypeOK == run \in Nat \ {0} /\ generation \in Nat /\ sequence \in Nat

PastTypeOK ==
    /\ missed \in [Clients -> SUBSET Envelopes]
    /\ span \in [Clients -> [run : Nat, from : Nat, to : Nat]]

WireInv == WireTypeOK /\ NoticeInv /\ WayInv

LEMMA TypeParts ==
    TypeInv <=> BrowserTypeOK /\ RequestsTypeOK /\ WireInv /\ AgentTypeOK /\ PastTypeOK
BY DEF TypeInv, TypeOK, BrowserTypeOK, RequestsTypeOK, WireInv, WireTypeOK, AgentTypeOK,
       PastTypeOK, Items

LEMMA NextTypeParts ==
    BrowserTypeOK' /\ RequestsTypeOK' /\ WireInv' /\ AgentTypeOK' /\ PastTypeOK' => TypeInv'
BY DEF TypeInv, TypeOK, BrowserTypeOK, RequestsTypeOK, WireInv, WireTypeOK, AgentTypeOK,
       PastTypeOK, NoticeInv, WayInv, Items

LEMMA QueueType ==
    ASSUME TypeInv
    PROVE  /\ queue \in [Clients -> Seq(Items)]
           /\ \A c \in Clients : queue[c] \in Seq(Items) /\ NoticeFirst(queue[c])
BY DEF TypeInv, TypeOK, NoticeInv, Items

(* A step that brings nothing new to a socket.                             *)
Drained(d) ==
    \/ queue'[d] = queue[d] \/ queue'[d] = <<>>
    \/ queue[d] # <<>> /\ queue'[d] = Tail(queue[d])

LEMMA DrainedWire ==
    ASSUME TypeInv, DOMAIN requests \subseteq DOMAIN requests', listening' \subseteq Clients,
           queue' \in [Clients -> Seq(Items)], \A d \in Clients : Drained(d)
    PROVE  WireInv'
<1>1. ASSUME NEW d \in Clients
      PROVE  /\ NoticeFirst(queue'[d])
             /\ \A i \in DOMAIN queue'[d] :
                   queue'[d][i].kind = "answer" => queue'[d][i].of \in DOMAIN requests'
  <2>1. /\ queue[d] \in Seq(Items) /\ NoticeFirst(queue[d])
        /\ \A i \in DOMAIN queue[d] :
              queue[d][i].kind = "answer" => queue[d][i].of \in DOMAIN requests'
    BY DEF TypeInv, TypeOK, NoticeInv, WayInv, Items
  <2>2. CASE queue'[d] = queue[d]
    BY <2>1, <2>2
  <2>3. CASE queue'[d] = <<>>
    BY <2>3 DEF NoticeFirst
  <2>4. CASE queue[d] # <<>> /\ queue'[d] = Tail(queue[d])
    BY <2>1, <2>4, TailNotice, TailItems
  <2>. QED
    BY <2>2, <2>3, <2>4 DEF Drained
<1>. QED
  BY <1>1 DEF WireInv, WireTypeOK, NoticeInv, WayInv

LEMMA SameWire ==
    ASSUME TypeInv, DOMAIN requests \subseteq DOMAIN requests', listening' \subseteq Clients,
           queue' = queue
    PROVE  WireInv'
<1>1. \A d \in Clients : Drained(d)
  BY DEF Drained
<1>. QED
  BY <1>1, QueueType, DrainedWire

(* Every step keeps TypeInv, and changes the requests as described.        *)
LEMMA UserRequestType ==
    ASSUME TypeInv, NEW c \in Clients, UserRequest(c)
    PROVE  TypeInv' /\ RequestsChange
<1>1. TypeOK /\ BrowserTypeOK /\ AgentTypeOK /\ PastTypeOK
  BY TypeParts DEF TypeInv
<1>2. RequestsTypeOK' /\ RequestsChange /\ DOMAIN requests \subseteq DOMAIN requests'
  BY <1>1, SendGrows, RequestsType DEF UserRequest, agentVars
<1>3. WireInv'
  BY <1>1, <1>2, SameWire DEF UserRequest, wireVars, TypeOK
<1>. QED
  BY <1>1, <1>2, <1>3, NextTypeParts
     DEF UserRequest, pageVars, clientVars, agentVars, pastVars, BrowserTypeOK, AgentTypeOK,
         PastTypeOK

LEMMA RequestsStay ==
    ASSUME TypeOK, NEW c \in Clients, Settled(requests, requests'), unsent' = unsent,
           asked' = asked
    PROVE  RequestsTypeOK' /\ RequestsChange /\ DOMAIN requests \subseteq DOMAIN requests'
<1>1. Grown(requests, c)
  BY DEF Grown
<1>. QED
  BY <1>1, RequestsType

LEMMA RequestFailsType ==
    ASSUME TypeInv, NEW n, RequestFails(n)
    PROVE  TypeInv' /\ RequestsChange
<1>1. TypeOK /\ BrowserTypeOK /\ AgentTypeOK /\ PastTypeOK
  BY TypeParts DEF TypeInv
<1>2. requests[n].client \in Clients /\ n \in DOMAIN requests
  BY <1>1, RequestFields DEF RequestFails, TypeOK
<1>3. Settled(requests, requests')
  BY <1>1, <1>2, FailureSettles DEF RequestFails
<1>4. RequestsTypeOK' /\ RequestsChange /\ DOMAIN requests \subseteq DOMAIN requests'
  BY <1>1, <1>2, <1>3, RequestsStay DEF RequestFails, agentVars
<1>5. WireInv'
  BY <1>1, <1>4, SameWire DEF RequestFails, wireVars, TypeOK
<1>. QED
  BY <1>1, <1>4, <1>5, NextTypeParts
     DEF RequestFails, pageVars, clientVars, agentVars, pastVars, BrowserTypeOK, AgentTypeOK,
         PastTypeOK

LEMMA DisconnectWire ==
    ASSUME TypeInv, NEW c \in Clients, Disconnect(c), unsent' = unsent, asked' = asked
    PROVE  /\ RequestsTypeOK' /\ RequestsChange
           /\ WireInv' /\ left' \in [Clients -> Phases]
<1>1. TypeOK
  BY DEF TypeInv
<1>2. RequestsTypeOK' /\ RequestsChange /\ DOMAIN requests \subseteq DOMAIN requests'
  BY <1>1, DisconnectType, RequestsStay
<1>3. WireInv'
  <2>1. /\ queue' \in [Clients -> Seq(Items)] /\ listening' \subseteq Clients
        /\ \A d \in Clients : queue'[d] = queue[d] \/ queue'[d] = <<>>
    BY <1>1, DisconnectType DEF WireTypeOK
  <2>2. \A d \in Clients : Drained(d)
    BY <2>1 DEF Drained
  <2>. QED
    BY <1>2, <2>1, <2>2, DrainedWire
<1>. QED
  BY <1>1, <1>2, <1>3, DisconnectType

LEMMA SameEverything ==
    ASSUME TypeInv, NEW c \in Clients, UNCHANGED <<requests, unsent, asked, queue>>,
           listening' \subseteq Clients
    PROVE  RequestsTypeOK' /\ RequestsChange /\ WireInv'
<1>1. TypeOK /\ requests \in Seq(Requests)
  BY DEF TypeInv, TypeOK
<1>2. RequestsTypeOK' /\ RequestsChange /\ DOMAIN requests \subseteq DOMAIN requests'
  BY <1>1, UnsettledIsSettled, RequestsStay
<1>. QED
  BY <1>2, SameWire

LEMMA SelectHostType ==
    ASSUME TypeInv, NEW p \in Pages, NEW c \in Clients, NEW g \in 1 .. generation,
           SelectHost(p, c, g)
    PROVE  TypeInv' /\ RequestsChange
<1>1. TypeOK /\ BrowserTypeOK /\ AgentTypeOK /\ PastTypeOK /\ unsent' = unsent /\ asked' = asked
  BY TypeParts DEF TypeInv, SelectHost, agentVars
<1>2. g \in Nat /\ "ticket" \in Phases
  BY <1>1 DEF AgentTypeOK, Phases
<1>3. AgentTypeOK' /\ PastTypeOK'
  BY <1>1 DEF SelectHost, agentVars, pastVars, AgentTypeOK, PastTypeOK
<1>4. /\ page' \in [Clients -> Pages \cup {NoPage}]
      /\ selected' \in [Pages -> Clients \cup {NoClient}]
      /\ hostGeneration' \in [Clients -> Nat] /\ lastSequence' \in [Clients -> Nat]
  BY <1>1, <1>2 DEF SelectHost, BrowserTypeOK
<1>5. CASE selected[p] = NoClient
  <2>1. phase' = [phase EXCEPT ![c] = "ticket"] /\ UNCHANGED <<left, requests, wireVars>>
    BY <1>5 DEF SelectHost
  <2>2. RequestsTypeOK' /\ RequestsChange /\ WireInv'
    BY <1>1, <2>1, SameEverything DEF wireVars, TypeOK
  <2>3. BrowserTypeOK'
    BY <1>1, <1>2, <1>4, <2>1 DEF BrowserTypeOK
  <2>. QED
    BY <1>3, <2>2, <2>3, NextTypeParts
<1>6. CASE selected[p] # NoClient
  <2>1. /\ Disconnect(selected[p])
        /\ phase' = [phase EXCEPT ![selected[p]] = AfterDisconnect(selected[p]), ![c] = "ticket"]
    BY <1>6 DEF SelectHost
  <2>2. selected[p] \in Clients
    BY <1>1, <1>6 DEF TypeOK
  <2>3. RequestsTypeOK' /\ RequestsChange /\ WireInv' /\ left' \in [Clients -> Phases]
    BY <1>1, <2>1, <2>2, DisconnectWire
  <2>4. BrowserTypeOK'
    BY <1>1, <1>2, <1>4, <2>1, <2>2, <2>3, AfterDisconnectType DEF BrowserTypeOK
  <2>. QED
    BY <1>3, <2>3, <2>4, NextTypeParts
<1>. QED
  BY <1>5, <1>6

LEMMA LeaveType ==
    ASSUME TypeInv, NEW p \in Pages, Leave(p)
    PROVE  TypeInv' /\ RequestsChange
<1>1. TypeOK /\ BrowserTypeOK /\ AgentTypeOK /\ PastTypeOK
  BY TypeParts DEF TypeInv
<1>2. selected[p] \in Clients /\ Disconnect(selected[p])
  BY <1>1 DEF Leave, TypeOK
<1>3. RequestsTypeOK' /\ RequestsChange /\ WireInv' /\ left' \in [Clients -> Phases]
  BY <1>2, DisconnectWire DEF Leave, agentVars
<1>4. BrowserTypeOK'
  BY <1>1, <1>2, <1>3, AfterDisconnectType DEF Leave, BrowserTypeOK
<1>. QED
  BY <1>1, <1>3, <1>4, NextTypeParts DEF Leave, agentVars, pastVars, AgentTypeOK, PastTypeOK

LEMMA GotoType ==
    ASSUME TypeInv, NEW c \in Clients, NEW to \in Phases, Goto(c, to)
    PROVE  BrowserTypeOK' /\ AgentTypeOK' /\ PastTypeOK' /\ asked' = asked
BY TypeParts DEF Goto, pageVars, agentVars, pastVars, BrowserTypeOK, AgentTypeOK, PastTypeOK

LEMMA ConnectingType ==
    ASSUME TypeInv, NEW c \in Clients, Connecting(c)
    PROVE  TypeInv' /\ RequestsChange
<1>1. TypeOK /\ BrowserTypeOK /\ AgentTypeOK /\ PastTypeOK
  BY TypeParts DEF TypeInv
<1>2. CASE TicketArrives(c) \/ TicketFails(c) \/ ConnectTimesOut(c) \/ SocketOpensLate(c)
  <2>1. /\ \E to \in Phases : Goto(c, to)
        /\ UNCHANGED <<requests, unsent, wireVars>>
    BY <1>2 DEF TicketArrives, TicketFails, ConnectTimesOut, SocketOpensLate, Phases
  <2>2. BrowserTypeOK' /\ AgentTypeOK' /\ PastTypeOK' /\ asked' = asked
    BY <2>1, GotoType
  <2>3. RequestsTypeOK' /\ RequestsChange /\ WireInv'
    BY <1>1, <2>1, <2>2, SameEverything DEF wireVars, TypeOK
  <2>. QED
    BY <2>2, <2>3, NextTypeParts
<1>3. CASE SocketOpens(c)
  <2>1. BrowserTypeOK' /\ AgentTypeOK' /\ PastTypeOK' /\ asked' = asked
    BY <1>3, GotoType DEF SocketOpens, Phases
  <2>2. RequestsTypeOK' /\ RequestsChange /\ DOMAIN requests \subseteq DOMAIN requests'
    BY <1>1, <1>3, <2>1, SendGrows, RequestsType DEF SocketOpens
  <2>3. WireInv'
    BY <1>1, <1>3, <2>2, SameWire DEF SocketOpens, wireVars, TypeOK
  <2>. QED
    BY <2>1, <2>2, <2>3, NextTypeParts
<1>4. CASE SocketEnds(c)
  <2>1. BrowserTypeOK' /\ AgentTypeOK' /\ PastTypeOK' /\ asked' = asked
    BY <1>4, GotoType DEF SocketEnds, Phases
  <2>2. requests' = RejectAll(c) \/ requests' = requests
    BY <1>4 DEF SocketEnds
  <2>3. Settled(requests, requests')
    BY <1>1, <2>2, RejectAllSettles, UnsettledIsSettled DEF TypeOK
  <2>4. RequestsTypeOK' /\ RequestsChange /\ DOMAIN requests \subseteq DOMAIN requests'
    BY <1>1, <1>4, <2>1, <2>3, RequestsStay DEF SocketEnds
  <2>5. WireInv'
    <3>1. listening' \subseteq Clients /\ queue' = [queue EXCEPT ![c] = <<>>]
      BY <1>1, <1>4 DEF SocketEnds, TypeOK
    <3>2. /\ queue' \in [Clients -> Seq(Items)]
          /\ \A d \in Clients : queue'[d] = queue[d] \/ queue'[d] = <<>>
      BY <1>1, <3>1, EmptyQueue
    <3>3. \A d \in Clients : Drained(d)
      BY <3>2 DEF Drained
    <3>. QED
      BY <2>4, <3>1, <3>2, <3>3, DrainedWire
  <2>. QED
    BY <2>1, <2>4, <2>5, NextTypeParts
<1>5. CASE Subscribe(c)
  <2>1. RequestsTypeOK' /\ RequestsChange /\ WireInv'
    BY <1>1, <1>5, SameEverything DEF Subscribe, agentVars, TypeOK
  <2>. QED
    BY <1>1, <1>5, <2>1, NextTypeParts
       DEF Subscribe, pageVars, clientVars, agentVars, pastVars, BrowserTypeOK, AgentTypeOK,
           PastTypeOK
<1>. QED
  BY <1>2, <1>3, <1>4, <1>5 DEF Connecting

LEMMA EnvelopeType ==
    ASSUME TypeInv, NEW k \in {"answer", "notification"}, NEW n \in 0 .. MaxRequests
    PROVE  /\ Envelope(k, n) \in Envelopes
           /\ Envelope(k, n).kind = k /\ Envelope(k, n).of = n
           /\ Envelope(k, n).run = run /\ Envelope(k, n).sequence = sequence + 1
           /\ Envelope(k, n).generation = generation
BY DEF TypeInv, TypeOK, Envelope, Envelopes

LEMMA PublishWire ==
    ASSUME TypeInv, NEW e \in Envelopes, Publish(e),
           e.kind = "answer" => e.of \in DOMAIN requests
    PROVE  WireInv'
<1>1. /\ queue' \in [Clients -> Seq(Items)] /\ \A c \in Clients : NoticeFirst(queue'[c])
  BY PublishType
<1>2. /\ requests' = requests /\ listening' = listening
      /\ queue' = [c \in Clients |-> IF c \in listening THEN Queued(queue[c], e) ELSE queue[c]]
  BY DEF Publish
<1>3. ASSUME NEW c \in Clients, NEW i \in DOMAIN queue'[c], queue'[c][i].kind = "answer"
      PROVE  queue'[c][i].of \in DOMAIN requests
  <2>0. /\ queue[c] \in Seq(Items) /\ NoticeFirst(queue[c])
        /\ \A j \in DOMAIN queue[c] :
              queue[c][j].kind = "answer" => queue[c][j].of \in DOMAIN requests
    BY QueueType DEF TypeInv, WayInv
  <2>1. CASE queue'[c] = queue[c]
    BY <1>3, <2>0, <2>1
  <2>2. CASE queue'[c] = Queued(queue[c], e)
    <3>1. PICK d \in {0, 1} : Moved(queue[c], Queued(queue[c], e), e, d)
      BY <2>0, QueuedMoves
    <3>. DEFINE q == queue[c]
                new == queue'[c]
    <3>2. /\ new \in Seq(Items) /\ d <= Len(q) /\ Len(new) = Len(q) + 1 - d /\ new[Len(new)] = e
          /\ \A j \in 1 .. Len(q) - d : new[j] # Resync => new[j] = q[j + d]
      BY <2>2, <3>1 DEF Moved
    <3>3. Len(q) \in Nat /\ i \in 1 .. Len(q) + 1 - d /\ DOMAIN q = 1 .. Len(q)
      BY <1>3, <2>0, <3>2
    <3>4. new[i] # Resync
      BY <1>3, ItemKinds
    <3>5. CASE i = Len(new)
      BY <1>3, <3>2, <3>5
    <3>6. CASE i # Len(new)
      <4>1. i \in 1 .. Len(q) - d /\ i + d \in DOMAIN q
        BY <3>2, <3>3, <3>6
      <4>. QED
        BY <1>3, <2>0, <3>2, <3>4, <4>1
    <3>. QED
      BY <3>5, <3>6
  <2>. QED
    BY <1>2, <2>1, <2>2
<1>. QED
  BY <1>1, <1>2, <1>3 DEF WireInv, WireTypeOK, NoticeInv, WayInv, TypeInv, TypeOK

(* The steps of the agent, and stuttering, change no request.              *)
AgentChange == RequestsChange \/ requests' = requests

LEMMA PublishingType ==
    ASSUME TypeInv, NEW e \in Envelopes, Publish(e), asked' \subseteq asked,
           e.kind = "answer" => e.of \in DOMAIN requests
    PROVE  TypeInv' /\ requests' = requests
<1>1. TypeOK /\ BrowserTypeOK /\ AgentTypeOK /\ PastTypeOK
  BY TypeParts DEF TypeInv
<1>2. RequestsTypeOK'
  BY <1>1, SameRequestsType DEF Publish
<1>3. WireInv'
  BY PublishWire
<1>4. PastTypeOK' /\ AgentTypeOK'
  BY <1>1, PublishType DEF Publish, PastTypeOK, AgentTypeOK
<1>5. BrowserTypeOK'
  BY <1>1 DEF Publish, pageVars, clientVars, BrowserTypeOK
<1>. QED
  BY <1>2, <1>3, <1>4, <1>5, NextTypeParts DEF Publish

LEMMA AgentType ==
    ASSUME TypeInv,
           \/ \E n \in DOMAIN requests : Forward(n) \/ Answer(n)
           \/ Notify \/ NumberForOthers \/ RestartAgent
    PROVE  TypeInv' /\ requests' = requests
<1>0. TypeOK /\ BrowserTypeOK /\ AgentTypeOK /\ PastTypeOK
  BY TypeParts DEF TypeInv
<1>1. ASSUME NEW n \in DOMAIN requests, Answer(n)
      PROVE  TypeInv' /\ requests' = requests
  <2>1. n \in 0 .. MaxRequests
    BY <1>0, BoundAssumption DEF TypeOK
  <2>2. Envelope("answer", n) \in Envelopes /\ Envelope("answer", n).of = n
    BY <2>1, EnvelopeType
  <2>. QED
    BY <1>1, <2>2, PublishingType DEF Answer
<1>2. ASSUME Notify
      PROVE  TypeInv' /\ requests' = requests
  <2>1. 0 \in 0 .. MaxRequests
    BY BoundAssumption
  <2>2. Envelope("notification", 0) \in Envelopes /\ Envelope("notification", 0).kind # "answer"
    BY <2>1, EnvelopeType
  <2>. QED
    BY <1>2, <2>2, PublishingType DEF Notify
<1>3. ASSUME NEW n \in DOMAIN requests, Forward(n)
      PROVE  TypeInv' /\ requests' = requests
  <2>1. RequestsTypeOK' /\ WireInv'
    BY <1>0, <1>3, SameRequestsType, SameWire DEF Forward, wireVars, TypeOK
  <2>. QED
    BY <1>0, <1>3, <2>1, NextTypeParts
       DEF Forward, pageVars, clientVars, pastVars, BrowserTypeOK, AgentTypeOK, PastTypeOK
<1>4. ASSUME NumberForOthers \/ RestartAgent
      PROVE  TypeInv' /\ requests' = requests
  <2>1. asked' \subseteq asked /\ UNCHANGED <<pageVars, clientVars, requests, unsent, wireVars, pastVars>>
    BY <1>4 DEF NumberForOthers, RestartAgent
  <2>2. RequestsTypeOK' /\ WireInv'
    BY <1>0, <2>1, SameRequestsType, SameWire DEF wireVars, TypeOK
  <2>3. AgentTypeOK'
    BY <1>0, <1>4 DEF NumberForOthers, RestartAgent, AgentTypeOK
  <2>. QED
    BY <1>0, <2>1, <2>2, <2>3, NextTypeParts
       DEF pageVars, clientVars, pastVars, BrowserTypeOK, PastTypeOK
<1>. QED
  BY <1>1, <1>2, <1>3, <1>4

LEMMA ReceivingType ==
    ASSUME TypeInv, NEW c \in Clients, Receiving(c)
    PROVE  TypeInv' /\ RequestsChange
<1>. DEFINE e == NextEvent(c)
<1>0. TypeOK /\ BrowserTypeOK /\ AgentTypeOK /\ PastTypeOK
  BY TypeParts DEF TypeInv
<1>1. Taken(c)
  BY DEF Receiving, ReceiveResync, DropOversized, Ignore, Receive
<1>2. /\ queue[c] \in Seq(Items) /\ queue[c] # <<>> /\ e \in Items
      /\ Tail(queue[c]) \in Seq(Items)
      /\ e # Resync => e \in Envelopes
      /\ e.kind = "answer" => e.of \in DOMAIN requests
  <2>1. queue[c] \in Seq(Items) /\ queue[c] # <<>>
    BY <1>1, QueueType DEF Taken
  <2>2. e = queue[c][1] /\ 1 \in DOMAIN queue[c] /\ e \in Items /\ Tail(queue[c]) \in Seq(Items)
    BY <2>1, TailItems DEF NextEvent
  <2>. QED
    BY <2>1, <2>2 DEF Items, TypeInv, WayInv
<1>3. /\ queue' \in [Clients -> Seq(Items)] /\ listening' \subseteq Clients
      /\ \A d \in Clients : Drained(d)
  <2>1. queue' = [queue EXCEPT ![c] = Tail(queue[c])] /\ listening' = listening
    BY <1>1, <1>0 DEF Taken, TypeOK
  <2>2. queue \in [Clients -> Seq(Items)]
    BY QueueType
  <2>3. queue' \in [Clients -> Seq(Items)]
    BY <1>2, <2>1, <2>2
  <2>4. \A d \in Clients : Drained(d)
    BY <1>2, <2>1, <2>2 DEF Drained
  <2>. QED
    BY <1>0, <2>1, <2>3, <2>4 DEF TypeOK
<1>. HIDE DEF e
<1>4. /\ AgentTypeOK' /\ asked' = asked
      /\ page' = page /\ selected' = selected /\ left' = left /\ phase' = phase
      /\ hostGeneration' = hostGeneration
  BY <1>0, <1>1 DEF Taken, pageVars, agentVars, AgentTypeOK
<1>5. /\ RequestsTypeOK' /\ RequestsChange /\ DOMAIN requests \subseteq DOMAIN requests'
      /\ BrowserTypeOK' /\ PastTypeOK'
  <2>1. CASE ReceiveResync(c)
    <3>1. RequestsTypeOK' /\ RequestsChange /\ DOMAIN requests \subseteq DOMAIN requests'
      BY <1>0, <1>4, <2>1, SendGrows, RequestsType DEF ReceiveResync
    <3>2. BrowserTypeOK' /\ PastTypeOK'
      BY <1>0, <1>4, <2>1 DEF ReceiveResync, BrowserTypeOK, PastTypeOK
    <3>. QED
      BY <3>1, <3>2
  <2>2. CASE DropOversized(c) \/ Ignore(c)
    <3>1. /\ UNCHANGED <<lastSequence, requests, unsent, span>> /\ e # Resync
          /\ missed' = [missed EXCEPT ![c] = IF IsMine(c, e) THEN @ \cup {e} ELSE @]
      BY <2>2 DEF DropOversized, Ignore, e
    <3>2. Settled(requests, requests')
      BY <1>0, <3>1, UnsettledIsSettled DEF TypeOK
    <3>3. RequestsTypeOK' /\ RequestsChange /\ DOMAIN requests \subseteq DOMAIN requests'
      BY <1>0, <1>4, <3>1, <3>2, RequestsStay
    <3>4. BrowserTypeOK' /\ PastTypeOK'
      BY <1>0, <1>2, <1>4, <3>1 DEF BrowserTypeOK, PastTypeOK
    <3>. QED
      BY <3>3, <3>4
  <2>3. CASE Receive(c)
    <3>. DEFINE all == IF Gap(c, e) THEN WithRequest(c) ELSE requests
    <3>1. /\ e # Resync
          /\ lastSequence' = [lastSequence EXCEPT ![c] = e.sequence]
          /\ requests' = IF e.kind = "answer" THEN Resolve(all, c, e.of) ELSE all
          /\ unsent' = unsent \cup (DOMAIN all \ DOMAIN requests)
          /\ missed' = [missed EXCEPT ![c] = IF Gap(c, e) THEN {} ELSE @]
          /\ span' = [span EXCEPT ![c] =
                      IF @.run = e.run THEN [@ EXCEPT !.to = e.sequence]
                      ELSE [run |-> e.run, from |-> e.sequence, to |-> e.sequence]]
      BY <2>3 DEF Receive, IsMine, e
    <3>2. Grown(all, c)
      BY WithRequestGrown DEF Grown
    <3>. HIDE DEF all
    <3>3. all \in Seq(Requests)
      BY <1>0, <3>2, GrownType
    <3>4. Settled(all, requests')
      BY <1>0, <1>2, <3>1, <3>3, ResolveSettles, UnsettledIsSettled
    <3>5. RequestsTypeOK' /\ RequestsChange /\ DOMAIN requests \subseteq DOMAIN requests'
      BY <1>0, <1>4, <3>1, <3>2, <3>4, RequestsType
    <3>6. e.run \in Nat /\ e.sequence \in Nat
      BY <1>2, <3>1, ItemKinds
    <3>7. span' \in [Clients -> [run : Nat, from : Nat, to : Nat]]
      BY <1>0, <3>1, <3>6 DEF PastTypeOK
    <3>8. BrowserTypeOK' /\ PastTypeOK'
      BY <1>0, <1>4, <3>1, <3>6, <3>7 DEF BrowserTypeOK, PastTypeOK
    <3>. QED
      BY <3>5, <3>8
  <2>. QED
    BY <2>1, <2>2, <2>3 DEF Receiving
<1>6. WireInv'
  BY <1>3, <1>5, DrainedWire
<1>. QED
  BY <1>4, <1>5, <1>6, NextTypeParts

LEMMA TypeStep ==
    ASSUME TypeInv, [Next]_vars
    PROVE  TypeInv' /\ AgentChange
<1>1. ASSUME NEW p \in Pages, Leave(p)
      PROVE  TypeInv' /\ RequestsChange
  BY <1>1, LeaveType
<1>2. ASSUME NEW p \in Pages, NEW c \in Clients, NEW g \in 1 .. generation, SelectHost(p, c, g)
      PROVE  TypeInv' /\ RequestsChange
  BY <1>2, SelectHostType
<1>3. ASSUME NEW c \in Clients, Connecting(c) \/ Receiving(c) \/ UserRequest(c)
      PROVE  TypeInv' /\ RequestsChange
  BY <1>3, ConnectingType, ReceivingType, UserRequestType
<1>4. ASSUME NEW n \in DOMAIN requests, RequestFails(n)
      PROVE  TypeInv' /\ RequestsChange
  BY <1>4, RequestFailsType
<1>5. ASSUME \/ \E n \in DOMAIN requests : Forward(n) \/ Answer(n)
             \/ Notify \/ NumberForOthers \/ RestartAgent
      PROVE  TypeInv' /\ requests' = requests
  BY <1>5, AgentType
<1>6. ASSUME UNCHANGED vars
      PROVE  TypeInv' /\ requests' = requests
  BY <1>6 DEF vars, pageVars, clientVars, wireVars, agentVars, pastVars, TypeInv, TypeOK,
              NoticeInv, WayInv
<1>. QED
  BY <1>1, <1>2, <1>3, <1>4, <1>5, <1>6 DEF Next, AgentChange

LEMMA TypeInit ==
    ASSUME Init
    PROVE  TypeInv
<1>1. <<>> \in Seq(Requests) /\ <<>> \in Seq(Envelopes \cup {Resync})
  OBVIOUS
<1>2. TypeOK
  BY <1>1, BoundAssumption DEF Init, TypeOK, Phases, NoSpan
<1>3. NoticeInv /\ WayInv
  BY DEF Init, NoticeInv, NoticeFirst, WayInv
<1>. QED
  BY <1>2, <1>3 DEF TypeInv

(* The variables keep their types, what waits in a queue is an envelope    *)
(* or, in the first place, the notice of a loss, and the answers among it  *)
(* are to requests that were made.                                         *)
THEOREM TypeCorrect == Spec => [](TypeOK /\ NoticeInv /\ WayInv)
<1>1. Init => TypeInv
  BY TypeInit
<1>2. TypeInv /\ [Next]_vars => TypeInv'
  BY TypeStep
<1>3. TypeInv => TypeOK /\ NoticeInv /\ WayInv
  BY DEF TypeInv
<1>. QED
  BY <1>1, <1>2, <1>3, PTL DEF Spec

(***************************************************************************)
(* Which answer settles a request.                                         *)
(***************************************************************************)

\* No two requests of a client have one id, and the next id is new.
IdInv ==
    \A n \in DOMAIN requests :
        /\ requests[n].id <= Cardinality(Own(requests, requests[n].client))
        /\ \A k \in DOMAIN requests :
              requests[k].client = requests[n].client /\ requests[k].id = requests[n].id => k = n

\* What resolved a request is the answer to a request with its id.
AnswerInv ==
    \A n \in DOMAIN requests : requests[n].state = "resolved" =>
        /\ requests[n].answer \in DOMAIN requests
        /\ requests[requests[n].answer].id = requests[n].id

NumberedIn(all) ==
    \A n \in DOMAIN all :
        /\ all[n].id <= Cardinality(Own(all, all[n].client))
        /\ \A k \in DOMAIN all :
              all[k].client = all[n].client /\ all[k].id = all[n].id => k = n

LEMMA GrownIsNumbered ==
    ASSUME TypeOK, IdInv, NEW c \in Clients, NEW all, Grown(all, c)
    PROVE  NumberedIn(all)
<1>1. requests \in Seq(Requests) /\ all \in Seq(Requests)
  BY GrownType DEF TypeOK
<1>2. CASE all = requests
  BY <1>2 DEF IdInv, NumberedIn
<1>3. CASE Len(requests) < MaxRequests /\ all = Append(requests, NewRequest(c))
  <2>. DEFINE new == Len(requests) + 1
              own == Own(requests, c)
  <2>1. /\ NextId(c) = Cardinality(own) + 1 /\ NewRequest(c) \in Requests
        /\ NewRequest(c).client = c /\ NewRequest(c).id = NextId(c)
    BY <1>3, NewRequestType
  <2>2. /\ DOMAIN all = 1 .. new /\ DOMAIN requests = 1 .. Len(requests) /\ Len(requests) \in Nat
        /\ DOMAIN all = DOMAIN requests \cup {new} /\ new \notin DOMAIN requests
        /\ all[new] = NewRequest(c) /\ \A n \in DOMAIN requests : all[n] = requests[n]
    BY <1>1, <1>3, <2>1
  <2>. HIDE DEF new, own
  <2>3. IsFiniteSet(own) /\ Cardinality(own) \in Nat /\ new \notin own
    BY <1>1, <2>2, OwnIsFinite DEF own, Own
  <2>4. Own(all, c) = own \cup {new}
    BY <2>1, <2>2 DEF own, Own
  <2>5. Cardinality(Own(all, c)) = Cardinality(own) + 1
    BY <2>3, <2>4, FS_AddElement
  <2>6. \A d \in Clients \ {c} : Own(all, d) = Own(requests, d)
    BY <2>1, <2>2 DEF Own
  <2>7. \A n \in DOMAIN requests : requests[n].client \in Clients /\ requests[n].id \in Nat
    BY <1>1, RequestFields
  <2>8. \A n \in DOMAIN requests : requests[n].client = c => requests[n].id <= Cardinality(own)
    BY DEF IdInv, own
  <2>9. ASSUME NEW n \in DOMAIN all
        PROVE  all[n].id <= Cardinality(Own(all, all[n].client))
    <3>1. CASE n = new
      BY <2>1, <2>2, <2>3, <2>5, <3>1
    <3>2. CASE n \in DOMAIN requests /\ requests[n].client = c
      BY <2>2, <2>3, <2>5, <2>7, <2>8, <3>2
    <3>3. CASE n \in DOMAIN requests /\ requests[n].client # c
      BY <2>2, <2>6, <2>7, <3>3 DEF IdInv
    <3>. QED
      BY <2>2, <3>1, <3>2, <3>3
  <2>10. ASSUME NEW n \in DOMAIN all, NEW k \in DOMAIN all,
                all[k].client = all[n].client, all[k].id = all[n].id
         PROVE  k = n
    <3>1. \A m \in DOMAIN requests : ~(requests[m].client = c /\ requests[m].id = NextId(c))
      BY <2>1, <2>3, <2>7, <2>8
    <3>2. CASE n = new \/ k = new
      BY <2>1, <2>2, <2>10, <3>1, <3>2
    <3>3. CASE n \in DOMAIN requests /\ k \in DOMAIN requests
      BY <2>2, <2>10, <3>3 DEF IdInv
    <3>. QED
      BY <2>2, <3>2, <3>3
  <2>. QED
    BY <2>9, <2>10 DEF NumberedIn
<1>. QED
  BY <1>2, <1>3 DEF Grown

LEMMA AnswerStep ==
    ASSUME TypeInv, IdInv, AnswerInv, [Next]_vars
    PROVE  IdInv' /\ AnswerInv'
<1>1. CASE requests' = requests
  BY <1>1 DEF IdInv, AnswerInv, Own
<1>2. CASE RequestsChange
  <2>0. TypeOK
    BY DEF TypeInv
  <2>1. PICK c \in Clients, all \in Seq(Requests) : Grown(all, c) /\ Settled(all, requests')
    BY <1>2 DEF RequestsChange
  <2>2. NumberedIn(all)
    BY <2>0, <2>1, GrownIsNumbered
  <2>3. DOMAIN requests' = DOMAIN all /\ DOMAIN requests \subseteq DOMAIN all
    BY <2>0, <2>1, SettledType, GrownType
  <2>4. \A n \in DOMAIN all : SettledBy(all[n], requests'[n])
    BY <2>1 DEF Settled
  <2>5. \A n \in DOMAIN all : requests'[n].client = all[n].client /\ requests'[n].id = all[n].id
    BY <2>4 DEF SettledBy
  <2>6. IdInv'
    <3>1. \A d : Own(requests', d) = Own(all, d)
      BY <2>3, <2>5 DEF Own
    <3>2. NumberedIn(requests')
      BY <2>2, <2>3, <2>5, <3>1 DEF NumberedIn
    <3>. QED
      BY <3>2 DEF NumberedIn, IdInv, Own
  <2>7. ASSUME NEW n \in DOMAIN requests', requests'[n].state = "resolved"
        PROVE  /\ requests'[n].answer \in DOMAIN requests
               /\ requests[requests'[n].answer].id = requests'[n].id
    <3>1. SettledBy(all[n], requests'[n]) /\ n \in DOMAIN all
      BY <2>3, <2>4
    <3>2. CASE all[n].state = "resolved" /\ requests'[n].answer = all[n].answer
      <4>1. n \in DOMAIN requests /\ all[n] = requests[n]
        <5>1. requests \in Seq(Requests)
          BY <2>0 DEF TypeOK
        <5>2. CASE all = requests
          BY <3>1, <5>2
        <5>3. CASE Len(requests) < MaxRequests /\ all = Append(requests, NewRequest(c))
          <6>1. NewRequest(c) \in Requests /\ NewRequest(c).state = "waiting"
            BY <2>0, <5>3, NewRequestType
          <6>2. n \in 1 .. Len(requests) + 1 /\ all[Len(requests) + 1] = NewRequest(c)
            BY <3>1, <5>1, <5>3, <6>1
          <6>3. n # Len(requests) + 1
            BY <3>2, <6>1, <6>2
          <6>4. n \in DOMAIN requests
            BY <5>1, <6>2, <6>3
          <6>. QED
            BY <2>0, <2>1, <6>4, GrownType
        <5>. QED
          BY <2>1, <5>2, <5>3 DEF Grown
      <4>. QED
        BY <2>5, <3>1, <3>2, <4>1 DEF AnswerInv
    <3>3. CASE /\ requests'[n].answer \in DOMAIN requests
               /\ requests[requests'[n].answer].id = all[n].id
      BY <2>5, <3>1, <3>3
    <3>. QED
      BY <2>7, <3>1, <3>2, <3>3 DEF SettledBy
  <2>8. \A m \in DOMAIN requests : m \in DOMAIN requests' /\ requests'[m].id = requests[m].id
    BY <2>0, <2>1, <2>3, <2>5, GrownType
  <2>. QED
    BY <2>6, <2>7, <2>8 DEF AnswerInv
<1>. QED
  BY <1>1, <1>2, TypeStep DEF AgentChange

(* A request is resolved by the answer to the request of its client that   *)
(* has its id, and that is itself: the ids of a client are never used      *)
(* again, whatever became of the requests they went to.                    *)
THEOREM AnswersGoToTheirRequests == Spec => []NoAnswerIsMixedUp
<1>. DEFINE Inv == TypeInv /\ IdInv /\ AnswerInv
<1>1. Init => Inv
  <2>1. Init => IdInv /\ AnswerInv
    BY DEF Init, IdInv, AnswerInv
  <2>. QED
    BY <2>1, TypeInit
<1>2. Inv /\ [Next]_vars => Inv'
  BY TypeStep, AnswerStep
<1>3. Inv => NoAnswerIsMixedUp
  BY DEF IdInv, AnswerInv, NoAnswerIsMixedUp
<1>. QED
  BY <1>1, <1>2, <1>3, PTL DEF Spec

(***************************************************************************)
(* Which clients a page hears.                                             *)
(***************************************************************************)

\* A client that no page shows any more is closed, or was left before its
\* ticket came.
PageInv ==
    /\ \A c \in Clients : phase[c] = "new" <=> page[c] = NoPage
    /\ \A p \in Pages : selected[p] # NoClient => page[selected[p]] = p
    /\ \A c \in Clients : page[c] # NoPage =>
          selected[page[c]] = c \/ phase[c] = "closed" \/ left[c] = "ticket"

LEMMA SelectHostPage ==
    ASSUME BrowserTypeOK, PageInv, NEW p \in Pages, NEW c \in Clients, NEW g,
           SelectHost(p, c, g)
    PROVE  PageInv'
<1>. DEFINE s == selected[p]
<1>1. /\ phase[c] = "new" /\ page[c] = NoPage
      /\ page' = [page EXCEPT ![c] = p] /\ selected' = [selected EXCEPT ![p] = c]
  BY DEF SelectHost, PageInv
<1>2. /\ page \in [Clients -> Pages \cup {NoPage}] /\ selected \in [Pages -> Clients \cup {NoClient}]
      /\ phase \in [Clients -> Phases] /\ left \in [Clients -> Phases]
  BY DEF BrowserTypeOK
<1>3. /\ page'[c] = p /\ \A d \in Clients \ {c} : page'[d] = page[d]
      /\ selected'[p] = c /\ \A o \in Pages \ {p} : selected'[o] = selected[o]
  BY <1>1, <1>2
<1>4. s # NoClient => s \in Clients /\ s # c /\ page[s] = p
  BY <1>1, <1>2, ClientAssumption DEF PageInv
<1>5. /\ phase'[c] = "ticket"
      /\ \A d \in Clients \ {c, s} : phase'[d] = phase[d] /\ left'[d] = left[d]
      /\ s # NoClient => /\ phase'[s] = AfterDisconnect(s) /\ left'[s] = phase[s]
  <2>1. CASE s = NoClient
    BY <1>2, <2>1 DEF SelectHost
  <2>2. CASE s # NoClient
    <3>1. /\ phase' = [phase EXCEPT ![s] = AfterDisconnect(s), ![c] = "ticket"]
          /\ left' = [left EXCEPT ![s] = phase[s]]
      BY <2>2 DEF SelectHost, Disconnect
    <3>. QED
      BY <1>2, <1>4, <2>2, <3>1
  <2>. QED
    BY <2>1, <2>2
<1>6. s # NoClient => /\ phase[s] # "new"
                      /\ phase'[s] = "closed" \/ (phase'[s] = "ticket" /\ left'[s] = "ticket")
  BY <1>4, <1>5, ClientAssumption DEF AfterDisconnect, PageInv
<1>. HIDE DEF s
<1>7. \A d \in Clients : phase'[d] = "new" <=> page'[d] = NoPage
  <2>1. p # NoPage
    BY ClientAssumption
  <2>2. ASSUME NEW d \in Clients
        PROVE  phase'[d] = "new" <=> page'[d] = NoPage
    <3>1. d = s => s # NoClient
      BY ClientAssumption
    <3>2. CASE d = c
      BY <1>3, <1>5, <2>1, <3>2
    <3>3. CASE d = s
      BY <1>3, <1>4, <1>6, <2>1, <3>1, <3>3
    <3>4. CASE d \notin {c, s}
      BY <1>3, <1>5, <3>4 DEF PageInv
    <3>. QED
      BY <3>2, <3>3, <3>4
  <2>. QED
    BY <2>2
<1>8. \A o \in Pages : selected'[o] # NoClient => page'[selected'[o]] = o
  <2>1. ASSUME NEW o \in Pages \ {p}, selected[o] # NoClient
        PROVE  page'[selected[o]] = o
    <3>1. selected[o] \in Clients /\ page[selected[o]] = o /\ o # NoPage
      BY <1>2, <2>1, ClientAssumption DEF PageInv
    <3>. QED
      BY <1>1, <1>3, <3>1
  <2>. QED
    BY <1>3, <2>1
<1>9. ASSUME NEW d \in Clients, page'[d] # NoPage
      PROVE  selected'[page'[d]] = d \/ phase'[d] = "closed" \/ left'[d] = "ticket"
  <2>1. CASE d = c
    BY <1>3, <2>1
  <2>2. CASE d = s /\ s # NoClient
    BY <1>6, <2>2
  <2>3. CASE d \notin {c, s}
    <3>1. /\ page'[d] = page[d] /\ phase'[d] = phase[d] /\ left'[d] = left[d]
          /\ page[d] \in Pages
      BY <1>2, <1>3, <1>5, <1>9, <2>3
    <3>2. selected[page[d]] = d \/ phase[d] = "closed" \/ left[d] = "ticket"
      BY <1>9, <3>1 DEF PageInv
    <3>3. page[d] = p => selected[page[d]] # d
      BY <2>3 DEF s
    <3>. QED
      BY <1>3, <3>1, <3>2, <3>3
  <2>4. d = s => s # NoClient
    BY ClientAssumption
  <2>. QED
    BY <2>1, <2>2, <2>3, <2>4
<1>. QED
  BY <1>7, <1>8, <1>9 DEF PageInv

(* A client goes on, or closes, while the pages stay as they are.          *)
LEMMA SamePages ==
    ASSUME BrowserTypeOK, PageInv, page' = page, selected' = selected, NEW c \in Clients,
           left' = left, phase[c] \notin {"new", "closed"},
           NEW to, to # "new", phase' = [phase EXCEPT ![c] = to]
    PROVE  PageInv'
<1>1. phase'[c] = to /\ \A d \in Clients \ {c} : phase'[d] = phase[d]
  BY DEF BrowserTypeOK
<1>. QED
  BY <1>1 DEF PageInv

LEMMA PageStep ==
    ASSUME TypeInv, PageInv, [Next]_vars
    PROVE  PageInv'
<1>0. BrowserTypeOK
  BY TypeParts
<1>1. ASSUME NEW p \in Pages, NEW c \in Clients, NEW g, SelectHost(p, c, g)
      PROVE  PageInv'
  BY <1>0, <1>1, SelectHostPage
<1>2. ASSUME NEW p \in Pages, Leave(p)
      PROVE  PageInv'
  <2>. DEFINE s == selected[p]
  <2>1. s \in Clients /\ page[s] = p /\ p # NoPage /\ selected[page[s]] = s /\ phase[s] # "new"
    BY <1>0, <1>2, ClientAssumption DEF Leave, BrowserTypeOK, PageInv
  <2>2. /\ page' = page /\ selected' = selected
        /\ phase' = [phase EXCEPT ![s] = AfterDisconnect(s)]
        /\ left' = [left EXCEPT ![s] = phase[s]]
    BY <1>2 DEF Leave, Disconnect
  <2>3. /\ \A d \in Clients \ {s} : phase'[d] = phase[d] /\ left'[d] = left[d]
        /\ phase'[s] = AfterDisconnect(s) /\ AfterDisconnect(s) # "new"
    BY <1>0, <2>1, <2>2 DEF BrowserTypeOK, AfterDisconnect
  <2>. QED
    BY <2>1, <2>2, <2>3 DEF PageInv
<1>3. ASSUME NEW c \in Clients, Connecting(c)
      PROVE  PageInv'
  <2>1. CASE Subscribe(c)
    BY <2>1 DEF Subscribe, pageVars, clientVars, PageInv
  <2>2. CASE \/ TicketArrives(c) \/ TicketFails(c) \/ ConnectTimesOut(c)
             \/ SocketOpens(c) \/ SocketOpensLate(c) \/ SocketEnds(c)
    <3>1. /\ phase[c] \notin {"new", "closed"}
          /\ \E to : to # "new" /\ Goto(c, to)
      BY <2>2 DEF TicketArrives, TicketFails, ConnectTimesOut, SocketOpens, SocketOpensLate,
                  SocketEnds, HasSocket
    <3>2. PICK to : to # "new" /\ Goto(c, to)
      BY <3>1
    <3>3. page' = page /\ selected' = selected /\ left' = left /\ phase' = [phase EXCEPT ![c] = to]
      BY <3>2 DEF Goto, pageVars
    <3>. QED
      BY <1>0, <3>1, <3>2, <3>3, SamePages
  <2>. QED
    BY <1>3, <2>1, <2>2 DEF Connecting
<1>4. ASSUME UNCHANGED <<pageVars, phase>>
      PROVE  PageInv'
  BY <1>4 DEF pageVars, PageInv
<1>5. ASSUME NEW c \in Clients, Receiving(c) \/ UserRequest(c)
      PROVE  UNCHANGED <<pageVars, phase>>
  BY <1>5 DEF Receiving, ReceiveResync, DropOversized, Ignore, Receive, Taken, UserRequest,
              clientVars
<1>6. ASSUME NEW n, RequestFails(n) \/ Forward(n) \/ Answer(n)
      PROVE  UNCHANGED <<pageVars, phase>>
  BY <1>6 DEF RequestFails, Forward, Answer, Publish, clientVars
<1>7. ASSUME Notify \/ NumberForOthers \/ RestartAgent \/ UNCHANGED vars
      PROVE  UNCHANGED <<pageVars, phase>>
  BY <1>7 DEF Notify, Publish, NumberForOthers, RestartAgent, vars, clientVars
<1>. QED
  BY <1>1, <1>2, <1>3, <1>4, <1>5, <1>6, <1>7 DEF Next

(* A page hears its host through one client at a time, except through one  *)
(* that it left while the ticket was on its way.                           *)
THEOREM PagesHearOneClient == Spec => []OneSocketPerPage
<1>1. Init => TypeInv /\ PageInv
  <2>1. Init => PageInv
    BY DEF Init, PageInv
  <2>. QED
    BY <2>1, TypeInit
<1>2. TypeInv /\ PageInv /\ [Next]_vars => TypeInv' /\ PageInv'
  BY TypeStep, PageStep
<1>3. TypeInv /\ PageInv => OneSocketPerPage
  BY DEF PageInv, OneSocketPerPage, Receives
<1>. QED
  BY <1>1, <1>2, <1>3, PTL DEF Spec

(***************************************************************************)
(* How a page learns of a loss.                                            *)
(***************************************************************************)
Before(x, y) == x.run < y.run \/ (x.run = y.run /\ x.sequence < y.sequence)

\* x has been published.
Within(x, r, s) == x.run < r \/ (x.run = r /\ x.sequence <= s)
Past(x) == Within(x, run, sequence)

\* x comes before all that q brings; q brings its envelopes in order.
Ahead(x, q) == \A i \in DOMAIN q : q[i] # Resync => Before(x, q[i])
Increasing(q) == \A i, j \in DOMAIN q : i < j /\ q[i] # Resync => Before(q[i], q[j])

LastOf(c) == [run |-> span[c].run, sequence |-> span[c].to]

\* What a socket brings is in the order of its numbers, later than what was
\* handled and than what was missed.
OrderInv ==
    \A c \in Clients :
        /\ Increasing(queue[c])
        /\ \A i \in DOMAIN queue[c] : queue[c][i] # Resync => Past(queue[c][i])
        /\ \A e \in missed[c] : Past(e) /\ Ahead(e, queue[c])
        /\ Past(LastOf(c)) /\ Ahead(LastOf(c), queue[c])

\* The last number handled is the end of the span.
SpanInv ==
    \A c \in Clients : /\ span[c].to = lastSequence[c]
                       /\ span[c].run # 0 => lastSequence[c] # 0

NoticeOrderInv == OrderInv /\ SpanInv /\ LossIsNoticed

LEMMA TailOrder ==
    ASSUME NEW q \in Seq(Items), q # <<>>, NoticeFirst(q), Increasing(q)
    PROVE  /\ Increasing(Tail(q)) /\ \A x : Ahead(x, q) => Ahead(x, Tail(q))
           /\ Head(q) # Resync => Ahead(Head(q), Tail(q))
           /\ Head(q) # Resync => \A x : Ahead(x, q) => Before(x, Head(q))
<1>1. /\ Head(q) = q[1] /\ 1 \in DOMAIN q
      /\ DOMAIN q = 1 .. Len(q) /\ DOMAIN Tail(q) = 1 .. Len(q) - 1 /\ Len(q) \in Nat \ {0}
      /\ \A i \in 1 .. Len(q) - 1 : Tail(q)[i] = q[i + 1] /\ i + 1 \in DOMAIN q
  BY TailItems
<1>2. \A x : Ahead(x, q) => Ahead(x, Tail(q))
  BY <1>1 DEF Ahead
<1>3. Increasing(Tail(q))
  <2>1. ASSUME NEW i \in 1 .. Len(q) - 1, NEW j \in 1 .. Len(q) - 1, i < j, Tail(q)[i] # Resync
        PROVE  Before(Tail(q)[i], Tail(q)[j])
    <3>1. i + 1 < j + 1 /\ i + 1 \in DOMAIN q /\ j + 1 \in DOMAIN q
      BY <1>1, <2>1
    <3>. QED
      BY <1>1, <2>1, <3>1 DEF Increasing
  <2>. QED
    BY <1>1, <2>1 DEF Increasing
<1>4. Head(q) # Resync => Ahead(Head(q), Tail(q))
  <2>1. ASSUME NEW i \in 1 .. Len(q) - 1, Head(q) # Resync
        PROVE  Before(Head(q), Tail(q)[i])
    <3>1. 1 < i + 1 /\ i + 1 \in DOMAIN q
      BY <1>1
    <3>. QED
      BY <1>1, <2>1, <3>1 DEF Increasing
  <2>. QED
    BY <1>1, <2>1 DEF Ahead
<1>. QED
  BY <1>1, <1>2, <1>3, <1>4 DEF Ahead

(* A step that brings nothing new to c.                                    *)
QueueOrder(c) ==
    /\ Increasing(queue[c])
    /\ \A i \in DOMAIN queue[c] : queue[c][i] # Resync => Past(queue[c][i])

LEMMA DrainedOrder ==
    ASSUME TypeInv, OrderInv, NEW c \in Clients, Drained(c), UNCHANGED <<run, sequence>>
    PROVE  QueueOrder(c)' /\ \A x : Ahead(x, queue[c]) => Ahead(x, queue'[c])
<1>1. queue[c] \in Seq(Items) /\ NoticeFirst(queue[c])
  BY QueueType
<1>2. \A x : Past(x)' = Past(x)
  BY DEF Past
<1>3. QueueOrder(c)
  BY DEF OrderInv, QueueOrder
<1>4. CASE queue'[c] = queue[c]
  BY <1>2, <1>3, <1>4 DEF QueueOrder
<1>5. CASE queue'[c] = <<>>
  BY <1>5 DEF QueueOrder, Increasing, Ahead
<1>6. CASE queue[c] # <<>> /\ queue'[c] = Tail(queue[c])
  <2>1. Increasing(queue'[c]) /\ \A x : Ahead(x, queue[c]) => Ahead(x, queue'[c])
    BY <1>1, <1>3, <1>6, TailOrder DEF QueueOrder
  <2>2. \A i \in DOMAIN queue'[c] : \E j \in DOMAIN queue[c] : queue'[c][i] = queue[c][j]
    BY <1>1, <1>6, TailItems
  <2>. QED
    BY <1>2, <1>3, <2>1, <2>2 DEF QueueOrder
<1>. QED
  BY <1>4, <1>5, <1>6 DEF Drained

LEMMA QuietOrder ==
    ASSUME TypeInv, NoticeOrderInv, \A c \in Clients : Drained(c),
           UNCHANGED <<run, sequence, missed, span, lastSequence>>
    PROVE  NoticeOrderInv'
<1>1. ASSUME NEW c \in Clients
      PROVE  /\ QueueOrder(c)'
             /\ \A e \in missed'[c] : Past(e)' /\ Ahead(e, queue'[c])
             /\ Past(LastOf(c))' /\ Ahead(LastOf(c)', queue'[c])
  <2>1. QueueOrder(c)' /\ \A x : Ahead(x, queue[c]) => Ahead(x, queue'[c])
    BY DrainedOrder DEF NoticeOrderInv
  <2>2. /\ \A e \in missed[c] : Past(e) /\ Ahead(e, queue[c])
        /\ Past(LastOf(c)) /\ Ahead(LastOf(c), queue[c])
    BY DEF NoticeOrderInv, OrderInv
  <2>3. LastOf(c)' = LastOf(c) /\ \A x : Past(x)' = Past(x)
    BY DEF LastOf, Past
  <2>4. Past(LastOf(c))'
    BY <2>2 DEF LastOf, Past
  <2>. QED
    BY <2>1, <2>2, <2>3, <2>4
<1>2. OrderInv'
  BY <1>1 DEF OrderInv, QueueOrder
<1>3. SpanInv' /\ LossIsNoticed'
  BY DEF NoticeOrderInv, SpanInv, LossIsNoticed
<1>. QED
  BY <1>2, <1>3 DEF NoticeOrderInv

(* The agent numbers on, or starts again.                                  *)
Later == run' > run \/ (run' = run /\ sequence' >= sequence)

LEMMA PastStays ==
    ASSUME TypeInv, Later, run' \in Nat, sequence' \in Nat, NEW x, x.run \in Nat,
           x.sequence \in Nat, Past(x)
    PROVE  Within(x, run', sequence')
BY DEF TypeInv, TypeOK, Later, Past, Within

LEMMA MissedAndLast ==
    ASSUME TypeInv, NEW c \in Clients
    PROVE  /\ missed[c] \subseteq Envelopes
           /\ LastOf(c).run = span[c].run /\ LastOf(c).sequence = span[c].to
           /\ span[c].run \in Nat /\ span[c].to \in Nat /\ span[c].from \in Nat
           /\ lastSequence[c] \in Nat
BY DEF TypeInv, TypeOK, LastOf

LEMMA NumberingOrder ==
    ASSUME TypeInv, NoticeOrderInv, UNCHANGED <<queue, missed, span, lastSequence>>,
           Later, run' \in Nat, sequence' \in Nat
    PROVE  NoticeOrderInv'
<1>1. ASSUME NEW c \in Clients
      PROVE  /\ QueueOrder(c)'
             /\ \A e \in missed'[c] : Past(e)' /\ Ahead(e, queue'[c])
             /\ Past(LastOf(c))' /\ Ahead(LastOf(c)', queue'[c])
  <2>1. /\ QueueOrder(c) /\ Past(LastOf(c)) /\ Ahead(LastOf(c), queue[c])
        /\ \A e \in missed[c] : Past(e) /\ Ahead(e, queue[c])
    BY DEF NoticeOrderInv, OrderInv, QueueOrder
  <2>2. \A i \in DOMAIN queue[c] : queue[c][i] # Resync => queue[c][i] \in Envelopes
    BY QueueType DEF Items
  <2>3. \A e \in Envelopes : Past(e) => Past(e)'
    BY PastStays, ItemKinds DEF Past
  <2>4. QueueOrder(c)'
    BY <2>1, <2>2, <2>3 DEF QueueOrder
  <2>5. \A e \in missed'[c] : Past(e)' /\ Ahead(e, queue'[c])
    BY <2>1, <2>3, MissedAndLast
  <2>6. Past(LastOf(c))' /\ Ahead(LastOf(c)', queue'[c])
    <3>1. LastOf(c)' = LastOf(c)
      BY DEF LastOf
    <3>2. Within(LastOf(c), run', sequence')
      BY <2>1, MissedAndLast, PastStays
    <3>. QED
      BY <2>1, <3>1, <3>2 DEF Past
  <2>. QED
    BY <2>4, <2>5, <2>6
<1>2. OrderInv'
  BY <1>1 DEF OrderInv, QueueOrder
<1>3. SpanInv' /\ LossIsNoticed'
  BY DEF NoticeOrderInv, SpanInv, LossIsNoticed
<1>. QED
  BY <1>2, <1>3 DEF NoticeOrderInv

(* A queue takes the newest envelope, and may lose its oldest.             *)
LEMMA MovedOrder ==
    ASSUME NEW q \in Seq(Items), NoticeFirst(q), Increasing(q), NEW e, NEW d \in {0, 1},
           NEW new, Moved(q, new, e, d),
           \A i \in DOMAIN q : q[i] # Resync => Before(q[i], e)
    PROVE  /\ Increasing(new)
           /\ \A i \in DOMAIN new : new[i] = Resync \/ new[i] = e \/ \E j \in DOMAIN q : new[i] = q[j]
           /\ \A x : Ahead(x, q) /\ Before(x, e) => Ahead(x, new)
           /\ Full(q) => /\ Ahead(Head(Kept(q)), new) /\ Head(Kept(q)) # Resync
                         /\ \E j \in DOMAIN q : Head(Kept(q)) = q[j]
<1>1. /\ new \in Seq(Items) /\ NoticeFirst(new)
      /\ d <= Len(q) /\ Len(new) = Len(q) + 1 - d /\ new[Len(new)] = e
      /\ \A i \in 1 .. Len(q) - d : new[i] # Resync => new[i] = q[i + d]
  BY DEF Moved
<1>2. Len(q) \in Nat /\ DOMAIN q = 1 .. Len(q) /\ DOMAIN new = 1 .. Len(q) + 1 - d
  BY <1>1
<1>3. \A i \in DOMAIN new : i = Len(new) \/ (i \in 1 .. Len(q) - d /\ i + d \in DOMAIN q)
  BY <1>1, <1>2
<1>4. \A i \in DOMAIN new : new[i] = Resync \/ new[i] = e \/ \E j \in DOMAIN q : new[i] = q[j]
  BY <1>1, <1>3
<1>5. Increasing(new)
  <2>1. ASSUME NEW i \in DOMAIN new, NEW j \in DOMAIN new, i < j, new[i] # Resync
        PROVE  Before(new[i], new[j])
    <3>1. i \in 1 .. Len(q) - d /\ i + d \in DOMAIN q /\ new[i] = q[i + d]
      BY <1>1, <1>2, <1>3, <2>1
    <3>2. CASE j = Len(new)
      BY <1>1, <2>1, <3>1, <3>2
    <3>3. CASE j \in 1 .. Len(q) - d /\ j + d \in DOMAIN q
      <4>1. new[j] # Resync
        BY <1>1, <2>1, <1>2 DEF NoticeFirst
      <4>2. new[j] = q[j + d] /\ i + d < j + d
        BY <1>1, <2>1, <3>1, <3>3, <4>1
      <4>. QED
        BY <2>1, <3>1, <3>3, <4>2 DEF Increasing
    <3>. QED
      BY <1>3, <3>2, <3>3
  <2>. QED
    BY <2>1 DEF Increasing
<1>6. ASSUME NEW x, Ahead(x, q), Before(x, e)
      PROVE  Ahead(x, new)
  BY <1>1, <1>4, <1>6 DEF Ahead
<1>7. ASSUME Full(q)
      PROVE  /\ Ahead(Head(Kept(q)), new) /\ Head(Kept(q)) # Resync
             /\ \E j \in DOMAIN q : Head(Kept(q)) = q[j]
  <2>. DEFINE x == Head(Kept(q))
  <2>1. d + 1 <= Len(q) /\ new[1] = Resync /\ x = q[1 + d] /\ x # Resync /\ 1 + d \in DOMAIN q
    BY <1>2, <1>7, ItemKinds DEF Moved
  <2>2. ASSUME NEW i \in DOMAIN new, new[i] # Resync
        PROVE  Before(x, new[i])
    <3>1. CASE i = Len(new)
      BY <1>1, <2>1, <3>1
    <3>2. CASE i \in 1 .. Len(q) - d /\ i + d \in DOMAIN q
      <4>1. i # 1 /\ 1 + d < i + d /\ new[i] = q[i + d]
        BY <1>1, <2>1, <2>2, <3>2
      <4>. QED
        BY <2>1, <3>2, <4>1 DEF Increasing
    <3>. QED
      BY <1>3, <3>1, <3>2
  <2>. QED
    BY <2>1, <2>2 DEF Ahead
<1>. QED
  BY <1>4, <1>5, <1>6, <1>7

LEMMA PublishOrder ==
    ASSUME TypeInv, NoticeOrderInv, NEW e \in Envelopes, Publish(e),
           e.run = run, e.sequence = sequence + 1
    PROVE  NoticeOrderInv'
<1>1. /\ sequence' = sequence + 1 /\ run' = run /\ lastSequence' = lastSequence /\ span' = span
      /\ queue' = [c \in Clients |-> IF c \in listening THEN Queued(queue[c], e) ELSE queue[c]]
      /\ missed' = [c \in Clients |->
                     IF c \in listening /\ Full(queue[c])
                        /\ Head(Kept(queue[c])).generation = hostGeneration[c]
                     THEN missed[c] \cup {Head(Kept(queue[c]))} ELSE missed[c]]
  BY DEF Publish, clientVars
<1>2. run \in Nat /\ sequence \in Nat
  BY DEF TypeInv, TypeOK
<1>3. \A x \in Envelopes : Past(x) => Past(x)' /\ Before(x, e)
  BY <1>1, <1>2, ItemKinds DEF Past, Within, Before
<1>4. Within(e, run', sequence')
  BY <1>1, <1>2 DEF Within
<1>5. ASSUME NEW c \in Clients
      PROVE  /\ QueueOrder(c)'
             /\ \A x \in missed'[c] : Past(x)' /\ Ahead(x, queue'[c])
             /\ Past(LastOf(c))' /\ Ahead(LastOf(c)', queue'[c])
             /\ \A x \in missed'[c] : x \in missed[c] \/ Before(LastOf(c), x)
  <2>. DEFINE q == queue[c]
              new == Queued(q, e)
  <2>1. /\ q \in Seq(Items) /\ NoticeFirst(q)
        /\ \A i \in DOMAIN q : q[i] # Resync => q[i] \in Envelopes
    BY QueueType DEF Items
  <2>2. /\ Increasing(q) /\ \A i \in DOMAIN q : q[i] # Resync => Past(q[i])
        /\ \A x \in missed[c] : Past(x) /\ Ahead(x, q)
        /\ Past(LastOf(c)) /\ Ahead(LastOf(c), q)
    BY DEF NoticeOrderInv, OrderInv
  <2>3. LastOf(c)' = LastOf(c) /\ Past(LastOf(c))' /\ Before(LastOf(c), e)
    <3>1. LastOf(c)' = LastOf(c)
      BY <1>1 DEF LastOf
    <3>2. LastOf(c).run < run \/ (LastOf(c).run = run /\ LastOf(c).sequence <= sequence)
      BY <2>2 DEF Past, Within
    <3>. QED
      BY <1>1, <1>2, <3>1, <3>2, MissedAndLast DEF Past, Within, Before
  <2>4. \A i \in DOMAIN q : q[i] # Resync => Before(q[i], e) /\ Within(q[i], run', sequence')
    BY <1>3, <2>1, <2>2 DEF Past
  <2>5. \A x \in missed[c] : Past(x)' /\ Before(x, e)
    BY <1>3, <2>2, MissedAndLast
  <2>6. PICK d \in {0, 1} : Moved(q, new, e, d)
    BY <2>1, QueuedMoves
  <2>7. /\ Increasing(new)
        /\ \A i \in DOMAIN new : new[i] = Resync \/ new[i] = e \/ \E j \in DOMAIN q : new[i] = q[j]
        /\ \A x : Ahead(x, q) /\ Before(x, e) => Ahead(x, new)
        /\ Full(q) => /\ Ahead(Head(Kept(q)), new) /\ Head(Kept(q)) # Resync
                      /\ \E j \in DOMAIN q : Head(Kept(q)) = q[j]
    BY <2>1, <2>2, <2>4, <2>6, MovedOrder
  <2>. HIDE DEF new
  <2>8. CASE c \notin listening
    <3>1. queue'[c] = q /\ missed'[c] = missed[c]
      BY <1>1, <2>8
    <3>. QED
      BY <2>2, <2>3, <2>4, <2>5, <3>1 DEF QueueOrder, Past
  <2>9. CASE c \in listening
    <3>1. queue'[c] = new
      BY <1>1, <2>9 DEF new
    <3>2. QueueOrder(c)'
      BY <1>4, <2>4, <2>7, <3>1 DEF QueueOrder, Past
    <3>3. Ahead(LastOf(c)', queue'[c])
      BY <2>2, <2>3, <2>7, <3>1
    <3>4. \A x \in missed[c] : Past(x)' /\ Ahead(x, queue'[c])
      BY <2>2, <2>5, <2>7, <3>1
    <3>5. \A x \in missed'[c] : x \in missed[c] \/ (Full(q) /\ x = Head(Kept(q)))
      BY <1>1, <2>9
    <3>6. Full(q) => /\ Within(Head(Kept(q)), run', sequence')
                     /\ Ahead(Head(Kept(q)), queue'[c]) /\ Before(LastOf(c), Head(Kept(q)))
      <4>1. ASSUME Full(q), NEW j \in DOMAIN q, Head(Kept(q)) = q[j]
            PROVE  Within(q[j], run', sequence') /\ Before(LastOf(c), q[j])
        BY <2>2, <2>4, <2>7, <4>1 DEF Ahead
      <4>. QED
        BY <2>7, <3>1, <4>1
    <3>7. \A x \in missed'[c] : Past(x)' /\ Ahead(x, queue'[c])
      BY <3>4, <3>5, <3>6 DEF Past
    <3>8. \A x \in missed'[c] : x \in missed[c] \/ Before(LastOf(c), x)
      BY <3>5, <3>6
    <3>. QED
      BY <2>3, <3>2, <3>3, <3>7, <3>8
  <2>. QED
    BY <2>8, <2>9
<1>6. OrderInv'
  BY <1>5 DEF OrderInv, QueueOrder
<1>7. SpanInv'
  BY <1>1 DEF NoticeOrderInv, SpanInv
<1>8. LossIsNoticed'
  <2>1. ASSUME NEW c \in Clients, NEW x \in missed'[c], x.run = span[c].run
        PROVE  x.sequence < span[c].from \/ x.sequence > span[c].to
    <3>1. CASE x \in missed[c]
      BY <2>1, <3>1 DEF NoticeOrderInv, LossIsNoticed
    <3>2. CASE Before(LastOf(c), x)
      BY <2>1, <3>2, MissedAndLast DEF Before
    <3>. QED
      BY <1>5, <2>1, <3>1, <3>2
  <2>. QED
    BY <1>1, <2>1 DEF LossIsNoticed
<1>. QED
  BY <1>6, <1>7, <1>8 DEF NoticeOrderInv

LEMMA TakenOrder ==
    ASSUME TypeInv, NoticeOrderInv, NEW c \in Clients, Taken(c)
    PROVE  /\ UNCHANGED <<run, sequence>>
           /\ \A d \in Clients : QueueOrder(d)' /\ \A x : Ahead(x, queue[d]) => Ahead(x, queue'[d])
           /\ NextEvent(c) # Resync =>
                 /\ NextEvent(c) \in Envelopes /\ Past(NextEvent(c))
                 /\ Ahead(NextEvent(c), queue'[c])
                 /\ \A x : Ahead(x, queue[c]) => Before(x, NextEvent(c))
<1>1. /\ queue[c] # <<>> /\ queue' = [queue EXCEPT ![c] = Tail(queue[c])]
      /\ UNCHANGED <<run, sequence>>
  BY DEF Taken, agentVars
<1>2. queue \in [Clients -> Seq(Items)] /\ queue[c] \in Seq(Items) /\ NoticeFirst(queue[c])
  BY QueueType
<1>3. \A d \in Clients : Drained(d)
  BY <1>1, <1>2 DEF Drained
<1>4. \A d \in Clients : QueueOrder(d)' /\ \A x : Ahead(x, queue[d]) => Ahead(x, queue'[d])
  BY <1>1, <1>3, DrainedOrder DEF NoticeOrderInv
<1>5. NextEvent(c) = queue[c][1] /\ 1 \in DOMAIN queue[c] /\ NextEvent(c) \in Items
  BY <1>1, <1>2, TailItems DEF NextEvent
<1>6. queue'[c] = Tail(queue[c]) /\ Increasing(queue[c])
  BY <1>1, <1>2 DEF NoticeOrderInv, OrderInv
<1>7. NextEvent(c) # Resync =>
         /\ Ahead(NextEvent(c), queue'[c])
         /\ \A x : Ahead(x, queue[c]) => Before(x, NextEvent(c))
  BY <1>1, <1>2, <1>6, TailOrder DEF NextEvent
<1>8. NextEvent(c) # Resync => Past(NextEvent(c)) /\ NextEvent(c) \in Envelopes
  BY <1>5 DEF NoticeOrderInv, OrderInv, Items
<1>. QED
  BY <1>1, <1>4, <1>7, <1>8

(* What c has missed after it took an envelope e, dropped or ignored.      *)
LEMMA DroppedOrder ==
    ASSUME TypeInv, NoticeOrderInv, NEW c \in Clients, DropOversized(c) \/ Ignore(c)
    PROVE  NoticeOrderInv'
<1>. DEFINE e == NextEvent(c)
<1>1. /\ Taken(c) /\ e # Resync /\ UNCHANGED <<lastSequence, span>>
      /\ missed' = [missed EXCEPT ![c] = IF IsMine(c, e) THEN @ \cup {e} ELSE @]
  BY DEF DropOversized, Ignore
<1>2. /\ UNCHANGED <<run, sequence>>
      /\ \A d \in Clients : QueueOrder(d)' /\ \A x : Ahead(x, queue[d]) => Ahead(x, queue'[d])
      /\ e \in Envelopes /\ Past(e) /\ Ahead(e, queue'[c])
      /\ \A x : Ahead(x, queue[c]) => Before(x, e)
  BY <1>1, TakenOrder
<1>. HIDE DEF e
<1>3. \A x : Past(x)' <=> Past(x)
  BY <1>2 DEF Past
<1>4. \A d \in Clients : \A x \in missed'[d] : x \in missed[d] \/ (d = c /\ x = e)
  BY <1>1 DEF TypeInv, TypeOK
<1>5. ASSUME NEW d \in Clients
      PROVE  /\ QueueOrder(d)'
             /\ \A x \in missed'[d] : Past(x)' /\ Ahead(x, queue'[d])
             /\ Past(LastOf(d))' /\ Ahead(LastOf(d)', queue'[d])
  <2>1. /\ \A x \in missed[d] : Past(x) /\ Ahead(x, queue[d])
        /\ Past(LastOf(d)) /\ Ahead(LastOf(d), queue[d])
    BY DEF NoticeOrderInv, OrderInv
  <2>2. LastOf(d)' = LastOf(d)
    BY <1>1 DEF LastOf
  <2>3. Past(LastOf(d))'
    BY <1>2, <2>1, <2>2 DEF Past
  <2>4. \A x \in missed'[d] : Past(x)' /\ Ahead(x, queue'[d])
    BY <1>2, <1>3, <1>4, <2>1
  <2>. QED
    BY <1>2, <2>1, <2>2, <2>3, <2>4
<1>6. OrderInv'
  BY <1>5 DEF OrderInv, QueueOrder
<1>7. SpanInv'
  BY <1>1 DEF NoticeOrderInv, SpanInv
<1>8. LossIsNoticed'
  <2>1. ASSUME NEW d \in Clients, NEW x \in missed'[d], x.run = span[d].run
        PROVE  x.sequence < span[d].from \/ x.sequence > span[d].to
    <3>1. CASE x \in missed[d]
      BY <2>1, <3>1 DEF NoticeOrderInv, LossIsNoticed
    <3>2. CASE d = c /\ x = e
      <4>1. Before(LastOf(c), e)
        BY <1>2 DEF NoticeOrderInv, OrderInv
      <4>. QED
        BY <2>1, <3>2, <4>1, MissedAndLast DEF Before
    <3>. QED
      BY <1>4, <2>1, <3>1, <3>2
  <2>. QED
    BY <1>1, <2>1 DEF LossIsNoticed
<1>. QED
  BY <1>6, <1>7, <1>8 DEF NoticeOrderInv

LEMMA ReceiveResyncOrder ==
    ASSUME TypeInv, NoticeOrderInv, NEW c \in Clients, ReceiveResync(c)
    PROVE  NoticeOrderInv'
<1>1. /\ Taken(c) /\ UNCHANGED <<lastSequence, span>>
      /\ missed' = [missed EXCEPT ![c] = {}]
  BY DEF ReceiveResync
<1>2. /\ UNCHANGED <<run, sequence>>
      /\ \A d \in Clients : QueueOrder(d)' /\ \A x : Ahead(x, queue[d]) => Ahead(x, queue'[d])
  BY <1>1, TakenOrder
<1>3. \A x : Past(x)' <=> Past(x)
  BY <1>2 DEF Past
<1>4. \A d \in Clients : missed'[d] \subseteq missed[d]
  BY <1>1 DEF TypeInv, TypeOK
<1>5. ASSUME NEW d \in Clients
      PROVE  /\ QueueOrder(d)'
             /\ \A x \in missed'[d] : Past(x)' /\ Ahead(x, queue'[d])
             /\ Past(LastOf(d))' /\ Ahead(LastOf(d)', queue'[d])
  <2>1. /\ \A x \in missed[d] : Past(x) /\ Ahead(x, queue[d])
        /\ Past(LastOf(d)) /\ Ahead(LastOf(d), queue[d])
    BY DEF NoticeOrderInv, OrderInv
  <2>2. LastOf(d)' = LastOf(d)
    BY <1>1 DEF LastOf
  <2>3. Past(LastOf(d))'
    BY <1>2, <2>1, <2>2 DEF Past
  <2>4. \A x \in missed'[d] : Past(x)' /\ Ahead(x, queue'[d])
    BY <1>2, <1>3, <1>4, <2>1
  <2>. QED
    BY <1>2, <2>1, <2>2, <2>3, <2>4
<1>6. OrderInv'
  BY <1>5 DEF OrderInv, QueueOrder
<1>7. SpanInv' /\ LossIsNoticed'
  BY <1>1, <1>4 DEF NoticeOrderInv, SpanInv, LossIsNoticed
<1>. QED
  BY <1>6, <1>7 DEF NoticeOrderInv

LEMMA ReceiveOrder ==
    ASSUME TypeInv, NoticeOrderInv, NEW c \in Clients, Receive(c)
    PROVE  NoticeOrderInv'
<1>. DEFINE e == NextEvent(c)
<1>1. /\ Taken(c) /\ e # Resync /\ e.sequence > lastSequence[c]
      /\ lastSequence' = [lastSequence EXCEPT ![c] = e.sequence]
      /\ missed' = [missed EXCEPT ![c] = IF Gap(c, e) THEN {} ELSE @]
      /\ span' = [span EXCEPT ![c] =
                      IF @.run = e.run THEN [@ EXCEPT !.to = e.sequence]
                      ELSE [run |-> e.run, from |-> e.sequence, to |-> e.sequence]]
  BY DEF Receive, IsMine
<1>2. /\ UNCHANGED <<run, sequence>>
      /\ \A d \in Clients : QueueOrder(d)' /\ \A x : Ahead(x, queue[d]) => Ahead(x, queue'[d])
      /\ e \in Envelopes /\ Past(e) /\ Ahead(e, queue'[c])
      /\ \A x : Ahead(x, queue[c]) => Before(x, e)
  BY <1>1, TakenOrder
<1>. HIDE DEF e
<1>3. \A x : Past(x)' <=> Past(x)
  BY <1>2 DEF Past
<1>4. e.run \in Nat \ {0} /\ e.sequence \in Nat
  BY <1>2, ItemKinds
<1>5. /\ missed \in [Clients -> SUBSET Envelopes] /\ lastSequence \in [Clients -> Nat]
      /\ span \in [Clients -> [run : Nat, from : Nat, to : Nat]]
  BY DEF TypeInv, TypeOK
<1>6. \A d \in Clients : missed'[d] \subseteq missed[d]
  BY <1>1, <1>5
<1>7. /\ lastSequence'[c] = e.sequence /\ span'[c].run = e.run /\ span'[c].to = e.sequence
      /\ span'[c].from = IF span[c].run = e.run THEN span[c].from ELSE e.sequence
      /\ Gap(c, e) => missed'[c] = {}
  BY <1>1, <1>4, <1>5
<1>8. \A d \in Clients \ {c} : lastSequence'[d] = lastSequence[d] /\ span'[d] = span[d]
  BY <1>1, <1>5
<1>9. LastOf(c)'.run = e.run /\ LastOf(c)'.sequence = e.sequence
  BY <1>7 DEF LastOf
<1>10. ASSUME NEW d \in Clients
       PROVE  /\ QueueOrder(d)'
              /\ \A x \in missed'[d] : Past(x)' /\ Ahead(x, queue'[d])
              /\ Past(LastOf(d))' /\ Ahead(LastOf(d)', queue'[d])
  <2>1. /\ \A x \in missed[d] : Past(x) /\ Ahead(x, queue[d])
        /\ Past(LastOf(d)) /\ Ahead(LastOf(d), queue[d])
    BY DEF NoticeOrderInv, OrderInv
  <2>2. CASE d = c
    <3>1. Within(LastOf(c)', run', sequence')
      BY <1>2, <1>9 DEF Past, Within
    <3>2. Ahead(LastOf(c)', queue'[c])
      BY <1>2, <1>9 DEF Ahead, Before
    <3>3. Past(LastOf(c))'
      BY <3>1 DEF Past
    <3>. QED
      BY <1>2, <1>3, <1>6, <2>1, <2>2, <3>2, <3>3
  <2>3. CASE d # c
    <3>1. LastOf(d)' = LastOf(d)
      BY <1>8, <2>3 DEF LastOf
    <3>2. Past(LastOf(d))'
      BY <1>2, <2>1, <3>1 DEF Past
    <3>. QED
      BY <1>2, <1>3, <1>6, <2>1, <3>1, <3>2
  <2>. QED
    BY <2>2, <2>3
<1>11. OrderInv'
  BY <1>10 DEF OrderInv, QueueOrder
<1>12. SpanInv'
  BY <1>1, <1>4, <1>5, <1>7, <1>8 DEF NoticeOrderInv, SpanInv
<1>13. ASSUME NEW d \in Clients, NEW x \in missed'[d], x.run = span'[d].run
       PROVE  x.sequence < span'[d].from \/ x.sequence > span'[d].to
  <2>0. x \in missed[d] /\ x \in Envelopes
    BY <1>5, <1>6, <1>13
  <2>1. CASE d # c
    BY <1>8, <1>13, <2>0, <2>1 DEF NoticeOrderInv, LossIsNoticed
  <2>2. CASE d = c
    <3>1. ~Gap(c, e) /\ x.run = e.run /\ x.run \in Nat \ {0} /\ x.sequence \in Nat
      BY <1>7, <1>13, <2>0, <2>2, ItemKinds
    <3>2. x.sequence < e.sequence
      <4>1. Before(x, e)
        BY <1>2, <2>0, <2>2 DEF NoticeOrderInv, OrderInv
      <4>. QED
        BY <1>4, <3>1, <4>1 DEF Before
    <3>3. CASE span[c].run # e.run
      BY <1>7, <2>2, <3>2, <3>3
    <3>4. CASE span[c].run = e.run
      <4>1. lastSequence[c] # 0 /\ span[c].to = lastSequence[c]
        BY <1>4, <3>4 DEF NoticeOrderInv, SpanInv
      <4>2. e.sequence = span[c].to + 1
        BY <3>1, <4>1 DEF Gap
      <4>3. x.sequence < span[c].from \/ x.sequence > span[c].to
        BY <2>0, <2>2, <3>1, <3>4 DEF NoticeOrderInv, LossIsNoticed
      <4>4. span[c].to \in Nat /\ span'[c].from = span[c].from
        BY <1>5, <1>7, <3>4
      <4>. QED
        BY <2>2, <3>1, <3>2, <4>2, <4>3, <4>4
    <3>. QED
      BY <3>3, <3>4
  <2>. QED
    BY <2>1, <2>2
<1>14. LossIsNoticed'
  BY <1>13 DEF LossIsNoticed
<1>. QED
  BY <1>11, <1>12, <1>14 DEF NoticeOrderInv

LEMMA AgentOrder ==
    ASSUME TypeInv, NoticeOrderInv,
           \/ \E n \in DOMAIN requests : Answer(n)
           \/ Notify \/ NumberForOthers \/ RestartAgent
    PROVE  NoticeOrderInv'
<1>1. ASSUME NEW n \in DOMAIN requests, Answer(n)
      PROVE  NoticeOrderInv'
  <2>1. n \in 0 .. MaxRequests
    BY BoundAssumption DEF TypeInv, TypeOK
  <2>. QED
    BY <1>1, <2>1, EnvelopeType, PublishOrder DEF Answer
<1>2. ASSUME Notify
      PROVE  NoticeOrderInv'
  <2>1. 0 \in 0 .. MaxRequests
    BY BoundAssumption
  <2>. QED
    BY <1>2, <2>1, EnvelopeType, PublishOrder DEF Notify
<1>3. ASSUME NumberForOthers \/ RestartAgent
      PROVE  NoticeOrderInv'
  <2>1. UNCHANGED <<queue, missed, span, lastSequence>>
    BY <1>3 DEF NumberForOthers, RestartAgent, wireVars, pastVars, clientVars
  <2>2. Later /\ run' \in Nat /\ sequence' \in Nat
    BY <1>3 DEF NumberForOthers, RestartAgent, Later, TypeInv, TypeOK
  <2>. QED
    BY <2>1, <2>2, NumberingOrder
<1>. QED
  BY <1>1, <1>2, <1>3

(* What the pages and the sockets do brings nothing new to a queue.        *)
LEMMA BrowserOrder ==
    ASSUME TypeInv, NoticeOrderInv,
           \/ \E p \in Pages : Leave(p)
           \/ \E p \in Pages, c \in Clients, g \in 1 .. generation : SelectHost(p, c, g)
           \/ \E c \in Clients : Connecting(c) \/ UserRequest(c)
           \/ \E n \in DOMAIN requests : RequestFails(n) \/ Forward(n)
           \/ UNCHANGED vars
    PROVE  NoticeOrderInv'
<1>0. TypeOK
  BY DEF TypeInv
<1>1. ASSUME \A d \in Clients : queue'[d] = queue[d] \/ queue'[d] = <<>>,
             UNCHANGED <<run, sequence, missed, span, lastSequence>>
      PROVE  NoticeOrderInv'
  <2>1. \A c \in Clients : Drained(c)
    BY <1>1 DEF Drained
  <2>. QED
    BY <1>1, <2>1, QuietOrder
<1>2. ASSUME NEW p \in Pages, Leave(p)
      PROVE  NoticeOrderInv'
  <2>1. selected[p] \in Clients /\ Disconnect(selected[p])
    BY <1>0, <1>2 DEF Leave, TypeOK
  <2>2. \A d \in Clients : queue'[d] = queue[d] \/ queue'[d] = <<>>
    BY <1>0, <2>1, DisconnectType
  <2>. QED
    BY <1>1, <1>2, <2>2 DEF Leave, agentVars, pastVars
<1>3. ASSUME NEW p \in Pages, NEW c \in Clients, NEW g \in 1 .. generation, SelectHost(p, c, g)
      PROVE  NoticeOrderInv'
  <2>1. CASE selected[p] = NoClient
    BY <1>1, <1>3, <2>1 DEF SelectHost, wireVars, agentVars, pastVars
  <2>2. CASE selected[p] # NoClient
    <3>1. selected[p] \in Clients /\ Disconnect(selected[p])
      BY <1>0, <1>3, <2>2 DEF SelectHost, TypeOK
    <3>2. \A d \in Clients : queue'[d] = queue[d] \/ queue'[d] = <<>>
      BY <1>0, <3>1, DisconnectType
    <3>. QED
      BY <1>1, <1>3, <3>2 DEF SelectHost, agentVars, pastVars
  <2>. QED
    BY <2>1, <2>2
<1>4. ASSUME NEW c \in Clients, Connecting(c)
      PROVE  NoticeOrderInv'
  <2>1. UNCHANGED <<run, sequence, missed, span, lastSequence>>
    BY <1>4 DEF Connecting, TicketArrives, TicketFails, ConnectTimesOut, SocketOpens,
                SocketOpensLate, SocketEnds, Subscribe, Goto, clientVars, agentVars, pastVars
  <2>2. queue' = queue \/ queue' = [queue EXCEPT ![c] = <<>>]
    BY <1>4 DEF Connecting, TicketArrives, TicketFails, ConnectTimesOut, SocketOpens,
                SocketOpensLate, SocketEnds, Subscribe, wireVars
  <2>. QED
    BY <1>0, <1>1, <2>1, <2>2, EmptyQueue
<1>5. ASSUME NEW c \in Clients, UserRequest(c)
      PROVE  NoticeOrderInv'
  BY <1>1, <1>5 DEF UserRequest, clientVars, wireVars, agentVars, pastVars
<1>6. ASSUME NEW n \in DOMAIN requests, RequestFails(n) \/ Forward(n)
      PROVE  NoticeOrderInv'
  BY <1>1, <1>6 DEF RequestFails, Forward, clientVars, wireVars, agentVars, pastVars
<1>7. ASSUME UNCHANGED vars
      PROVE  NoticeOrderInv'
  BY <1>1, <1>7 DEF vars, clientVars, wireVars, agentVars, pastVars
<1>. QED
  BY <1>2, <1>3, <1>4, <1>5, <1>6, <1>7

LEMMA OrderStep ==
    ASSUME TypeInv, NoticeOrderInv, [Next]_vars
    PROVE  NoticeOrderInv'
<1>1. ASSUME NEW c \in Clients, Receiving(c)
      PROVE  NoticeOrderInv'
  BY <1>1, ReceiveResyncOrder, DroppedOrder, ReceiveOrder DEF Receiving
<1>. QED
  BY <1>1, AgentOrder, BrowserOrder DEF Next

(* A page learns of every loss between two envelopes of one run that it    *)
(* handled: the numbers arrive in order, so that the next one after a loss *)
(* leaves a gap.                                                           *)
THEOREM LossesAreNoticed == Spec => []LossIsNoticed
<1>1. Init => TypeInv /\ NoticeOrderInv
  <2>1. ASSUME Init, NEW c \in Clients
        PROVE  /\ queue[c] = <<>> /\ missed[c] = {} /\ lastSequence[c] = 0
               /\ span[c].run = 0 /\ span[c].to = 0 /\ run = 1 /\ LastOf(c).run = 0
    BY <2>1 DEF Init, NoSpan, LastOf
  <2>2. Init => OrderInv
    BY <2>1 DEF OrderInv, Increasing, Ahead, Past, Within
  <2>3. Init => SpanInv /\ LossIsNoticed
    BY <2>1 DEF SpanInv, LossIsNoticed
  <2>. QED
    BY <2>2, <2>3, TypeInit DEF NoticeOrderInv
<1>2. TypeInv /\ NoticeOrderInv /\ [Next]_vars => TypeInv' /\ NoticeOrderInv'
  BY TypeStep, OrderStep
<1>3. NoticeOrderInv => LossIsNoticed
  BY DEF NoticeOrderInv
<1>. QED
  BY <1>1, <1>2, <1>3, PTL DEF Spec
=============================================================================
