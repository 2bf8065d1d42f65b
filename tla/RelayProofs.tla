----------------------------- MODULE RelayProofs ------------------------------
(***************************************************************************)
(* Theorems about a relay connection, for any segments that arrive, any    *)
(* messages that go out and any limits: type correctness, what the         *)
(* reassembly hands to the page and how much of it waits, the order of     *)
(* what is written to the relay, and what a disconnect leaves unwritten.   *)
(***************************************************************************)
EXTENDS RelayConnection, FiniteSetTheorems, SequenceTheorems, TLAPS

(***************************************************************************)
(* Reassembly.                                                             *)
(***************************************************************************)
LEMMA SegmentFields ==
    ASSUME NEW e \in Segments
    PROVE  /\ e.seq \in Seqs /\ e.id \in Nat /\ e.count \in Nat /\ e.size \in Nat
           /\ e.bytes \in Nat /\ e.of \in Messages /\ e.ours \in BOOLEAN
           /\ e.kind \in {"whole", "chunk"}
BY SegmentsAssumption DEF Envelopes

LEMMA FoundType ==
    ASSUME ReassemblyTypeOK, NEW e \in Segments
    PROVE  /\ Found(e) \in Assemblies
           /\ Stored(e) \in SUBSET Segments
           /\ [Found(e) EXCEPT !.held = Stored(e)] \in Assemblies
<1>1. Found(e) \in Assemblies
  BY SegmentFields DEF ReassemblyTypeOK, Found, Open, Assemblies
<1>. QED
  BY <1>1 DEF Stored, Assemblies

LEMMA OpenIsFinite == IsFiniteSet(Open) /\ Cardinality(Open) \in Nat
BY SeqsAssumption, FS_Subset, FS_CardinalityType DEF Open

LEMMA SurvivorsStay == ASSUME NEW k PROVE Survivors(k) \subseteq Open
<1>. Cardinality(Open) \in Nat /\ MaxAssemblies \in Nat
  BY OpenIsFinite, LimitsAssumption
<1>. QED
  BY DEF Survivors

(* What Update leaves of the table, with nothing in it that was not open.  *)
LEMMA Updated ==
    ASSUME ReassemblyTypeOK, NEW e \in Segments, NEW a \in Assemblies \cup {NoAssembly},
           NEW room \in SUBSET Open, Update(e, a, room)
    PROVE  /\ table' \in [Seqs -> Assemblies \cup {NoAssembly}]
           /\ table'[e.seq] = a
           /\ \A q \in Open' \ {e.seq} : q \in room /\ table'[q] = table[q]
           /\ older' \subseteq Open' \X Open' /\ expired' \subseteq Open'
<1>1. e.seq \in Seqs
  BY SegmentFields
<1>2. table' \in [Seqs -> Assemblies \cup {NoAssembly}]
  BY DEF Update, ReassemblyTypeOK, Open
<1>3. \A q \in Open' \ {e.seq} : q \in room /\ table'[q] = table[q]
  BY DEF Update, Open
<1>4. older' \subseteq Open' \X Open'
  BY DEF Update, Open
<1>5. expired' \subseteq Open'
  BY DEF Update, Open
<1>. QED
  BY <1>1, <1>2, <1>3, <1>4, <1>5 DEF Update

LEMMA ReceiveTypes ==
    ASSUME ReassemblyTypeOK, NEW e \in Segments, Receive(e) PROVE ReassemblyTypeOK'
<1>1. CASE IgnoreForeign(e) \/ ReceiveWhole(e)
  BY <1>1, SegmentFields DEF IgnoreForeign, ReceiveWhole, ReassemblyTypeOK, Open
<1>2. CASE RefuseChunk(e) \/ SpoilAssembly(e) \/ CompleteMessage(e)
  <2>1. \E room \in SUBSET Open : Update(e, NoAssembly, room)
    BY <1>2, SurvivorsStay DEF RefuseChunk, SpoilAssembly, CompleteMessage
  <2>2. emitted' \subseteq [seq : Seqs, held : SUBSET Segments]
    <3>1. e.seq \in Seqs /\ Stored(e) \in SUBSET Segments
      BY SegmentFields, FoundType
    <3>2. emitted' = {} \/ emitted' = {[seq |-> e.seq, held |-> Stored(e)]}
      BY <1>2 DEF RefuseChunk, SpoilAssembly, CompleteMessage, Emits
    <3>. QED
      BY <3>1, <3>2
  <2>. QED
    BY <2>1, <2>2, Updated DEF ReassemblyTypeOK
<1>3. CASE StoreChunk(e)
  <2>1. \E room \in SUBSET Open : Update(e, [Found(e) EXCEPT !.held = Stored(e)], room)
    BY <1>3, SurvivorsStay DEF StoreChunk
  <2>. QED
    BY <1>3, <2>1, Updated, FoundType DEF StoreChunk, ReassemblyTypeOK
<1>. QED
  BY <1>1, <1>2, <1>3 DEF Receive

LEMMA ExpiryTypes ==
    ASSUME ReassemblyTypeOK, NEW q \in Seqs, EntryExpires(q) PROVE ReassemblyTypeOK'
BY DEF EntryExpires, ReassemblyTypeOK, Open

LEMMA EmptyTable ==
    ASSUME table = [q \in Seqs |-> NoAssembly] PROVE Open = {}
BY DEF Open

(* What an open entry holds came under its number, in its shape, and each  *)
(* segment of it at most once.                                             *)
HeldInv ==
    \A q \in Open : \A e \in table[q].held :
        /\ e.ours /\ e.kind = "chunk" /\ e.seq = q
        /\ e.count = table[q].count /\ e.size = table[q].size /\ e.id < e.count
        /\ \A d \in table[q].held : d.id = e.id => d = e

(* The same of the chunks of e's entry once e is among them.               *)
LEMMA StoredFits ==
    ASSUME ReassemblyTypeOK, HeldInv, NEW e \in Segments, IsChunk(e), Acceptable(e), SameShape(e)
    PROVE  \A c \in Stored(e) :
               /\ c.ours /\ c.kind = "chunk" /\ c.seq = e.seq
               /\ c.count = Found(e).count /\ c.size = Found(e).size /\ c.id < c.count
               /\ \A d \in Stored(e) : d.id = c.id => d = c
<1>1. e.ours /\ e.kind = "chunk" /\ e.count = Found(e).count /\ e.size = Found(e).size
      /\ e.id < e.count
  BY DEF IsChunk, Acceptable, AcceptableHeader, SameShape
<1>2. CASE e.seq \in Open
  BY <1>1, <1>2 DEF HeldInv, Stored, Found, Replaced, Held, Open
<1>3. CASE e.seq \notin Open
  BY <1>1, <1>3 DEF Stored, Found
<1>. QED
  BY <1>2, <1>3

LEMMA HeldStep == ASSUME ReassemblyTypeOK, HeldInv, NEW e \in Segments, Receive(e) PROVE HeldInv'
<1>1. CASE IgnoreForeign(e) \/ ReceiveWhole(e)
  BY <1>1 DEF IgnoreForeign, ReceiveWhole, HeldInv, Open
<1>2. CASE RefuseChunk(e) \/ SpoilAssembly(e) \/ CompleteMessage(e)
  <2>1. \E room \in SUBSET Open : Update(e, NoAssembly, room)
    BY <1>2, SurvivorsStay DEF RefuseChunk, SpoilAssembly, CompleteMessage
  <2>2. \A q \in Open' : q \in Open /\ table'[q] = table[q]
    BY <2>1, Updated, SegmentFields DEF Open
  <2>. QED
    BY <2>2 DEF HeldInv
<1>3. CASE StoreChunk(e)
  <2>1. PICK a \in Assemblies :
          /\ Update(e, a, Survivors(e.seq))
          /\ a.held = Stored(e) /\ a.count = Found(e).count /\ a.size = Found(e).size
    <3> DEFINE b == [Found(e) EXCEPT !.held = Stored(e)]
    <3>1. b.held = Stored(e) /\ b.count = Found(e).count /\ b.size = Found(e).size
      BY FoundType DEF Assemblies
    <3>. QED
      BY <1>3, <3>1, FoundType DEF StoreChunk
  <2>2. table'[e.seq] = a /\ \A q \in Open' \ {e.seq} : q \in Open /\ table'[q] = table[q]
    BY <2>1, Updated, SurvivorsStay
  <2>4. \A c \in Stored(e) :
           /\ c.ours /\ c.kind = "chunk" /\ c.seq = e.seq
           /\ c.count = Found(e).count /\ c.size = Found(e).size /\ c.id < c.count
           /\ \A d \in Stored(e) : d.id = c.id => d = c
    BY <1>3, StoredFits DEF StoreChunk
  <2>5. ASSUME NEW q \in Open', q = e.seq
        PROVE  \A c \in table'[q].held :
                  /\ c.ours /\ c.kind = "chunk" /\ c.seq = q
                  /\ c.count = table'[q].count /\ c.size = table'[q].size /\ c.id < c.count
                  /\ \A d \in table'[q].held : d.id = c.id => d = c
    BY <2>1, <2>2, <2>4, <2>5
  <2>6. ASSUME NEW q \in Open', q # e.seq
        PROVE  \A c \in table'[q].held :
                  /\ c.ours /\ c.kind = "chunk" /\ c.seq = q
                  /\ c.count = table'[q].count /\ c.size = table'[q].size /\ c.id < c.count
                  /\ \A d \in table'[q].held : d.id = c.id => d = c
    <3>1. q \in Open /\ table'[q] = table[q]
      BY <2>2, <2>6
    <3>. QED
      BY <3>1 DEF HeldInv
  <2>. QED
    BY <2>5, <2>6 DEF HeldInv
<1>. QED
  BY <1>1, <1>2, <1>3 DEF Receive

(* A set whose ids are 0 .. n-1, each once, has n members.                 *)
LEMMA CountedByIds ==
    ASSUME NEW S \in SUBSET Segments, NEW n \in Nat, {d.id : d \in S} = 0 .. n - 1,
           \A c, d \in S : d.id = c.id => d = c
    PROVE  Cardinality(S) = n
<1> DEFINE f == [d \in S |-> d.id]
<1>1. IsFiniteSet(S)
  BY SegmentsAssumption, FS_Subset
<1>2. f \in Bijection(S, 0 .. n - 1)
  <2>1. f \in [S -> 0 .. n - 1]
    OBVIOUS
  <2>2. \A c, d \in S : f[c] = f[d] => c = d
    OBVIOUS
  <2>3. \A i \in 0 .. n - 1 : \E d \in S : f[d] = i
    OBVIOUS
  <2>. QED
    BY <2>1, <2>2, <2>3 DEF Bijection, Injection, Surjection, IsInjective
<1>3. Cardinality(0 .. n - 1) = Cardinality(S)
  BY <1>1, <1>2, FS_Bijection DEF ExistsBijection
<1>. QED
  BY <1>3, FS_Interval

LEMMA WholeStep ==
    ASSUME ReassemblyTypeOK, HeldInv, EmittedIsWhole, NEW e \in Segments, Receive(e)
    PROVE  EmittedIsWhole'
<1>1. CASE emitted' = {}
  BY <1>1 DEF EmittedIsWhole
<1>2. CASE ReceiveWhole(e)
  BY <1>2 DEF ReceiveWhole, EmittedIsWhole
<1>3. CASE CompleteMessage(e) /\ RightSize(e) /\ emitted' = {[seq |-> e.seq, held |-> Stored(e)]}
  <2>1. \A c \in Stored(e) :
           /\ c.ours /\ c.seq = e.seq
           /\ c.count = Found(e).count /\ c.size = Found(e).size
           /\ \A d \in Stored(e) : d.id = c.id => d = c
    BY <1>3, StoredFits DEF CompleteMessage
  <2>2. Found(e).count \in Nat /\ Stored(e) \in SUBSET Segments
    BY FoundType DEF Assemblies
  <2>3. {d.id : d \in Stored(e)} = 0 .. Found(e).count - 1
    BY <1>3 DEF CompleteMessage, Completes
  <2>4. Cardinality(Stored(e)) = Found(e).count
    BY <2>1, <2>2, <2>3, CountedByIds
  <2>5. Bytes(Stored(e)) = Found(e).size
    BY <1>3 DEF RightSize
  <2>6. IsWhole([seq |-> e.seq, held |-> Stored(e)])
    BY <2>1, <2>3, <2>4, <2>5 DEF IsWhole
  <2>. QED
    BY <1>3, <2>6 DEF EmittedIsWhole
<1>. QED
  BY <1>1, <1>2, <1>3 DEF Receive, IgnoreForeign, RefuseChunk, SpoilAssembly, StoreChunk,
     CompleteMessage, Emits

(***************************************************************************)
(* The order of the entries.  older never goes round in a circle: the      *)
(* entries have ranks that grow with it.  So the oldest of them exists,    *)
(* and a full table that takes a new entry gives one up.                   *)
(***************************************************************************)
Ranked(n, f) == f \in [Seqs -> 0 .. n] /\ \A p, q \in Open : <<p, q>> \in older => f[p] < f[q]
RankInv == \E n \in Nat, f \in [Seqs -> Nat] : Ranked(n, f)

LEMMA OldestExists ==
    ASSUME RankInv, Open # {} PROVE Oldest(Open) # {}
<1>1. PICK n \in Nat, f \in [Seqs -> Nat] : Ranked(n, f)
  BY DEF RankInv
<1> DEFINE ranks == {f[q] : q \in Open}
<1>2. ranks \subseteq Nat /\ ranks # {}
  BY DEF Open
<1>3. PICK x \in ranks : \A y \in ranks : ~(<<y, x>> \in OpToRel(<, Nat))
  BY <1>2, WFMin, NatLessThanWellFounded
<1>4. \A y \in ranks : ~(y < x)
  BY <1>2, <1>3 DEF OpToRel
<1>5. PICK q \in Open : x = f[q]
  BY <1>3
<1>6. \A p \in Open : <<p, q>> \notin older
  BY <1>1, <1>4, <1>5 DEF Ranked
<1>. QED
  BY <1>6 DEF Oldest

\* The new entries get the next rank.
LEMMA RankStep ==
    ASSUME ReassemblyTypeOK, RankInv, NEW e \in Segments, NEW a \in Assemblies \cup {NoAssembly},
           NEW room \in SUBSET Open, Update(e, a, room)
    PROVE  RankInv'
<1>1. PICK n \in Nat, f \in [Seqs -> Nat] : Ranked(n, f)
  BY DEF RankInv
<1> DEFINE g == [q \in Seqs |-> IF q \in Open THEN f[q] ELSE n + 1]
<1>2. older' = (older \cap (Open' \X Open')) \cup ((Open' \cap Open) \X (Open' \ Open))
  BY DEF Update, Open
<1>3. g \in [Seqs -> 0 .. n + 1] /\ g \in [Seqs -> Nat] /\ n + 1 \in Nat
  BY <1>1 DEF Ranked
<1>4. ASSUME NEW p \in Open', NEW q \in Open', <<p, q>> \in older' PROVE g[p] < g[q]
  <2>1. p \in Seqs /\ q \in Seqs
    BY DEF Open
  <2>2. CASE <<p, q>> \in older
    <3>1. p \in Open /\ q \in Open
      BY <2>2 DEF ReassemblyTypeOK
    <3>. QED
      BY <1>1, <2>1, <2>2, <3>1 DEF Ranked
  <2>3. CASE p \in Open /\ q \notin Open
    BY <1>1, <2>1, <2>3 DEF Ranked
  <2>. QED
    BY <1>2, <1>4, <2>2, <2>3
<1>. QED
  BY <1>3, <1>4 DEF RankInv, Ranked

LEMMA BoundStep ==
    ASSUME ReassemblyTypeOK, RankInv, EntriesAreBounded, NEW e \in Segments,
           NEW a \in Assemblies \cup {NoAssembly}, Update(e, a, Survivors(e.seq))
    PROVE  EntriesAreBounded'
<1> DEFINE k == e.seq
<1>. MaxAssemblies \in Nat \ {0}
  BY LimitsAssumption
<1>1. IsFiniteSet(Open) /\ Cardinality(Open) \in Nat
  BY OpenIsFinite
<1>2. Open' \subseteq Survivors(k) \cup {k}
  BY Updated, SurvivorsStay
<1>3. CASE k \in Open
  <2>1. Open' \subseteq Open
    BY <1>2, <1>3, SurvivorsStay
  <2>2. Cardinality(Open') <= Cardinality(Open) /\ Cardinality(Open') \in Nat
    BY <1>1, <2>1, FS_Subset, FS_CardinalityType
  <2>. QED
    BY <1>1, <2>2 DEF EntriesAreBounded
<1>4. CASE k \notin Open /\ Cardinality(Open) < MaxAssemblies
  <2>1. Open' \subseteq Open \cup {k}
    BY <1>2, SurvivorsStay
  <2>2. IsFiniteSet(Open \cup {k}) /\ Cardinality(Open \cup {k}) = Cardinality(Open) + 1
    BY <1>1, <1>4, FS_AddElement
  <2>3. Cardinality(Open') <= Cardinality(Open \cup {k}) /\ Cardinality(Open') \in Nat
    BY <2>1, <2>2, FS_Subset, FS_CardinalityType
  <2>. QED
    BY <1>1, <1>4, <2>2, <2>3 DEF EntriesAreBounded
<1>5. CASE k \notin Open /\ Cardinality(Open) >= MaxAssemblies
  <2>1. Open # {}
    BY <1>5, FS_EmptySet
  <2>2. PICK x \in Open : x \notin Survivors(k)
    <3>1. CASE Open \ expired # Open
      <4>1. Survivors(k) = Open \ expired
        BY <1>1, <1>5, <3>1 DEF Survivors
      <4>. QED
        BY <3>1, <4>1
    <3>2. CASE Open \ expired = Open
      <4>1. Survivors(k) = Open \ Oldest(Open)
        BY <1>1, <1>5, <3>2 DEF Survivors
      <4>. QED
        BY <2>1, <4>1, OldestExists DEF Oldest
    <3>. QED
      BY <3>1, <3>2
  <2>3. Open' \subseteq (Open \ {x}) \cup {k}
    BY <1>2, <2>2, SurvivorsStay
  <2>4. IsFiniteSet(Open \ {x}) /\ Cardinality(Open \ {x}) = Cardinality(Open) - 1
    BY <1>1, FS_RemoveElement
  <2>5. /\ IsFiniteSet((Open \ {x}) \cup {k})
        /\ Cardinality((Open \ {x}) \cup {k}) = Cardinality(Open \ {x}) + 1
    BY <1>5, <2>4, FS_AddElement
  <2>6. Cardinality(Open') <= Cardinality((Open \ {x}) \cup {k}) /\ Cardinality(Open') \in Nat
    BY <2>3, <2>5, FS_Subset, FS_CardinalityType
  <2>. QED
    BY <1>1, <2>4, <2>5, <2>6 DEF EntriesAreBounded
<1>. QED
  BY <1>1, <1>3, <1>4, <1>5

ReassemblyInv == HeldInv /\ EmittedIsWhole /\ RankInv /\ EntriesAreBounded

LEMMA ReassemblyReceives ==
    ASSUME ReassemblyTypeOK, ReassemblyInv, NEW e \in Segments, Receive(e)
    PROVE  ReassemblyInv'
<1>1. HeldInv' /\ EmittedIsWhole'
  BY HeldStep, WholeStep DEF ReassemblyInv
<1>2. RankInv' /\ EntriesAreBounded'
  <2>1. CASE IgnoreForeign(e) \/ ReceiveWhole(e)
    BY <2>1 DEF IgnoreForeign, ReceiveWhole, ReassemblyInv, RankInv, Ranked, EntriesAreBounded, Open
  <2>2. CASE RefuseChunk(e)
    <3>1. Update(e, NoAssembly, Open)
      BY <2>2 DEF RefuseChunk
    <3>2. Open' \subseteq Open
      BY <3>1, Updated DEF Open
    <3>3. Cardinality(Open') <= Cardinality(Open) /\ Cardinality(Open') \in Nat
      BY <3>2, OpenIsFinite, FS_Subset, FS_CardinalityType
    <3>4. EntriesAreBounded'
      BY <3>3, OpenIsFinite, LimitsAssumption DEF ReassemblyInv, EntriesAreBounded
    <3>. QED
      BY <3>1, <3>4, RankStep DEF ReassemblyInv
  <2>3. CASE SpoilAssembly(e) \/ StoreChunk(e) \/ CompleteMessage(e)
    <3>1. \E a \in Assemblies \cup {NoAssembly} : Update(e, a, Survivors(e.seq))
      BY <2>3, FoundType DEF SpoilAssembly, StoreChunk, CompleteMessage
    <3>. QED
      BY <3>1, RankStep, BoundStep, SurvivorsStay DEF ReassemblyInv
  <2>. QED
    BY <2>1, <2>2, <2>3 DEF Receive
<1>. QED
  BY <1>1, <1>2 DEF ReassemblyInv

LEMMA ReassemblyStays ==
    ASSUME ReassemblyInv, UNCHANGED <<table, older, emitted>> PROVE ReassemblyInv'
BY DEF ReassemblyInv, HeldInv, EmittedIsWhole, IsWhole, RankInv, Ranked, EntriesAreBounded, Open

LEMMA ReassemblyClears ==
    ASSUME EmittedIsWhole, table' = [q \in Seqs |-> NoAssembly], older' = {}, expired' = {},
           emitted \subseteq [seq : Seqs, held : SUBSET Segments], emitted' = emitted
    PROVE  ReassemblyTypeOK' /\ ReassemblyInv'
<1>1. Open' = {}
  BY DEF Open
<1>2. EntriesAreBounded'
  BY <1>1, FS_EmptySet, LimitsAssumption DEF EntriesAreBounded
<1>3. RankInv'
  <2> DEFINE f == [q \in Seqs |-> 0]
  <2>1. f \in [Seqs -> 0 .. 0] /\ f \in [Seqs -> Nat]
    OBVIOUS
  <2>. QED
    BY <1>1, <2>1 DEF RankInv, Ranked
<1>4. EmittedIsWhole'
  BY DEF EmittedIsWhole, IsWhole
<1>. QED
  BY <1>1, <1>2, <1>3, <1>4 DEF ReassemblyTypeOK, ReassemblyInv, HeldInv

(***************************************************************************)
(* Types.                                                                  *)
(***************************************************************************)
LEMMA FrameTypes ==
    /\ \A m \in Outgoing, q, n \in Nat : Part(m, q, n) \in Frames
    /\ \A q \in Nat : Ping(q) \in Frames
    /\ Close \in Frames
BY DEF Part, Ping, Close, Frames

LEMMA CommandTypes == ASSUME ConnectionTypeOK, Command PROVE ConnectionTypeOK'
<1>. ConnectionTypeOK
  OBVIOUS
<1>1. ASSUME NEW m \in Outgoing, StartSend(m) PROVE ConnectionTypeOK'
  BY <1>1 DEF StartSend, Idle, ConnectionTypeOK
<1>2. CASE DrawNumber
  BY <1>2 DEF DrawNumber, ConnectionTypeOK
<1>3. CASE QueuePart
  <2>1. cmd.of \in Outgoing /\ cmd.seq \in Nat /\ cmd.part \in Nat
    BY <1>3 DEF QueuePart, ConnectionTypeOK
  <2>2. Append(queue, Part(cmd.of, cmd.seq, cmd.part)) \in Seq(Frames)
    BY <2>1, FrameTypes DEF ConnectionTypeOK
  <2>3. queue' \in Seq(Frames)
    BY <1>3, <2>2 DEF QueuePart
  <2>4. cmd' \in [pc : {"idle", "number", "queue"}, of : Outgoing \cup {NoMessage},
                  seq : Nat, part : Nat] /\ (cmd'.pc # "idle" => cmd'.of \in Outgoing)
    BY <1>3, <2>1 DEF QueuePart, Idle, ConnectionTypeOK
  <2>5. accepted' \in Seq(Outgoing)
    <3>1. accepted \in Seq(Outgoing) /\ Append(accepted, cmd.of) \in Seq(Outgoing)
      BY <2>1 DEF ConnectionTypeOK
    <3>. QED
      BY <1>3, <3>1 DEF QueuePart
  <2>. QED
    BY <1>3, <2>3, <2>4, <2>5 DEF QueuePart, ConnectionTypeOK
<1>4. CASE QueueClosed
  BY <1>4 DEF QueueClosed, Idle, ConnectionTypeOK
<1>5. CASE Disconnect
  <2>1. Append(queue, Close) \in Seq(Frames)
    BY FrameTypes DEF ConnectionTypeOK
  <2>2. queue' \in Seq(Frames)
    BY <1>5, <2>1 DEF Disconnect
  <2>. QED
    BY <1>5, <2>2 DEF Disconnect, ConnectionTypeOK
<1>. QED
  BY <1>1, <1>2, <1>3, <1>4, <1>5 DEF Command

LEMMA TaskTypes == ASSUME ConnectionTypeOK, Task PROVE ConnectionTypeOK'
<1>. ConnectionTypeOK
  OBVIOUS
<1>1. CASE WriteQueued
  <2>1. Head(queue) \in Frames /\ Tail(queue) \in Seq(Frames)
    BY <1>1 DEF WriteQueued, ConnectionTypeOK
  <2>2. wire' \in Seq(Frames) /\ queue' \in Seq(Frames)
    BY <1>1, <2>1 DEF WriteQueued, ConnectionTypeOK
  <2>. QED
    BY <1>1, <2>2 DEF WriteQueued, ConnectionTypeOK
<1>2. CASE SendPing
  <2>1. wire' \in Seq(Frames)
    BY <1>2, FrameTypes DEF SendPing, ConnectionTypeOK
  <2>. QED
    BY <1>2, <2>1 DEF SendPing, ConnectionTypeOK
<1>3. CASE (\E e \in Segments : ReceiveEnvelope(e)) \/ (\E q \in Seqs : Clock(q))
  BY <1>3 DEF ReceiveEnvelope, Clock, connectionVars, ConnectionTypeOK
<1>4. CASE ConnectionBreaks \/ FinishConnection
  <2>1. queue' \in Seq(Frames)
    BY <1>4, EmptySeq DEF ConnectionBreaks, FinishConnection, ConnectionTypeOK
  <2>. QED
    BY <1>4, <2>1 DEF ConnectionBreaks, FinishConnection, ConnectionTypeOK
<1>. QED
  BY <1>1, <1>2, <1>3, <1>4 DEF Task

\* What a step does to the reassembler.
LEMMA ReassemblySteps ==
    ASSUME [Next]_vars
    PROVE  \/ \E e \in Segments : Receive(e)
           \/ \E q \in Seqs : EntryExpires(q)
           \/ /\ table' = [q \in Seqs |-> NoAssembly] /\ older' = {} /\ expired' = {}
              /\ UNCHANGED emitted
           \/ UNCHANGED reassemblyVars
BY DEF Next, Command, Task, StartSend, DrawNumber, QueuePart, QueueClosed, Disconnect, WriteQueued,
   SendPing, ReceiveEnvelope, Clock, ConnectionBreaks, FinishConnection, vars

LEMMA ReassemblyStep ==
    ReassemblyTypeOK /\ ReassemblyInv /\ [Next]_vars => ReassemblyTypeOK' /\ ReassemblyInv'
<1>. SUFFICES ASSUME ReassemblyTypeOK, ReassemblyInv, [Next]_vars
              PROVE  ReassemblyTypeOK' /\ ReassemblyInv'
  OBVIOUS
<1>1. ASSUME NEW e \in Segments, Receive(e) PROVE ReassemblyTypeOK' /\ ReassemblyInv'
  BY <1>1, ReceiveTypes, ReassemblyReceives
<1>2. ASSUME NEW q \in Seqs, EntryExpires(q) PROVE ReassemblyTypeOK' /\ ReassemblyInv'
  BY <1>2, ExpiryTypes, ReassemblyStays DEF EntryExpires
<1>3. ASSUME table' = [q \in Seqs |-> NoAssembly], older' = {}, expired' = {}, UNCHANGED emitted
      PROVE  ReassemblyTypeOK' /\ ReassemblyInv'
  BY <1>3, ReassemblyClears DEF ReassemblyTypeOK, ReassemblyInv
<1>4. ASSUME UNCHANGED reassemblyVars PROVE ReassemblyTypeOK' /\ ReassemblyInv'
  BY <1>4, ReassemblyStays DEF reassemblyVars, ReassemblyTypeOK, Open
<1>. QED
  BY <1>1, <1>2, <1>3, <1>4, ReassemblySteps

LEMMA ReassemblyStarts == Init => ReassemblyTypeOK /\ ReassemblyInv
<1>. SUFFICES ASSUME Init PROVE ReassemblyTypeOK /\ ReassemblyInv
  OBVIOUS
<1>1. Open = {} /\ older = {} /\ expired = {} /\ emitted = {}
  BY DEF Init, ReassemblyInit, Open
<1>2. table \in [Seqs -> Assemblies \cup {NoAssembly}]
  BY DEF Init, ReassemblyInit
<1>3. RankInv
  <2> DEFINE f == [q \in Seqs |-> 0]
  <2>1. f \in [Seqs -> 0 .. 0] /\ f \in [Seqs -> Nat]
    OBVIOUS
  <2>. QED
    BY <1>1, <2>1 DEF RankInv, Ranked
<1>4. EntriesAreBounded
  BY <1>1, FS_EmptySet, LimitsAssumption DEF EntriesAreBounded
<1>. QED
  BY <1>1, <1>2, <1>3, <1>4 DEF ReassemblyTypeOK, ReassemblyInv, HeldInv, EmittedIsWhole

(* Every variable keeps its type.                                          *)
THEOREM TypeCorrect == Spec => []TypeOK
<1>1. Init => TypeOK /\ ReassemblyInv
  <2>1. Init => ConnectionTypeOK
    BY DEF Init, Idle, ConnectionTypeOK
  <2>. QED
    BY <2>1, ReassemblyStarts DEF TypeOK
<1>2. (TypeOK /\ ReassemblyInv) /\ [Next]_vars => (TypeOK /\ ReassemblyInv)'
  <2>1. ConnectionTypeOK /\ UNCHANGED vars => ConnectionTypeOK'
    BY DEF vars, connectionVars, ConnectionTypeOK
  <2>. QED
    BY <2>1, ReassemblyStep, CommandTypes, TaskTypes DEF TypeOK, Next
<1>. QED
  BY <1>1, <1>2, PTL DEF Spec

LEMMA Reassembles == Spec => []ReassemblyInv
<1>1. ReassemblyTypeOK /\ ReassemblyInv /\ [Next]_vars => ReassemblyTypeOK' /\ ReassemblyInv'
  BY ReassemblyStep
<1>. QED
  BY <1>1, ReassemblyStarts, PTL DEF Spec

(* What the page gets came whole: a message in one envelope, or exactly    *)
(* the segments of one number and shape, each once, of the claimed size.   *)
THEOREM PageGetsWholeMessages == Spec => []EmittedIsWhole
<1>1. ReassemblyInv => EmittedIsWhole
  BY DEF ReassemblyInv
<1>. QED
  BY <1>1, Reassembles, PTL

(* No flood of unfinished messages makes the table grow past its limit.    *)
THEOREM TableIsBounded == Spec => []EntriesAreBounded
<1>1. ReassemblyInv => EntriesAreBounded
  BY DEF ReassemblyInv
<1>. QED
  BY <1>1, Reassembles, PTL

-----------------------------------------------------------------------------
(***************************************************************************)
(* What goes out.  The frames on the wire and those in the queue are one   *)
(* stream: a command adds to its end, the task moves the boundary, and a   *)
(* ping enters at the boundary.                                            *)
(***************************************************************************)
LEMMA FrameFields ==
    ASSUME NEW f \in Frames
    PROVE  /\ f.what \in {"part", "ping", "close"} /\ f.of \in Outgoing \cup {NoMessage}
           /\ f.seq \in Nat /\ f.part \in Nat
BY DEF Frames

LEMMA AppendedFrames ==
    ASSUME NEW s \in Seq(Frames), NEW f \in Frames
    PROVE  /\ Append(s, f) \in Seq(Frames) /\ DOMAIN Append(s, f) = 1 .. Len(s) + 1
           /\ DOMAIN s = 1 .. Len(s) /\ Len(s) \in Nat
           /\ Append(s, f)[Len(s) + 1] = f
           /\ \A i \in 1 .. Len(s) : Append(s, f)[i] = s[i] /\ s[i] \in Frames
OBVIOUS

LEMMA AppendKeepsFollows ==
    ASSUME NEW s \in Seq(Frames), NEW f \in Frames, NEW i \in 1 .. Len(s) + 1, NEW j \in 1 .. i - 1
    PROVE  Follows(Append(s, f), j, i) <=> Follows(s, j, i)
<1>1. \A k \in j .. i - 1 : Append(s, f)[k] = s[k]
  BY AppendedFrames
<1>. QED
  BY <1>1, AppendedFrames DEF Follows

LEMMA AppendUnique ==
    ASSUME NEW s \in Seq(Frames), NEW f \in Frames, NumbersAreUnique(s),
           \A i \in 1 .. Len(s) : s[i].seq = f.seq =>
              s[i].what = f.what /\ s[i].of = f.of /\ s[i].part # f.part
    PROVE  NumbersAreUnique(Append(s, f))
<1> DEFINE t == Append(s, f)
<1>1. ASSUME NEW i \in 1 .. Len(s), NEW j \in 1 .. Len(s)
      PROVE  t[i].seq = t[j].seq => /\ t[i].what = t[j].what /\ t[i].of = t[j].of
                                    /\ t[i].part = t[j].part => i = j
  BY AppendedFrames DEF NumbersAreUnique
<1>2. ASSUME NEW i \in 1 .. Len(s)
      PROVE  t[i].seq = f.seq => t[i].what = f.what /\ t[i].of = f.of /\ t[i].part # f.part
  BY AppendedFrames
<1>. QED
  BY <1>1, <1>2, AppendedFrames DEF NumbersAreUnique

LEMMA AppendContiguous ==
    ASSUME NEW s \in Seq(Frames), NEW f \in Frames, MessagesAreContiguous(s),
           f.what = "part" =>
              \/ /\ f.part = 1
                 /\ \A j \in 1 .. Len(s) : Follows(s, j, Len(s) + 1) =>
                       s[j].part = Parts[s[j].of] /\ s[j].seq < f.seq
              \/ \E j \in 1 .. Len(s) : /\ Follows(s, j, Len(s) + 1)
                                        /\ f = Part(s[j].of, s[j].seq, s[j].part + 1)
    PROVE  MessagesAreContiguous(Append(s, f))
<1> DEFINE t == Append(s, f)
<1> DEFINE Fits(r, i) ==
       \/ /\ r[i].part = 1
          /\ \A j \in 1 .. i - 1 : Follows(r, j, i) => r[j].part = Parts[r[j].of] /\ r[j].seq < r[i].seq
       \/ \E j \in 1 .. i - 1 : Follows(r, j, i) /\ r[i] = Part(r[j].of, r[j].seq, r[j].part + 1)
<1>. SUFFICES ASSUME NEW i \in DOMAIN t, t[i].what = "part" PROVE Fits(t, i)
  BY DEF MessagesAreContiguous
<1>1. CASE i \in 1 .. Len(s)
  <2>1. Fits(s, i)
    BY <1>1, AppendedFrames DEF MessagesAreContiguous
  <2>2. \A j \in 1 .. i - 1 : t[j] = s[j] /\ (Follows(t, j, i) <=> Follows(s, j, i))
    BY AppendedFrames, AppendKeepsFollows
  <2>3. t[i] = s[i]
    BY <1>1, AppendedFrames
  <2>4. CASE s[i].part = 1 /\ \A j \in 1 .. i - 1 :
                Follows(s, j, i) => s[j].part = Parts[s[j].of] /\ s[j].seq < s[i].seq
    BY <2>2, <2>3, <2>4
  <2>5. CASE \E j \in 1 .. i - 1 : Follows(s, j, i) /\ s[i] = Part(s[j].of, s[j].seq, s[j].part + 1)
    BY <2>2, <2>3, <2>5
  <2>. QED
    BY <2>1, <2>4, <2>5
<1>2. CASE i = Len(s) + 1
  <2>1. \A j \in 1 .. Len(s) : /\ t[j] = s[j]
                               /\ Follows(t, j, Len(s) + 1) <=> Follows(s, j, Len(s) + 1)
    BY AppendedFrames, AppendKeepsFollows
  <2>2. t[Len(s) + 1] = f /\ Len(s) \in Nat /\ Len(s) + 1 - 1 = Len(s)
    BY AppendedFrames
  <2>. QED
    BY <1>2, <2>1, <2>2
<1>. QED
  BY <1>1, <1>2, AppendedFrames

(* t is s with a ping put in after its first n frames; what is at i in s   *)
(* is at Moved(n, i) in t.                                                 *)
Moved(n, i) == IF i <= n THEN i ELSE i + 1

PutIn(s, n, ping, t) ==
    /\ t \in Seq(Frames) /\ Len(t) = Len(s) + 1
    /\ n \in 0 .. Len(s) /\ t[n + 1] = ping /\ ping.what = "ping"
    /\ \A i \in 1 .. Len(s) : t[Moved(n, i)] = s[i]

LEMMA MovedPlaces ==
    ASSUME NEW l \in Nat, NEW n \in 0 .. l
    PROVE  /\ \A i \in 1 .. l + 1 : Moved(n, i) \in 1 .. l + 2 /\ Moved(n, i) # n + 1
           /\ \A i \in 1 .. l : Moved(n, i) \in 1 .. l + 1
           /\ \A i, j \in 1 .. l + 1 : i < j <=> Moved(n, i) < Moved(n, j)
           /\ \A k \in 1 .. l + 1 : k # n + 1 => \E i \in 1 .. l : k = Moved(n, i)
           /\ Moved(n, l + 1) = l + 2
<1>1. ASSUME NEW k \in 1 .. l + 1, k # n + 1 PROVE \E i \in 1 .. l : k = Moved(n, i)
  <2>1. CASE k <= n
    BY <2>1 DEF Moved
  <2>2. CASE k > n + 1
    <3>1. k - 1 \in 1 .. l /\ k = Moved(n, k - 1)
      BY <2>2 DEF Moved
    <3>. QED
      BY <3>1
  <2>. QED
    BY <1>1, <2>1, <2>2
<1>. QED
  BY <1>1 DEF Moved

LEMMA PutInPlaces ==
    ASSUME NEW s \in Seq(Frames), NEW n, NEW ping, NEW t, PutIn(s, n, ping, t)
    PROVE  /\ Len(s) \in Nat /\ n \in 0 .. Len(s)
           /\ DOMAIN s = 1 .. Len(s) /\ DOMAIN t = 1 .. Len(s) + 1
           /\ t[n + 1] = ping /\ ping.what = "ping"
           /\ \A k \in 1 .. Len(s) + 1 :
                 k # n + 1 => \E i \in 1 .. Len(s) : k = Moved(n, i) /\ t[k] = s[i]
<1>1. Len(s) \in Nat /\ n \in 0 .. Len(s) /\ DOMAIN s = 1 .. Len(s) /\ DOMAIN t = 1 .. Len(s) + 1
  BY DEF PutIn
<1>2. ASSUME NEW k \in 1 .. Len(s) + 1, k # n + 1
      PROVE  \E i \in 1 .. Len(s) : k = Moved(n, i) /\ t[k] = s[i]
  <2>1. PICK i \in 1 .. Len(s) : k = Moved(n, i)
    BY <1>1, <1>2, MovedPlaces
  <2>. QED
    BY <2>1 DEF PutIn
<1>. QED
  BY <1>1, <1>2 DEF PutIn

LEMMA PutInFollows ==
    ASSUME NEW s \in Seq(Frames), NEW n, NEW ping, NEW t, PutIn(s, n, ping, t),
           NEW i \in 1 .. Len(s) + 1, NEW j \in 1 .. i - 1
    PROVE  Follows(t, Moved(n, j), Moved(n, i)) <=> Follows(s, j, i)
<1> DEFINE l == Len(s)
<1>1. l \in Nat /\ n \in 0 .. l /\ t[Moved(n, j)] = s[j]
  BY DEF PutIn
<1>2. ASSUME \A k \in j + 1 .. i - 1 : s[k].what = "ping",
             NEW k \in Moved(n, j) + 1 .. Moved(n, i) - 1
      PROVE  t[k].what = "ping"
  <2>1. CASE k = n + 1
    BY <2>1 DEF PutIn
  <2>2. CASE k # n + 1
    <3>1. k \in 1 .. l + 1
      BY <1>1, <1>2 DEF Moved
    <3>2. PICK h \in 1 .. l : k = Moved(n, h)
      BY <1>1, <2>2, <3>1, MovedPlaces
    <3>3. h \in j + 1 .. i - 1
      BY <1>1, <1>2, <3>2 DEF Moved
    <3>. QED
      BY <1>2, <3>2, <3>3 DEF PutIn
  <2>. QED
    BY <2>1, <2>2
<1>3. ASSUME \A k \in Moved(n, j) + 1 .. Moved(n, i) - 1 : t[k].what = "ping",
             NEW k \in j + 1 .. i - 1
      PROVE  s[k].what = "ping"
  <2>1. Moved(n, k) \in Moved(n, j) + 1 .. Moved(n, i) - 1 /\ k \in 1 .. l
    BY <1>1 DEF Moved
  <2>. QED
    BY <1>3, <2>1 DEF PutIn
<1>. QED
  BY <1>1, <1>2, <1>3 DEF Follows

LEMMA PutInUnique ==
    ASSUME NEW s \in Seq(Frames), NEW n, NEW ping, NEW t, PutIn(s, n, ping, t),
           NumbersAreUnique(s), \A i \in 1 .. Len(s) : s[i].seq # ping.seq
    PROVE  NumbersAreUnique(t)
<1>1. \A k \in DOMAIN t : \/ k = n + 1 /\ t[k] = ping
                          \/ \E i \in DOMAIN s : k = Moved(n, i) /\ t[k] = s[i]
  BY PutInPlaces
<1>2. DOMAIN s = 1 .. Len(s)
  OBVIOUS
<1>. QED
  BY <1>1, <1>2 DEF NumbersAreUnique

LEMMA PutInContiguous ==
    ASSUME NEW s \in Seq(Frames), NEW n, NEW ping, NEW t, PutIn(s, n, ping, t),
           MessagesAreContiguous(s)
    PROVE  MessagesAreContiguous(t)
<1> DEFINE Fits(r, i) ==
       \/ /\ r[i].part = 1
          /\ \A j \in 1 .. i - 1 : Follows(r, j, i) => r[j].part = Parts[r[j].of] /\ r[j].seq < r[i].seq
       \/ \E j \in 1 .. i - 1 : Follows(r, j, i) /\ r[i] = Part(r[j].of, r[j].seq, r[j].part + 1)
<1>. SUFFICES ASSUME NEW k \in DOMAIN t, t[k].what = "part" PROVE Fits(t, k)
  BY DEF MessagesAreContiguous
<1>1. Len(s) \in Nat /\ n \in 0 .. Len(s) /\ DOMAIN s = 1 .. Len(s) /\ DOMAIN t = 1 .. Len(s) + 1
      /\ t[n + 1].what = "ping"
  BY PutInPlaces
<1>2. PICK i \in 1 .. Len(s) : k = Moved(n, i) /\ t[k] = s[i]
  BY <1>1, PutInPlaces
<1>3. Fits(s, i)
  BY <1>1, <1>2 DEF MessagesAreContiguous
<1>4. \A j \in 1 .. i - 1 : /\ Moved(n, j) \in 1 .. k - 1 /\ t[Moved(n, j)] = s[j]
                            /\ Follows(t, Moved(n, j), k) <=> Follows(s, j, i)
  <2>. SUFFICES ASSUME NEW j \in 1 .. i - 1
                PROVE  /\ Moved(n, j) \in 1 .. k - 1 /\ t[Moved(n, j)] = s[j]
                       /\ Follows(t, Moved(n, j), k) <=> Follows(s, j, i)
    OBVIOUS
  <2>1. j \in 1 .. Len(s) /\ i \in 1 .. Len(s) + 1
    BY <1>1
  <2>2. Moved(n, j) \in 1 .. k - 1
    BY <1>1, <1>2, <2>1 DEF Moved
  <2>. QED
    BY <1>2, <2>1, <2>2, PutInFollows DEF PutIn
<1>5. \A h \in 1 .. k - 1 : Follows(t, h, k) => \E j \in 1 .. i - 1 : h = Moved(n, j)
  <2>. SUFFICES ASSUME NEW h \in 1 .. k - 1, Follows(t, h, k)
                PROVE  \E j \in 1 .. i - 1 : h = Moved(n, j)
    OBVIOUS
  <2>1. h # n + 1 /\ h \in 1 .. Len(s) + 1
    BY <1>1 DEF Follows
  <2>2. PICK j \in 1 .. Len(s) : h = Moved(n, j)
    BY <1>1, <2>1, MovedPlaces
  <2>3. j \in 1 .. i - 1
    BY <1>1, <1>2, <2>2 DEF Moved
  <2>. QED
    BY <2>2, <2>3
<1>6. CASE s[i].part = 1 /\ \A j \in 1 .. i - 1 :
              Follows(s, j, i) => s[j].part = Parts[s[j].of] /\ s[j].seq < s[i].seq
  BY <1>2, <1>4, <1>5, <1>6
<1>7. CASE \E j \in 1 .. i - 1 : Follows(s, j, i) /\ s[i] = Part(s[j].of, s[j].seq, s[j].part + 1)
  BY <1>2, <1>4, <1>7
<1>. QED
  BY <1>3, <1>6, <1>7

-----------------------------------------------------------------------------
Stream == wire \o queue

\* Every number was drawn, and the one a command has drawn is its message's.
NumberInv ==
    /\ \A i \in DOMAIN Stream : /\ Stream[i].seq < nextSeq
                                /\ Stream[i].what # "close" => Stream[i].seq > 0
    /\ cmd.pc = "queue" =>
          /\ cmd.seq \in 1 .. nextSeq - 1 /\ cmd.part \in 1 .. Parts[cmd.of]
          /\ \A i \in DOMAIN Stream : Stream[i].seq = cmd.seq =>
                /\ Stream[i].what = "part" /\ Stream[i].of = cmd.of
                /\ Stream[i].part < cmd.part

\* Where the stream ends, the command that adds to it goes on.
LinkInv ==
    task # "ended" =>
       /\ cmd.pc # "queue" \/ cmd.part = 1 =>
             \A j \in DOMAIN Stream : Follows(Stream, j, Len(Stream) + 1) =>
                /\ Stream[j].what = "part" => Stream[j].part = Parts[Stream[j].of]
                /\ cmd.pc = "queue" => Stream[j].seq < cmd.seq
       /\ cmd.pc = "queue" /\ cmd.part > 1 =>
             \E j \in DOMAIN Stream : /\ Follows(Stream, j, Len(Stream) + 1)
                                      /\ Stream[j] = Part(cmd.of, cmd.seq, cmd.part - 1)

\* A close ends the stream for good.
CloseInv ==
    \A i \in DOMAIN Stream : Stream[i].what = "close" =>
       /\ Stream[i] = Close /\ i = Len(Stream)
       /\ ~connected /\ cmd = Idle
       /\ i <= Len(wire) => task # "running"

\* What was queued is in the stream until the task drops the queue.
PromiseInv ==
    /\ task # "ended" \/ (\E i \in DOMAIN wire : wire[i] = Close) =>
          \A k \in DOMAIN accepted : WrittenTo(Stream, accepted[k])
    /\ task # "ended" /\ cmd.pc = "queue" =>
          \A n \in 1 .. cmd.part - 1 : \E i \in DOMAIN Stream :
             Stream[i].of = cmd.of /\ Stream[i].part = n

EndInv == task = "ended" => queue = << >> /\ ~connected

StreamInv ==
    /\ NumbersAreUnique(Stream) /\ MessagesAreContiguous(Stream)
    /\ NumberInv /\ LinkInv /\ CloseInv /\ PromiseInv /\ EndInv

LEMMA StreamPlaces ==
    ASSUME ConnectionTypeOK
    PROVE  /\ Stream \in Seq(Frames) /\ Len(Stream) = Len(wire) + Len(queue)
           /\ Len(wire) \in Nat /\ Len(queue) \in Nat
           /\ DOMAIN Stream = 1 .. Len(Stream) /\ DOMAIN wire = 1 .. Len(wire)
           /\ \A i \in 1 .. Len(wire) : Stream[i] = wire[i]
           /\ \A i \in 1 .. Len(Stream) : Stream[i] \in Frames
<1>1. wire \in Seq(Frames) /\ queue \in Seq(Frames)
  BY DEF ConnectionTypeOK
<1>2. /\ Stream \in Seq(Frames) /\ Len(Stream) = Len(wire) + Len(queue)
      /\ \A i \in 1 .. Len(wire) : Stream[i] = wire[i]
  BY <1>1, ConcatProperties DEF Stream
<1>. QED
  BY <1>1, <1>2

LEMMA ConcatWithAppended ==
    ASSUME NEW w \in Seq(Frames), NEW q \in Seq(Frames), NEW f \in Frames
    PROVE  w \o Append(q, f) = Append(w \o q, f)
<1>1. <<f>> \in Seq(Frames) /\ w \o q \in Seq(Frames)
  BY ConcatProperties
<1>2. Append(q, f) = q \o <<f>> /\ Append(w \o q, f) = (w \o q) \o <<f>>
  BY <1>1, AppendIsConcat
<1>. QED
  BY <1>1, <1>2, ConcatAssociative

LEMMA ConcatWithTaken ==
    ASSUME NEW w \in Seq(Frames), NEW q \in Seq(Frames), q # << >>
    PROVE  Append(w, Head(q)) \o Tail(q) = w \o q
<1>1. Head(q) \in Frames /\ Tail(q) \in Seq(Frames) /\ Len(Tail(q)) = Len(q) - 1 /\ Len(q) > 0
      /\ \A i \in 1 .. Len(Tail(q)) : Tail(q)[i] = q[i + 1]
  BY HeadTailProperties
<1> DEFINE a == Append(w, Head(q))
           l == a \o Tail(q)
           r == w \o q
<1>2. a \in Seq(Frames) /\ Len(a) = Len(w) + 1 /\ a[Len(w) + 1] = Head(q)
      /\ \A i \in 1 .. Len(w) : a[i] = w[i]
  BY <1>1, AppendProperties
<1>3. l \in Seq(Frames) /\ Len(l) = Len(w) + Len(q)
      /\ \A i \in 1 .. Len(l) : l[i] = IF i <= Len(a) THEN a[i] ELSE Tail(q)[i - Len(a)]
  BY <1>1, <1>2, ConcatProperties
<1>4. r \in Seq(Frames) /\ Len(r) = Len(w) + Len(q)
      /\ \A i \in 1 .. Len(r) : r[i] = IF i <= Len(w) THEN w[i] ELSE q[i - Len(w)]
  BY ConcatProperties
<1>. HIDE DEF a, l, r
<1>5. ASSUME NEW i \in 1 .. Len(l) PROVE l[i] = r[i]
  <2>1. Len(w) \in Nat /\ Len(q) \in Nat /\ i \in Nat
    BY <1>3
  <2>2. CASE i <= Len(w)
    BY <1>2, <1>3, <1>4, <2>1, <2>2
  <2>3. CASE i = Len(w) + 1
    <3>1. l[i] = Head(q) /\ r[i] = q[1]
      BY <1>2, <1>3, <1>4, <2>1, <2>3
    <3>. QED
      BY <3>1
  <2>4. CASE i > Len(w) + 1
    <3>1. l[i] = Tail(q)[i - Len(a)] /\ r[i] = q[i - Len(w)]
      BY <1>2, <1>3, <1>4, <2>1, <2>4
    <3>2. i - Len(a) \in 1 .. Len(Tail(q)) /\ i - Len(a) + 1 = i - Len(w)
      BY <1>1, <1>2, <1>3, <2>1, <2>4
    <3>. QED
      BY <1>1, <3>1, <3>2
  <2>. QED
    BY <2>1, <2>2, <2>3, <2>4
<1>6. l = r
  <2>1. l \in Seq(Frames) /\ r \in Seq(Frames) /\ Len(l) = Len(r)
    BY <1>3, <1>4
  <2>. QED
    BY <1>5, <2>1, SeqEqual, Zenon
<1>. QED
  BY <1>6 DEF a, l, r

LEMMA ConcatWithPing ==
    ASSUME NEW w \in Seq(Frames), NEW q \in Seq(Frames), NEW f \in Frames, f.what = "ping"
    PROVE  PutIn(w \o q, Len(w), f, Append(w, f) \o q)
<1> DEFINE a == Append(w, f)
           t == a \o q
           s == w \o q
<1>1. a \in Seq(Frames) /\ Len(a) = Len(w) + 1 /\ a[Len(w) + 1] = f
      /\ \A i \in 1 .. Len(w) : a[i] = w[i]
  BY AppendProperties
<1>2. t \in Seq(Frames) /\ Len(t) = Len(w) + 1 + Len(q)
      /\ \A i \in 1 .. Len(t) : t[i] = IF i <= Len(a) THEN a[i] ELSE q[i - Len(a)]
  BY <1>1, ConcatProperties
<1>3. s \in Seq(Frames) /\ Len(s) = Len(w) + Len(q)
      /\ \A i \in 1 .. Len(s) : s[i] = IF i <= Len(w) THEN w[i] ELSE q[i - Len(w)]
  BY ConcatProperties
<1>4. Len(w) \in Nat /\ Len(q) \in Nat
  OBVIOUS
<1>. HIDE DEF a, t, s
<1>5. \A i \in 1 .. Len(s) : t[Moved(Len(w), i)] = s[i]
  <2>. SUFFICES ASSUME NEW i \in 1 .. Len(s) PROVE t[Moved(Len(w), i)] = s[i]
    OBVIOUS
  <2>1. CASE i <= Len(w)
    BY <1>1, <1>2, <1>3, <1>4, <2>1 DEF Moved
  <2>2. CASE i > Len(w)
    <3>1. t[i + 1] = q[i + 1 - Len(a)] /\ s[i] = q[i - Len(w)]
      BY <1>1, <1>2, <1>3, <1>4, <2>2
    <3>2. i + 1 - Len(a) = i - Len(w)
      BY <1>1, <1>3, <1>4
    <3>. QED
      BY <1>4, <2>2, <3>1, <3>2 DEF Moved
  <2>. QED
    BY <1>3, <1>4, <2>1, <2>2
<1>6. t[Len(w) + 1] = f
  BY <1>1, <1>2, <1>4
<1>7. PutIn(s, Len(w), f, t)
  BY <1>2, <1>3, <1>4, <1>5, <1>6 DEF PutIn
<1>. QED
  BY <1>7 DEF a, t, s

(***************************************************************************)
(* The stream over a step.                                                 *)
(***************************************************************************)
LEMMA StreamStays ==
    ASSUME StreamInv, UNCHANGED connectionVars PROVE StreamInv'
<1>1. Stream' = Stream
  BY DEF Stream, connectionVars
<1>. QED
  BY <1>1 DEF StreamInv, NumberInv, LinkInv, CloseInv, PromiseInv, EndInv, NumbersAreUnique,
     MessagesAreContiguous, Follows, WrittenTo, connectionVars

\* Steps that leave the stream and its boundary alone.
LEMMA StartKeeps == ASSUME ConnectionTypeOK, StreamInv, NEW m \in Outgoing, StartSend(m) PROVE StreamInv'
<1>1. Stream' = Stream /\ wire' = wire /\ queue' = queue
  BY DEF Stream, StartSend
<1>2. cmd.pc = "idle" /\ cmd'.pc = "number"
  BY DEF StartSend, Idle
<1>3. CloseInv'
  BY <1>1 DEF StartSend, StreamInv, CloseInv
<1>. QED
  BY <1>1, <1>2, <1>3 DEF StartSend, StreamInv, NumberInv, LinkInv, PromiseInv, EndInv,
     NumbersAreUnique, MessagesAreContiguous, Follows, WrittenTo

LEMMA NumberKeeps == ASSUME ConnectionTypeOK, StreamInv, DrawNumber PROVE StreamInv'
<1>1. Stream' = Stream /\ wire' = wire /\ queue' = queue /\ nextSeq' = nextSeq + 1
  BY DEF Stream, DrawNumber
<1>2. /\ cmd.pc = "number" /\ cmd'.pc = "queue" /\ cmd'.of = cmd.of /\ cmd.of \in Outgoing
      /\ cmd'.seq = nextSeq /\ cmd'.part = 1 /\ nextSeq \in Nat \ {0}
  BY DEF DrawNumber, ConnectionTypeOK
<1>3. \A i \in DOMAIN Stream : Stream[i].seq < nextSeq /\ Stream[i].seq \in Nat
  BY StreamPlaces, FrameFields DEF StreamInv, NumberInv
<1>4. NumberInv'
  <2>1. \A i \in DOMAIN Stream :
           /\ Stream[i].seq < nextSeq + 1 /\ Stream[i].seq # nextSeq
           /\ Stream[i].what # "close" => Stream[i].seq > 0
    BY <1>2, <1>3 DEF StreamInv, NumberInv
  <2>2. cmd'.part \in 1 .. Parts[cmd'.of] /\ cmd'.seq \in 1 .. nextSeq' - 1
    BY <1>1, <1>2, PartsAssumption
  <2>. QED
    BY <1>1, <1>2, <2>1, <2>2 DEF NumberInv
<1>5. LinkInv'
  <2>1. task' = task
    BY DEF DrawNumber
  <2>2. task # "ended" => \A j \in DOMAIN Stream : Follows(Stream, j, Len(Stream) + 1) =>
           /\ Stream[j].what = "part" => Stream[j].part = Parts[Stream[j].of]
           /\ Stream[j].seq < nextSeq
    BY <1>2, <1>3 DEF StreamInv, LinkInv
  <2>. QED
    BY <1>1, <1>2, <2>1, <2>2 DEF LinkInv
<1>6. CloseInv'
  <2>1. cmd # Idle
    BY <1>2 DEF Idle
  <2>. QED
    BY <1>1, <2>1 DEF StreamInv, CloseInv
<1>7. PromiseInv'
  BY <1>1, <1>2 DEF DrawNumber, StreamInv, PromiseInv, WrittenTo
<1>. QED
  BY <1>1, <1>4, <1>5, <1>6, <1>7 DEF DrawNumber, StreamInv, EndInv, NumbersAreUnique,
     MessagesAreContiguous, Follows

LEMMA RefusedKeeps == ASSUME ConnectionTypeOK, StreamInv, QueueClosed PROVE StreamInv'
<1>1. Stream' = Stream /\ wire' = wire /\ queue' = queue
  BY DEF Stream, QueueClosed
<1>2. cmd.pc = "queue" /\ cmd'.pc = "idle" /\ task = "ended"
  BY DEF QueueClosed, Idle
<1>. QED
  BY <1>1, <1>2 DEF QueueClosed, StreamInv, NumberInv, LinkInv, CloseInv, PromiseInv, EndInv,
     NumbersAreUnique, MessagesAreContiguous, Follows, WrittenTo

LEMMA BreakKeeps == ASSUME ConnectionTypeOK, StreamInv, ConnectionBreaks PROVE StreamInv'
<1>1. Stream' = Stream /\ wire' = wire /\ queue' = queue /\ cmd' = cmd
  BY DEF Stream, ConnectionBreaks
<1>. QED
  BY <1>1 DEF ConnectionBreaks, StreamInv, NumberInv, LinkInv, CloseInv, PromiseInv, EndInv,
     NumbersAreUnique, MessagesAreContiguous, Follows, WrittenTo

LEMMA WriteKeeps == ASSUME ConnectionTypeOK, StreamInv, WriteQueued PROVE StreamInv'
<1>1. queue \in Seq(Frames) /\ wire \in Seq(Frames) /\ queue # << >> /\ Head(queue) \in Frames
  BY DEF ConnectionTypeOK, WriteQueued
<1>2. Stream' = Stream
  BY <1>1, ConcatWithTaken DEF Stream, WriteQueued
<1>3. /\ Len(wire') = Len(wire) + 1 /\ DOMAIN wire' = 1 .. Len(wire) + 1
      /\ wire'[Len(wire) + 1] = Head(queue) /\ \A i \in 1 .. Len(wire) : wire'[i] = wire[i]
  BY <1>1, AppendedFrames DEF WriteQueued
<1>4. Stream[Len(wire) + 1] = Head(queue) /\ Len(wire) + 1 <= Len(Stream)
  <2>1. Len(wire) \in Nat /\ Len(queue) \in Nat /\ Len(queue) > 0 /\ Head(queue) = queue[1]
    BY <1>1
  <2>. QED
    BY <1>1, <2>1, ConcatProperties DEF Stream
<1>5. task = "running" /\ UNCHANGED <<connected, nextSeq, cmd, accepted>>
      /\ task' = IF Head(queue) = Close THEN "ending" ELSE "running"
  BY DEF WriteQueued
<1>6. CloseInv'
  <2>. SUFFICES ASSUME NEW i \in DOMAIN Stream, Stream[i].what = "close"
                PROVE  /\ Stream[i] = Close /\ i = Len(Stream) /\ ~connected /\ cmd = Idle
                       /\ i <= Len(wire') => task' # "running"
    BY <1>2, <1>5 DEF CloseInv
  <2>1. /\ Stream[i] = Close /\ i = Len(Stream) /\ ~connected /\ cmd = Idle
        /\ ~(i <= Len(wire))
    BY <1>5 DEF StreamInv, CloseInv
  <2>2. CASE i = Len(wire) + 1
    BY <1>4, <1>5, <2>1, <2>2
  <2>3. CASE i # Len(wire) + 1
    BY <1>3, <2>1, <2>3, StreamPlaces
  <2>. QED
    BY <2>1, <2>2, <2>3
<1>7. PromiseInv'
  BY <1>2, <1>5 DEF StreamInv, PromiseInv, WrittenTo
<1>. QED
  BY <1>2, <1>5, <1>6, <1>7 DEF StreamInv, NumberInv, LinkInv, EndInv, NumbersAreUnique,
     MessagesAreContiguous, Follows

LEMMA DisconnectKeeps == ASSUME ConnectionTypeOK, StreamInv, Disconnect PROVE StreamInv'
<1> DEFINE l == Len(Stream)
<1>1. wire \in Seq(Frames) /\ queue \in Seq(Frames) /\ Close \in Frames
      /\ Close.what = "close" /\ Close.seq = 0
  BY FrameTypes DEF ConnectionTypeOK, Close
<1>2. Stream' = Append(Stream, Close)
  BY <1>1, ConcatWithAppended DEF Stream, Disconnect
<1>3. /\ Stream \in Seq(Frames) /\ l \in Nat /\ DOMAIN Stream = 1 .. l
      /\ DOMAIN Stream' = 1 .. l + 1 /\ Len(Stream') = l + 1
      /\ Stream'[l + 1] = Close /\ \A i \in 1 .. l : Stream'[i] = Stream[i]
  BY <1>1, <1>2, StreamPlaces, AppendedFrames
<1>4. \A i \in 1 .. l : Stream[i].what # "close" /\ Stream[i].seq > 0
  BY <1>3 DEF StreamInv, NumberInv, CloseInv, Disconnect
<1>5. cmd = Idle /\ cmd.pc = "idle" /\ UNCHANGED <<cmd, nextSeq, wire, task, accepted>> /\ ~connected'
  BY DEF Disconnect, Idle
<1>6. NumbersAreUnique(Stream')
  <2>1. \A i \in 1 .. l : Stream[i].seq # Close.seq
    BY <1>1, <1>4
  <2>. QED
    BY <1>1, <1>2, <1>3, <2>1, AppendUnique DEF StreamInv
<1>7. MessagesAreContiguous(Stream')
  BY <1>1, <1>2, <1>3, AppendContiguous DEF StreamInv
<1>8. NumberInv'
  <2>1. nextSeq \in Nat \ {0}
    BY DEF ConnectionTypeOK
  <2>2. ASSUME NEW i \in 1 .. l + 1
        PROVE  Stream'[i].seq < nextSeq /\ (Stream'[i].what # "close" => Stream'[i].seq > 0)
    <3>1. CASE i \in 1 .. l
      BY <1>3, <3>1 DEF StreamInv, NumberInv
    <3>2. CASE i = l + 1
      BY <1>1, <1>3, <2>1, <3>2
    <3>. QED
      BY <1>3, <3>1, <3>2
  <2>. QED
    BY <1>3, <1>5, <2>2 DEF NumberInv
<1>9. LinkInv'
  <2>. SUFFICES ASSUME NEW j \in 1 .. l + 1, Follows(Stream', j, l + 2), Stream'[j].what = "part"
                PROVE  FALSE
    BY <1>3, <1>5 DEF LinkInv
  <2>1. CASE j = l + 1
    BY <1>1, <1>3, <2>1
  <2>2. CASE j \in 1 .. l
    <3>1. l + 1 \in j + 1 .. l + 2 - 1
      BY <1>3, <2>2
    <3>. QED
      BY <1>1, <1>3, <3>1 DEF Follows
  <2>. QED
    BY <1>3, <2>1, <2>2
<1>10. CloseInv'
  <2>. SUFFICES ASSUME NEW i \in 1 .. l + 1, Stream'[i].what = "close"
                PROVE  i = l + 1 /\ ~(i <= Len(wire))
    BY <1>3, <1>5 DEF CloseInv
  <2>1. i = l + 1
    BY <1>3, <1>4
  <2>. QED
    BY <2>1, StreamPlaces
<1>11. PromiseInv'
  <2>1. \A m : WrittenTo(Stream, m) => WrittenTo(Stream', m)
    BY <1>3 DEF WrittenTo
  <2>. QED
    BY <1>5, <2>1 DEF StreamInv, PromiseInv
<1>12. EndInv'
  BY DEF StreamInv, EndInv, Disconnect
<1>. QED
  BY <1>6, <1>7, <1>8, <1>9, <1>10, <1>11, <1>12 DEF StreamInv

LEMMA QueueKeeps == ASSUME ConnectionTypeOK, StreamInv, QueuePart PROVE StreamInv'
<1> DEFINE l == Len(Stream)
           f == Part(cmd.of, cmd.seq, cmd.part)
<1>1. /\ wire \in Seq(Frames) /\ queue \in Seq(Frames)
      /\ cmd.pc = "queue" /\ cmd.of \in Outgoing /\ cmd.seq \in Nat /\ cmd.part \in Nat
      /\ task # "ended"
  BY DEF ConnectionTypeOK, QueuePart
<1>2. /\ f \in Frames /\ f.what = "part" /\ f.of = cmd.of /\ f.seq = cmd.seq /\ f.part = cmd.part
      /\ f # Close
  BY <1>1, FrameTypes DEF Part, Close
<1>3. Stream' = Append(Stream, f)
  BY <1>1, <1>2, ConcatWithAppended DEF Stream, QueuePart
<1>. HIDE DEF f
<1>4. /\ Stream \in Seq(Frames) /\ l \in Nat /\ DOMAIN Stream = 1 .. l
      /\ DOMAIN Stream' = 1 .. l + 1 /\ Len(Stream') = l + 1
      /\ Stream'[l + 1] = f /\ \A i \in 1 .. l : Stream'[i] = Stream[i] /\ Stream[i] \in Frames
  BY <1>1, <1>2, <1>3, StreamPlaces, AppendedFrames
<1>5. /\ cmd.seq \in 1 .. nextSeq - 1 /\ cmd.part \in 1 .. Parts[cmd.of] /\ nextSeq \in Nat
      /\ \A i \in 1 .. l : Stream[i].seq = cmd.seq =>
            Stream[i].what = "part" /\ Stream[i].of = cmd.of /\ Stream[i].part < cmd.part
  BY <1>1, <1>4 DEF StreamInv, NumberInv, ConnectionTypeOK
<1>6. Parts[cmd.of] \in Nat \ {0}
  BY <1>1, PartsAssumption
<1>7. UNCHANGED <<connected, nextSeq, wire, task>>
  BY DEF QueuePart
<1>8. \A i \in 1 .. l : Stream[i].what # "close"
  BY <1>1, <1>4 DEF StreamInv, CloseInv, Idle
<1>9. NumbersAreUnique(Stream')
  <2>1. \A i \in 1 .. l : Stream[i].seq = f.seq =>
           Stream[i].what = f.what /\ Stream[i].of = f.of /\ Stream[i].part # f.part
    BY <1>1, <1>2, <1>4, <1>5, FrameFields
  <2>. QED
    BY <1>2, <1>3, <1>4, <2>1, AppendUnique DEF StreamInv
<1>10. MessagesAreContiguous(Stream')
  <2>1. CASE cmd.part = 1
    <3>1. \A j \in 1 .. l : Follows(Stream, j, l + 1) =>
             Stream[j].part = Parts[Stream[j].of] /\ Stream[j].seq < f.seq
      <4>. SUFFICES ASSUME NEW j \in 1 .. l, Follows(Stream, j, l + 1)
                    PROVE  Stream[j].part = Parts[Stream[j].of] /\ Stream[j].seq < f.seq
        OBVIOUS
      <4>1. Stream[j].what = "part"
        BY <1>4, <1>8, FrameFields DEF Follows
      <4>. QED
        BY <1>1, <1>2, <1>4, <2>1, <4>1 DEF StreamInv, LinkInv
    <3>. QED
      BY <1>2, <1>3, <1>4, <2>1, <3>1, AppendContiguous DEF StreamInv
  <2>2. CASE cmd.part > 1
    <3>1. PICK j \in 1 .. l : /\ Follows(Stream, j, l + 1)
                             /\ Stream[j] = Part(cmd.of, cmd.seq, cmd.part - 1)
      BY <1>1, <1>4, <2>2 DEF StreamInv, LinkInv
    <3>2. f = Part(Stream[j].of, Stream[j].seq, Stream[j].part + 1)
      BY <1>1, <3>1 DEF f, Part
    <3>. QED
      BY <1>2, <1>3, <1>4, <3>1, <3>2, AppendContiguous DEF StreamInv
  <2>. QED
    BY <1>5, <2>1, <2>2
<1>11. \/ cmd' = Idle /\ cmd'.pc = "idle" /\ cmd.part = Parts[cmd.of] /\ accepted' = Append(accepted, cmd.of)
       \/ /\ cmd'.pc = "queue" /\ cmd'.of = cmd.of /\ cmd'.seq = cmd.seq /\ cmd'.part = cmd.part + 1
          /\ cmd.part # Parts[cmd.of] /\ accepted' = accepted
  BY DEF QueuePart, Idle, ConnectionTypeOK
<1>12. NumberInv'
  <2>1. ASSUME NEW i \in 1 .. l + 1
        PROVE  /\ Stream'[i].seq < nextSeq
               /\ Stream'[i].what # "close" => Stream'[i].seq > 0
               /\ Stream'[i].seq = cmd.seq =>
                    Stream'[i].what = "part" /\ Stream'[i].of = cmd.of /\ Stream'[i].part < cmd.part + 1
    <3>1. CASE i \in 1 .. l
      <4>1. Stream'[i] = Stream[i] /\ Stream[i].part \in Nat
        BY <1>4, <3>1, FrameFields
      <4>. QED
        BY <1>1, <1>4, <1>5, <3>1, <4>1 DEF StreamInv, NumberInv
    <3>2. CASE i = l + 1
      BY <1>1, <1>2, <1>4, <1>5, <3>2
    <3>. QED
      BY <1>4, <3>1, <3>2
  <2>2. cmd'.pc = "queue" => cmd'.part \in 1 .. Parts[cmd'.of] /\ cmd'.seq \in 1 .. nextSeq - 1
    BY <1>1, <1>5, <1>6, <1>11
  <2>. QED
    BY <1>4, <1>7, <1>11, <2>1, <2>2 DEF NumberInv
<1>13. Follows(Stream', l + 1, l + 2) /\ \A j \in 1 .. l + 1 : Follows(Stream', j, l + 2) => j = l + 1
  <2>1. \A j \in 1 .. l : l + 1 \in j + 1 .. l + 2 - 1
    BY <1>4
  <2>. QED
    BY <1>2, <1>4, <2>1 DEF Follows
<1>14. LinkInv'
  <2>1. CASE cmd'.pc = "idle"
    BY <1>2, <1>4, <1>11, <1>13, <2>1 DEF LinkInv
  <2>2. CASE cmd'.pc = "queue"
    <3>1. f = Part(cmd'.of, cmd'.seq, cmd'.part - 1)
      BY <1>1, <1>11, <2>2 DEF f
    <3>2. cmd'.part # 1
      BY <1>5, <1>11, <2>2
    <3>3. l + 1 \in DOMAIN Stream' /\ l + 2 = Len(Stream') + 1
      BY <1>4
    <3>. QED
      BY <1>4, <1>13, <2>2, <3>1, <3>2, <3>3 DEF LinkInv
  <2>. QED
    BY <1>11, <2>1, <2>2
<1>15. CloseInv'
  BY <1>2, <1>4, <1>8 DEF CloseInv
<1>16. PromiseInv'
  <2>1. \A m : WrittenTo(Stream, m) => WrittenTo(Stream', m)
    BY <1>4 DEF WrittenTo
  <2>2. \A n \in 1 .. cmd.part : \E i \in 1 .. l + 1 : Stream'[i].of = cmd.of /\ Stream'[i].part = n
    <3>1. \A n \in 1 .. cmd.part - 1 : \E i \in 1 .. l : Stream[i].of = cmd.of /\ Stream[i].part = n
      BY <1>1, <1>4 DEF StreamInv, PromiseInv
    <3>2. Stream'[l + 1].of = cmd.of /\ Stream'[l + 1].part = cmd.part
      BY <1>2, <1>4
    <3>. SUFFICES ASSUME NEW n \in 1 .. cmd.part
                  PROVE  \E i \in 1 .. l + 1 : Stream'[i].of = cmd.of /\ Stream'[i].part = n
      OBVIOUS
    <3>3. CASE n \in 1 .. cmd.part - 1
      <4>1. PICK i \in 1 .. l : Stream[i].of = cmd.of /\ Stream[i].part = n
        BY <3>1, <3>3
      <4>. QED
        BY <1>4, <4>1
    <3>4. CASE n = cmd.part
      BY <1>4, <3>2, <3>4
    <3>. QED
      BY <1>1, <3>3, <3>4
  <2>3. \A k \in DOMAIN accepted : WrittenTo(Stream', accepted[k])
    BY <1>1, <2>1 DEF StreamInv, PromiseInv
  <2>4. CASE cmd'.pc = "idle"
    <3>1. WrittenTo(Stream', cmd.of)
      BY <1>4, <1>11, <2>2, <2>4 DEF WrittenTo
    <3>2. \A k \in DOMAIN accepted' : accepted'[k] = cmd.of \/ (k \in DOMAIN accepted /\ accepted'[k] = accepted[k])
      BY <1>1, <1>11, <2>4 DEF ConnectionTypeOK
    <3>3. \A k \in DOMAIN accepted' : WrittenTo(Stream', accepted'[k])
      BY <2>3, <3>1, <3>2
    <3>. QED
      BY <2>4, <3>3 DEF PromiseInv
  <2>5. CASE cmd'.pc = "queue"
    <3>1. cmd'.of = cmd.of /\ cmd'.part - 1 = cmd.part /\ accepted' = accepted
      BY <1>1, <1>11, <2>5
    <3>. QED
      BY <1>4, <2>2, <2>3, <3>1 DEF PromiseInv
  <2>. QED
    BY <1>11, <2>4, <2>5
<1>17. EndInv'
  BY <1>1, <1>7 DEF EndInv
<1>. QED
  BY <1>9, <1>10, <1>12, <1>14, <1>15, <1>16, <1>17 DEF StreamInv

LEMMA PingKeeps == ASSUME ConnectionTypeOK, StreamInv, SendPing PROVE StreamInv'
<1> DEFINE l == Len(Stream)
           n == Len(wire)
           f == Ping(nextSeq)
<1>1. /\ wire \in Seq(Frames) /\ queue \in Seq(Frames) /\ nextSeq \in Nat \ {0}
      /\ nextSeq' = nextSeq + 1 /\ task = "running"
      /\ UNCHANGED <<connected, cmd, accepted, queue, task>>
  BY DEF ConnectionTypeOK, SendPing
<1>2. f \in Frames /\ f.what = "ping" /\ f.seq = nextSeq
  BY <1>1, FrameTypes DEF Ping
<1>3. PutIn(Stream, n, f, Stream')
  BY <1>1, <1>2, ConcatWithPing DEF Stream, SendPing
<1>. HIDE DEF f
<1>4. /\ Stream \in Seq(Frames) /\ l \in Nat /\ n \in 0 .. l /\ DOMAIN Stream = 1 .. l
      /\ DOMAIN Stream' = 1 .. l + 1 /\ Len(Stream') = l + 1
      /\ Stream'[n + 1] = f
  BY <1>3, StreamPlaces, PutInPlaces DEF PutIn
<1>5. \A k \in 1 .. l + 1 : k # n + 1 => \E i \in 1 .. l : k = Moved(n, i) /\ Stream'[k] = Stream[i]
  BY <1>3, <1>4, PutInPlaces
<1>6. \A i \in 1 .. l : Moved(n, i) \in 1 .. l + 1 /\ Stream'[Moved(n, i)] = Stream[i]
  BY <1>3, <1>4, MovedPlaces DEF PutIn
<1>7. \A i \in 1 .. l : Stream[i].seq < nextSeq /\ Stream[i].seq \in Nat
  BY <1>4, StreamPlaces, FrameFields DEF StreamInv, NumberInv
<1>8. NumbersAreUnique(Stream')
  <2>1. \A i \in 1 .. l : Stream[i].seq # f.seq
    BY <1>1, <1>2, <1>7
  <2>. QED
    BY <1>3, <1>4, <2>1, PutInUnique DEF StreamInv
<1>9. MessagesAreContiguous(Stream')
  BY <1>3, <1>4, PutInContiguous DEF StreamInv
<1>10. NumberInv'
  <2>1. cmd.pc = "queue" => cmd.seq \in 1 .. nextSeq - 1 /\ cmd.part \in 1 .. Parts[cmd.of]
    BY DEF StreamInv, NumberInv
  <2>2. ASSUME NEW k \in 1 .. l + 1
        PROVE  /\ Stream'[k].seq < nextSeq + 1
               /\ Stream'[k].what # "close" => Stream'[k].seq > 0
               /\ cmd.pc = "queue" /\ Stream'[k].seq = cmd.seq =>
                    Stream'[k].what = "part" /\ Stream'[k].of = cmd.of /\ Stream'[k].part < cmd.part
    <3>1. CASE k = n + 1
      BY <1>1, <1>2, <1>4, <2>1, <3>1
    <3>2. CASE k # n + 1
      <4>1. PICK i \in 1 .. l : Stream'[k] = Stream[i]
        BY <1>5, <3>2
      <4>2. Stream[i].seq < nextSeq + 1
        BY <1>1, <1>7
      <4>. QED
        BY <1>4, <4>1, <4>2 DEF StreamInv, NumberInv
    <3>. QED
      BY <3>1, <3>2
  <2>3. cmd.pc = "queue" => cmd.seq \in 1 .. nextSeq + 1 - 1
    BY <1>1, <2>1
  <2>. QED
    BY <1>1, <1>4, <2>1, <2>2, <2>3 DEF NumberInv
<1>11. \A j \in 1 .. l : Follows(Stream', Moved(n, j), l + 2) <=> Follows(Stream, j, l + 1)
  <2>1. Moved(n, l + 1) = l + 2
    BY <1>4, MovedPlaces
  <2>2. \A j \in 1 .. l : l + 1 \in 1 .. l + 1 /\ j \in 1 .. l + 1 - 1
    BY <1>4
  <2>. QED
    BY <1>3, <1>4, <2>1, <2>2, PutInFollows
<1>12. \A k \in 1 .. l + 1 : Follows(Stream', k, l + 2) =>
         \E j \in 1 .. l : Stream'[k] = Stream[j] /\ Follows(Stream, j, l + 1)
  <2>. SUFFICES ASSUME NEW k \in 1 .. l + 1, Follows(Stream', k, l + 2)
                PROVE  \E j \in 1 .. l : Stream'[k] = Stream[j] /\ Follows(Stream, j, l + 1)
    OBVIOUS
  <2>1. k # n + 1
    BY <1>2, <1>4 DEF Follows
  <2>. QED
    BY <1>5, <1>11, <2>1
<1>13. LinkInv'
  <2>1. l + 2 = Len(Stream') + 1
    BY <1>4
  <2>2. ASSUME cmd.pc # "queue" \/ cmd.part = 1, NEW k \in 1 .. l + 1, Follows(Stream', k, l + 2)
        PROVE  /\ Stream'[k].what = "part" => Stream'[k].part = Parts[Stream'[k].of]
               /\ cmd.pc = "queue" => Stream'[k].seq < cmd.seq
    BY <1>1, <1>4, <1>12, <2>2 DEF StreamInv, LinkInv
  <2>3. ASSUME cmd.pc = "queue", cmd.part > 1
        PROVE  \E k \in 1 .. l + 1 : /\ Follows(Stream', k, l + 2)
                                     /\ Stream'[k] = Part(cmd.of, cmd.seq, cmd.part - 1)
    <3>1. PICK j \in 1 .. l : /\ Follows(Stream, j, l + 1)
                             /\ Stream[j] = Part(cmd.of, cmd.seq, cmd.part - 1)
      BY <1>1, <1>4, <2>3 DEF StreamInv, LinkInv
    <3>. QED
      BY <1>6, <1>11, <3>1
  <2>. QED
    BY <1>1, <1>4, <2>1, <2>2, <2>3 DEF LinkInv
<1>14. CloseInv'
  <2>. SUFFICES ASSUME NEW k \in 1 .. l + 1, Stream'[k].what = "close"
                PROVE  /\ Stream'[k] = Close /\ k = l + 1 /\ ~connected /\ cmd = Idle
                       /\ k <= Len(wire') => task # "running"
    BY <1>1, <1>4 DEF CloseInv
  <2>1. k # n + 1
    BY <1>2, <1>4
  <2>2. PICK i \in 1 .. l : k = Moved(n, i) /\ Stream'[k] = Stream[i]
    BY <1>5, <2>1
  <2>3. Stream[i] = Close /\ i = l /\ ~connected /\ cmd = Idle /\ ~(i <= n)
    BY <1>1, <1>4, <2>2 DEF StreamInv, CloseInv
  <2>4. k = l + 1
    BY <1>4, <2>2, <2>3 DEF Moved
  <2>5. Len(wire') = n + 1
    BY <1>1, <1>2, AppendedFrames DEF SendPing, f
  <2>. QED
    BY <1>4, <2>2, <2>3, <2>4, <2>5
<1>15. PromiseInv'
  <2>1. \A i \in 1 .. l : \E k \in 1 .. l + 1 : Stream'[k] = Stream[i]
    BY <1>6
  <2>2. \A m : WrittenTo(Stream, m) => WrittenTo(Stream', m)
    BY <1>4, <2>1 DEF WrittenTo
  <2>3. \A k \in DOMAIN accepted : WrittenTo(Stream', accepted[k])
    BY <1>1, <2>2 DEF StreamInv, PromiseInv
  <2>4. cmd.pc = "queue" => \A h \in 1 .. cmd.part - 1 : \E i \in 1 .. l :
           Stream[i].of = cmd.of /\ Stream[i].part = h
    BY <1>1, <1>4 DEF StreamInv, PromiseInv
  <2>5. cmd.pc = "queue" => \A h \in 1 .. cmd.part - 1 : \E k \in 1 .. l + 1 :
           Stream'[k].of = cmd.of /\ Stream'[k].part = h
    BY <2>1, <2>4
  <2>. QED
    BY <1>1, <1>4, <2>3, <2>5 DEF PromiseInv
<1>16. EndInv'
  BY <1>1 DEF EndInv
<1>. QED
  BY <1>8, <1>9, <1>10, <1>13, <1>14, <1>15, <1>16 DEF StreamInv

LEMMA FinishKeeps == ASSUME ConnectionTypeOK, StreamInv, FinishConnection PROVE StreamInv'
<1> DEFINE n == Len(wire)
<1>1. /\ wire \in Seq(Frames) /\ n \in Nat /\ DOMAIN wire = 1 .. n
      /\ Stream \in Seq(Frames) /\ DOMAIN Stream = 1 .. Len(Stream) /\ Len(Stream) \in Nat
      /\ n <= Len(Stream) /\ \A i \in 1 .. n : Stream[i] = wire[i]
  BY StreamPlaces DEF ConnectionTypeOK
<1>2. /\ task' = "ended" /\ connected' = FALSE /\ queue' = << >> /\ task = "ending"
      /\ UNCHANGED <<nextSeq, cmd, accepted, wire>>
  BY DEF FinishConnection
<1>3. Stream' = wire
  BY <1>1, <1>2, ConcatEmptySeq DEF Stream
<1>4. NumbersAreUnique(wire)
  BY <1>1 DEF StreamInv, NumbersAreUnique
<1>5. MessagesAreContiguous(wire)
  <2>1. \A i \in 1 .. n, j \in 1 .. n : j < i => (Follows(wire, j, i) <=> Follows(Stream, j, i))
    BY <1>1 DEF Follows
  <2>2. \A i \in 1 .. n : \A j \in 1 .. i - 1 : j \in 1 .. n /\ j < i
    BY <1>1
  <2>. QED
    BY <1>1, <2>1, <2>2 DEF StreamInv, MessagesAreContiguous
<1>6. NumberInv'
  BY <1>1, <1>2, <1>3 DEF StreamInv, NumberInv
<1>7. LinkInv' /\ EndInv'
  BY <1>2 DEF LinkInv, EndInv
<1>8. \A i \in 1 .. n : wire[i].what = "close" =>
         wire[i] = Close /\ i = Len(Stream) /\ i = n /\ cmd = Idle
  BY <1>1 DEF StreamInv, CloseInv
<1>9. CloseInv'
  BY <1>1, <1>2, <1>3, <1>8 DEF CloseInv
<1>10. PromiseInv'
  <2>1. ASSUME NEW i \in 1 .. n, wire[i] = Close PROVE Stream = wire
    <3>1. wire[i].what = "close"
      BY <2>1 DEF Close
    <3>2. Len(Stream) = n
      BY <1>8, <3>1
    <3>. QED
      BY <1>1, <3>2, SeqEqual
  <2>2. \A k \in DOMAIN accepted : WrittenTo(Stream, accepted[k])
    BY <1>2 DEF StreamInv, PromiseInv
  <2>. QED
    BY <1>1, <1>2, <1>3, <2>1, <2>2 DEF PromiseInv
<1>. QED
  BY <1>3, <1>4, <1>5, <1>6, <1>7, <1>9, <1>10 DEF StreamInv

LEMMA StreamStep == ConnectionTypeOK /\ StreamInv /\ [Next]_vars => StreamInv'
<1>. SUFFICES ASSUME ConnectionTypeOK, StreamInv, [Next]_vars PROVE StreamInv'
  OBVIOUS
<1>1. CASE Command
  BY <1>1, StartKeeps, NumberKeeps, QueueKeeps, RefusedKeeps, DisconnectKeeps DEF Command
<1>2. CASE Task
  BY <1>2, WriteKeeps, PingKeeps, BreakKeeps, FinishKeeps, StreamStays DEF Task, ReceiveEnvelope, Clock
<1>3. CASE UNCHANGED vars
  BY <1>3, StreamStays DEF vars
<1>. QED
  BY <1>1, <1>2, <1>3 DEF Next

LEMMA StreamStarts == Init => StreamInv
<1>. SUFFICES ASSUME Init PROVE StreamInv
  OBVIOUS
<1>1. Stream = << >> /\ DOMAIN Stream = {} /\ DOMAIN accepted = {} /\ DOMAIN wire = {}
  BY ConcatEmptySeq DEF Init, Stream
<1>2. cmd.pc = "idle" /\ task = "running"
  BY DEF Init, Idle
<1>. QED
  BY <1>1, <1>2 DEF StreamInv, NumbersAreUnique, MessagesAreContiguous, NumberInv, LinkInv, CloseInv,
     PromiseInv, EndInv

LEMMA StreamsInOrder == Spec => [](ConnectionTypeOK /\ StreamInv)
<1>1. TypeOK => ConnectionTypeOK
  BY DEF TypeOK
<1>. QED
  BY <1>1, TypeCorrect, StreamStarts, StreamStep, PTL DEF Spec

(* The relay can tell the messages apart, however commands and task        *)
(* interleave: numbers on the wire are unique to a message or a ping, and  *)
(* a message's envelopes come in order with nothing but pings between.     *)
THEOREM WireStaysInOrder == Spec => []WireIsInOrder
<1>1. ConnectionTypeOK /\ StreamInv => WireIsInOrder
  <2>. SUFFICES ASSUME ConnectionTypeOK, StreamInv PROVE WireIsInOrder
    OBVIOUS
  <2> DEFINE n == Len(wire)
  <2>1. /\ n \in Nat /\ DOMAIN wire = 1 .. n /\ DOMAIN Stream = 1 .. Len(Stream)
        /\ n <= Len(Stream) /\ Len(Stream) \in Nat /\ \A i \in 1 .. n : Stream[i] = wire[i]
    BY StreamPlaces
  <2>2. NumbersAreUnique(wire)
    BY <2>1 DEF StreamInv, NumbersAreUnique
  <2>3. \A i \in 1 .. n, j \in 1 .. n : j < i => (Follows(wire, j, i) <=> Follows(Stream, j, i))
    BY <2>1 DEF Follows
  <2>4. \A i \in 1 .. n : \A j \in 1 .. i - 1 : j \in 1 .. n /\ j < i
    BY <2>1
  <2>5. MessagesAreContiguous(wire)
    BY <2>1, <2>3, <2>4 DEF StreamInv, MessagesAreContiguous
  <2>. QED
    BY <2>2, <2>5 DEF WireIsInOrder
<1>. QED
  BY <1>1, StreamsInOrder, PTL

LEMMA StreamFlushes == ConnectionTypeOK /\ StreamInv => DisconnectFlushes
<1>. SUFFICES ASSUME ConnectionTypeOK, StreamInv, NEW i \in DOMAIN wire, wire[i] = Close
              PROVE  i = Len(wire) /\ \A k \in DOMAIN accepted : WrittenTo(wire, accepted[k])
  BY DEF DisconnectFlushes
<1>1. /\ wire \in Seq(Frames) /\ Stream \in Seq(Frames) /\ Len(wire) \in Nat /\ Len(Stream) \in Nat
      /\ DOMAIN wire = 1 .. Len(wire) /\ DOMAIN Stream = 1 .. Len(Stream)
      /\ Len(wire) <= Len(Stream) /\ \A j \in 1 .. Len(wire) : Stream[j] = wire[j]
  BY StreamPlaces DEF ConnectionTypeOK
<1>2. Stream[i] = Close /\ Stream[i].what = "close"
  BY <1>1 DEF Close
<1>3. i = Len(Stream)
  BY <1>1, <1>2 DEF StreamInv, CloseInv
<1>4. Len(wire) = Len(Stream)
  <2>1. i \in 1 .. Len(wire)
    BY <1>1
  <2>2. Len(wire) \in Nat /\ Len(Stream) \in Nat /\ Len(wire) <= Len(Stream)
    BY <1>1
  <2>3. i = Len(Stream)
    BY <1>3
  <2>. QED
    BY <2>1, <2>2, <2>3
<1>5. Stream = wire
  BY <1>1, <1>4, SeqEqual
<1>. QED
  BY <1>3, <1>5 DEF StreamInv, PromiseInv

(* A disconnect cuts nothing off: once the close is written, every message *)
(* whose command returned Ok has been written in full.                     *)
THEOREM DisconnectWritesEverything == Spec => []DisconnectFlushes
BY StreamFlushes, StreamsInOrder, PTL

-----------------------------------------------------------------------------
(***************************************************************************)
(* The contract.  The last envelopes of the messages lie in the stream in  *)
(* the order in which the messages were accepted, and each after the other *)
(* envelopes of its message.                                               *)
(***************************************************************************)
IsLast(f) == f.of \in Outgoing /\ f.part = Parts[f.of]

Ordered(s, acc) ==
    /\ \A i \in DOMAIN s : IsLast(s[i]) => \E k \in DOMAIN acc : acc[k] = s[i].of
    /\ \A i, j \in DOMAIN s, k, l \in DOMAIN acc :
          /\ IsLast(s[i]) /\ s[i].of = acc[k]
          /\ IsLast(s[j]) /\ s[j].of = acc[l]
          /\ i < j
          => k < l
    /\ \A i \in DOMAIN s : s[i].of \in Outgoing => \A n \in 1 .. s[i].part - 1 :
          \E j \in 1 .. i - 1 : s[j].of = s[i].of /\ s[j].part = n

\* A message is accepted once, after its command began and before it is idle.
AcceptedInv ==
    /\ \A k, l \in DOMAIN accepted : accepted[k] = accepted[l] => k = l
    /\ \A k \in DOMAIN accepted : accepted[k] \in started
    /\ cmd.pc # "idle" => cmd.of \in started /\ \A k \in DOMAIN accepted : accepted[k] # cmd.of
    /\ task # "ended" /\ ~connected => cmd = Idle

OrderInv == AcceptedInv /\ Ordered(Stream, accepted)

LEMMA AppendOrdered ==
    ASSUME NEW s \in Seq(Frames), NEW f \in Frames, NEW acc \in Seq(Outgoing), Ordered(s, acc),
           ~IsLast(f),
           f.of \in Outgoing => \A n \in 1 .. f.part - 1 :
               \E j \in 1 .. Len(s) : s[j].of = f.of /\ s[j].part = n
    PROVE  Ordered(Append(s, f), acc)
<1> DEFINE t == Append(s, f)
<1>1. /\ DOMAIN t = 1 .. Len(s) + 1 /\ DOMAIN s = 1 .. Len(s) /\ Len(s) \in Nat
      /\ t[Len(s) + 1] = f /\ \A i \in 1 .. Len(s) : t[i] = s[i]
  BY AppendedFrames
<1>2. \A i \in DOMAIN t : IsLast(t[i]) => i \in DOMAIN s /\ t[i] = s[i]
  BY <1>1
<1>3. ASSUME NEW i \in DOMAIN t, t[i].of \in Outgoing, NEW n \in 1 .. t[i].part - 1
      PROVE  \E j \in 1 .. i - 1 : t[j].of = t[i].of /\ t[j].part = n
  <2>1. CASE i \in 1 .. Len(s)
    <3>1. t[i] = s[i] /\ \A j \in 1 .. i - 1 : t[j] = s[j]
      BY <1>1, <2>1
    <3>2. \E j \in 1 .. i - 1 : s[j].of = s[i].of /\ s[j].part = n
      BY <1>1, <1>3, <2>1, <3>1 DEF Ordered
    <3>. QED
      BY <3>1, <3>2
  <2>2. CASE i = Len(s) + 1
    <3>1. t[i] = f /\ i - 1 = Len(s)
      BY <1>1, <2>2
    <3>2. \E j \in 1 .. Len(s) : s[j].of = f.of /\ s[j].part = n
      BY <1>3, <3>1
    <3>. QED
      BY <1>1, <3>1, <3>2
  <2>. QED
    BY <1>1, <2>1, <2>2
<1>. HIDE DEF t
<1>. QED
  <2>1. Ordered(t, acc)
    BY <1>2, <1>3 DEF Ordered
  <2>. QED
    BY <2>1 DEF t

LEMMA AppendLast ==
    ASSUME NEW s \in Seq(Frames), NEW f \in Frames, NEW acc \in Seq(Outgoing), Ordered(s, acc),
           \A k, l \in DOMAIN acc : acc[k] = acc[l] => k = l,
           IsLast(f), \A k \in DOMAIN acc : acc[k] # f.of,
           \A n \in 1 .. f.part - 1 : \E j \in 1 .. Len(s) : s[j].of = f.of /\ s[j].part = n
    PROVE  Ordered(Append(s, f), Append(acc, f.of))
<1> DEFINE t == Append(s, f)
           more == Append(acc, f.of)
<1>1. /\ DOMAIN t = 1 .. Len(s) + 1 /\ DOMAIN s = 1 .. Len(s) /\ Len(s) \in Nat
      /\ t[Len(s) + 1] = f /\ \A i \in 1 .. Len(s) : t[i] = s[i]
  BY AppendedFrames
<1>2. /\ DOMAIN more = 1 .. Len(acc) + 1 /\ DOMAIN acc = 1 .. Len(acc) /\ Len(acc) \in Nat
      /\ more[Len(acc) + 1] = f.of /\ \A k \in 1 .. Len(acc) : more[k] = acc[k]
  BY DEF IsLast
<1>. HIDE DEF t, more
<1>3. \A i \in DOMAIN t : IsLast(t[i]) => \E k \in DOMAIN more : more[k] = t[i].of
  <2>1. \A i \in 1 .. Len(s) : IsLast(t[i]) => \E k \in DOMAIN acc : acc[k] = t[i].of
    BY <1>1 DEF Ordered
  <2>. QED
    BY <1>1, <1>2, <2>1
<1>4. \A i \in 1 .. Len(s), k \in DOMAIN more :
          IsLast(t[i]) /\ t[i].of = more[k] => k \in DOMAIN acc /\ s[i].of = acc[k] /\ IsLast(s[i])
  <2>. SUFFICES ASSUME NEW i \in 1 .. Len(s), NEW k \in DOMAIN more, IsLast(t[i]), t[i].of = more[k]
                PROVE  k \in DOMAIN acc /\ s[i].of = acc[k] /\ IsLast(s[i])
    OBVIOUS
  <2>1. t[i] = s[i] /\ IsLast(s[i])
    BY <1>1
  <2>2. PICK h \in DOMAIN acc : acc[h] = s[i].of
    BY <1>1, <2>1 DEF Ordered
  <2>3. k # Len(acc) + 1
    BY <1>2, <2>1, <2>2
  <2>. QED
    BY <1>2, <2>1, <2>3
<1>5. ASSUME NEW i \in DOMAIN t, NEW j \in DOMAIN t, NEW k \in DOMAIN more, NEW l \in DOMAIN more,
             IsLast(t[i]), t[i].of = more[k], IsLast(t[j]), t[j].of = more[l], i < j
      PROVE  k < l
  <2>1. i \in 1 .. Len(s)
    BY <1>1, <1>5
  <2>2. k \in DOMAIN acc /\ s[i].of = acc[k] /\ IsLast(s[i])
    BY <1>4, <1>5, <2>1
  <2>3. CASE j \in 1 .. Len(s)
    <3>1. l \in DOMAIN acc /\ s[j].of = acc[l] /\ IsLast(s[j])
      BY <1>4, <1>5, <2>3
    <3>. QED
      BY <1>1, <1>5, <2>1, <2>2, <2>3, <3>1 DEF Ordered
  <2>4. CASE j = Len(s) + 1
    <3>1. more[l] = f.of
      BY <1>1, <1>5, <2>4
    <3>2. l = Len(acc) + 1
      BY <1>2, <3>1
    <3>. QED
      BY <1>2, <2>2, <3>2
  <2>. QED
    BY <1>1, <2>3, <2>4
<1>6. ASSUME NEW i \in DOMAIN t, t[i].of \in Outgoing, NEW n \in 1 .. t[i].part - 1
      PROVE  \E j \in 1 .. i - 1 : t[j].of = t[i].of /\ t[j].part = n
  <2>1. CASE i \in 1 .. Len(s)
    <3>1. t[i] = s[i] /\ \A j \in 1 .. i - 1 : t[j] = s[j]
      BY <1>1, <2>1
    <3>2. \E j \in 1 .. i - 1 : s[j].of = s[i].of /\ s[j].part = n
      BY <1>1, <1>6, <2>1, <3>1 DEF Ordered
    <3>. QED
      BY <3>1, <3>2
  <2>2. CASE i = Len(s) + 1
    <3>1. t[i] = f /\ i - 1 = Len(s)
      BY <1>1, <2>2
    <3>2. \E j \in 1 .. Len(s) : s[j].of = f.of /\ s[j].part = n
      BY <1>6, <3>1
    <3>. QED
      BY <1>1, <3>1, <3>2
  <2>. QED
    BY <1>1, <2>1, <2>2
<1>7. Ordered(t, more)
  BY <1>3, <1>5, <1>6 DEF Ordered
<1>. QED
  BY <1>7 DEF t, more

LEMMA PutInOrdered ==
    ASSUME NEW s \in Seq(Frames), NEW n, NEW ping, NEW t, PutIn(s, n, ping, t),
           NEW acc, Ordered(s, acc), ping.of \notin Outgoing
    PROVE  Ordered(t, acc)
<1>1. /\ Len(s) \in Nat /\ n \in 0 .. Len(s) /\ DOMAIN s = 1 .. Len(s)
      /\ DOMAIN t = 1 .. Len(s) + 1 /\ t[n + 1] = ping
      /\ \A i \in 1 .. Len(s) : t[Moved(n, i)] = s[i]
  BY PutInPlaces DEF PutIn
<1>2. \A k \in DOMAIN t : t[k].of \in Outgoing =>
          \E i \in 1 .. Len(s) : k = Moved(n, i) /\ t[k] = s[i]
  BY <1>1, PutInPlaces
<1>3. \A i, j \in 1 .. Len(s) : i < j <=> Moved(n, i) < Moved(n, j)
  BY <1>1 DEF Moved
<1>4. \A k \in DOMAIN t : IsLast(t[k]) => \E h \in DOMAIN acc : acc[h] = t[k].of
  BY <1>1, <1>2 DEF Ordered, IsLast
<1>5. ASSUME NEW i \in DOMAIN t, NEW j \in DOMAIN t, NEW k \in DOMAIN acc, NEW l \in DOMAIN acc,
             IsLast(t[i]), t[i].of = acc[k], IsLast(t[j]), t[j].of = acc[l], i < j
      PROVE  k < l
  <2>1. PICK a \in 1 .. Len(s) : i = Moved(n, a) /\ t[i] = s[a]
    BY <1>2, <1>5 DEF IsLast
  <2>2. PICK b \in 1 .. Len(s) : j = Moved(n, b) /\ t[j] = s[b]
    BY <1>2, <1>5 DEF IsLast
  <2>3. a < b
    BY <1>3, <1>5, <2>1, <2>2
  <2>. QED
    BY <1>1, <1>5, <2>1, <2>2, <2>3 DEF Ordered
<1>6. ASSUME NEW k \in DOMAIN t, t[k].of \in Outgoing, NEW h \in 1 .. t[k].part - 1
      PROVE  \E j \in 1 .. k - 1 : t[j].of = t[k].of /\ t[j].part = h
  <2>1. PICK i \in 1 .. Len(s) : k = Moved(n, i) /\ t[k] = s[i]
    BY <1>2, <1>6
  <2>2. PICK j \in 1 .. i - 1 : s[j].of = s[i].of /\ s[j].part = h
    BY <1>1, <1>6, <2>1 DEF Ordered
  <2>3. j \in 1 .. Len(s) /\ j < i
    BY <1>1
  <2>4. Moved(n, j) \in 1 .. k - 1
    BY <1>1, <2>1, <2>3 DEF Moved
  <2>. QED
    BY <1>1, <2>1, <2>2, <2>3, <2>4
<1>. QED
  BY <1>4, <1>5, <1>6 DEF Ordered

\* What holds of a stream holds of its first frames.
LEMMA PrefixOrdered ==
    ASSUME NEW s \in Seq(Frames), NEW w \in Seq(Frames), Len(w) <= Len(s),
           \A i \in 1 .. Len(w) : s[i] = w[i], NEW acc, Ordered(s, acc)
    PROVE  Ordered(w, acc)
<1>1. /\ Len(w) \in Nat /\ Len(s) \in Nat /\ DOMAIN w = 1 .. Len(w) /\ DOMAIN s = 1 .. Len(s)
      /\ \A i \in 1 .. Len(w) : i \in DOMAIN s /\ s[i] = w[i]
  OBVIOUS
<1>2. \A i \in DOMAIN w : \A j \in 1 .. i - 1 : s[j] = w[j]
  BY <1>1
<1>3. ASSUME NEW i \in DOMAIN w, w[i].of \in Outgoing, NEW n \in 1 .. w[i].part - 1
      PROVE  \E j \in 1 .. i - 1 : w[j].of = w[i].of /\ w[j].part = n
  <2>1. i \in DOMAIN s /\ s[i] = w[i]
    BY <1>1
  <2>2. \E j \in 1 .. i - 1 : s[j].of = s[i].of /\ s[j].part = n
    BY <1>3, <2>1 DEF Ordered
  <2>. QED
    BY <1>2, <2>1, <2>2
<1>. QED
  BY <1>1, <1>3 DEF Ordered

LEMMA WireOrdered ==
    ASSUME ConnectionTypeOK, NEW acc, Ordered(Stream, acc) PROVE Ordered(wire, acc)
<1>1. wire \in Seq(Frames) /\ Len(wire) <= Len(Stream)
  BY StreamPlaces DEF ConnectionTypeOK
<1>. QED
  BY <1>1, StreamPlaces, PrefixOrdered

\* A message is written when its last envelope is.
LEMMA LastMeansWritten ==
    ASSUME NEW s \in Seq(Frames), NEW acc, Ordered(s, acc), NEW m \in Outgoing
    PROVE  WrittenTo(s, m) <=> \E i \in DOMAIN s : IsLast(s[i]) /\ s[i].of = m
<1>0. Parts[m] \in Nat \ {0} /\ DOMAIN s = 1 .. Len(s) /\ Len(s) \in Nat
  BY PartsAssumption
<1>1. WrittenTo(s, m) => \E i \in DOMAIN s : IsLast(s[i]) /\ s[i].of = m
  BY <1>0 DEF WrittenTo, IsLast
<1>2. ASSUME NEW i \in DOMAIN s, IsLast(s[i]), s[i].of = m PROVE WrittenTo(s, m)
  <2>1. ASSUME NEW n \in 1 .. Parts[m] PROVE \E j \in DOMAIN s : s[j].of = m /\ s[j].part = n
    <3>1. CASE n = Parts[m]
      BY <1>2, <3>1 DEF IsLast
    <3>2. CASE n # Parts[m]
      <4>1. n \in 1 .. s[i].part - 1 /\ s[i].of \in Outgoing
        BY <1>0, <1>2, <3>2 DEF IsLast
      <4>2. PICK j \in 1 .. i - 1 : s[j].of = m /\ s[j].part = n
        BY <1>2, <4>1 DEF Ordered
      <4>3. j \in DOMAIN s
        BY <1>0
      <4>. QED
        BY <4>2, <4>3
    <3>. QED
      BY <3>1, <3>2
  <2>. QED
    BY <2>1 DEF WrittenTo
<1>. QED
  BY <1>1, <1>2

LEMMA OrderStarts == Init => OrderInv
<1>. SUFFICES ASSUME Init PROVE OrderInv
  OBVIOUS
<1>1. DOMAIN Stream = {} /\ DOMAIN accepted = {} /\ cmd.pc = "idle" /\ cmd = Idle
  BY ConcatEmptySeq DEF Init, Stream, Idle
<1>. QED
  BY <1>1 DEF OrderInv, AcceptedInv, Ordered

LEMMA AcceptedStep == ASSUME ConnectionTypeOK, AcceptedInv, [Next]_vars PROVE AcceptedInv'
<1>1. ASSUME NEW m \in Outgoing, StartSend(m) PROVE AcceptedInv'
  <2>1. cmd'.of = m /\ accepted' = accepted /\ started' = started \cup {m} /\ m \notin started /\ connected
        /\ connected' = connected /\ task' = task
    BY <1>1 DEF StartSend, Idle
  <2>. QED
    BY <2>1 DEF AcceptedInv
<1>2. CASE DrawNumber
  <2>1. cmd.pc # "idle" /\ cmd'.of = cmd.of /\ UNCHANGED <<accepted, started, connected, task>>
        /\ cmd # Idle
    BY <1>2 DEF DrawNumber, Idle
  <2>. QED
    BY <2>1 DEF AcceptedInv
<1>3. CASE QueuePart
  <2>1. /\ cmd.pc = "queue" /\ cmd # Idle /\ cmd.of \in Outgoing /\ accepted \in Seq(Outgoing)
        /\ cmd.of \in started /\ \A k \in DOMAIN accepted : accepted[k] # cmd.of
        /\ UNCHANGED <<started, connected, task>>
    BY <1>3 DEF QueuePart, Idle, AcceptedInv, ConnectionTypeOK
  <2>2. CASE cmd.part = Parts[cmd.of]
    <3>1. cmd' = Idle /\ cmd'.pc = "idle" /\ accepted' = Append(accepted, cmd.of)
      BY <1>3, <2>2 DEF QueuePart, Idle
    <3>2. /\ DOMAIN accepted = 1 .. Len(accepted) /\ DOMAIN accepted' = 1 .. Len(accepted) + 1
          /\ Len(accepted) \in Nat /\ accepted'[Len(accepted) + 1] = cmd.of
          /\ \A k \in 1 .. Len(accepted) : accepted'[k] = accepted[k]
      BY <2>1, <3>1
    <3>3. \A k, l \in DOMAIN accepted' : accepted'[k] = accepted'[l] => k = l
      BY <2>1, <3>2 DEF AcceptedInv
    <3>4. \A k \in DOMAIN accepted' : accepted'[k] \in started
      BY <2>1, <3>2 DEF AcceptedInv
    <3>. QED
      BY <2>1, <3>1, <3>3, <3>4 DEF AcceptedInv
  <2>3. CASE cmd.part # Parts[cmd.of]
    <3>1. cmd'.of = cmd.of /\ accepted' = accepted
      BY <1>3, <2>3 DEF QueuePart, ConnectionTypeOK
    <3>. QED
      BY <2>1, <3>1 DEF AcceptedInv
  <2>. QED
    BY <2>2, <2>3
<1>4. CASE QueueClosed
  <2>1. cmd' = Idle /\ cmd'.pc = "idle" /\ UNCHANGED <<accepted, started>>
    BY <1>4 DEF QueueClosed, Idle
  <2>. QED
    BY <2>1 DEF AcceptedInv
<1>5. CASE Disconnect
  BY <1>5 DEF Disconnect, AcceptedInv
<1>6. CASE WriteQueued \/ SendPing \/ ConnectionBreaks
  BY <1>6 DEF WriteQueued, SendPing, ConnectionBreaks, AcceptedInv
<1>7. CASE FinishConnection
  BY <1>7 DEF FinishConnection, AcceptedInv
<1>8. CASE UNCHANGED connectionVars
  BY <1>8 DEF connectionVars, AcceptedInv
<1>. QED
  BY <1>1, <1>2, <1>3, <1>4, <1>5, <1>6, <1>7, <1>8
     DEF Next, Command, Task, ReceiveEnvelope, Clock, vars

LEMMA QueueKeepsOrder ==
    ASSUME ConnectionTypeOK, StreamInv, OrderInv, QueuePart PROVE Ordered(Stream', accepted')
<1> DEFINE f == Part(cmd.of, cmd.seq, cmd.part)
<1>1. /\ wire \in Seq(Frames) /\ queue \in Seq(Frames) /\ accepted \in Seq(Outgoing)
      /\ cmd.pc = "queue" /\ cmd.of \in Outgoing /\ cmd.seq \in Nat /\ cmd.part \in Nat
      /\ task # "ended"
  BY DEF ConnectionTypeOK, QueuePart
<1>2. f \in Frames /\ f.of = cmd.of /\ f.part = cmd.part
  BY <1>1, FrameTypes DEF Part
<1>3. Stream' = Append(Stream, f)
  BY <1>1, <1>2, ConcatWithAppended DEF Stream, QueuePart
<1>. HIDE DEF f
<1>4. \A n \in 1 .. f.part - 1 : \E j \in 1 .. Len(Stream) : Stream[j].of = f.of /\ Stream[j].part = n
  BY <1>1, <1>2, StreamPlaces DEF StreamInv, PromiseInv
<1>5. Stream \in Seq(Frames) /\ Ordered(Stream, accepted)
  BY StreamPlaces DEF OrderInv
<1>6. CASE cmd.part = Parts[cmd.of]
  <2>1. accepted' = Append(accepted, f.of) /\ IsLast(f)
    BY <1>1, <1>2, <1>6 DEF QueuePart, IsLast
  <2>2. \A k \in DOMAIN accepted : accepted[k] # f.of
    BY <1>1, <1>2 DEF OrderInv, AcceptedInv
  <2>3. \A k, l \in DOMAIN accepted : accepted[k] = accepted[l] => k = l
    BY DEF OrderInv, AcceptedInv
  <2>. QED
    BY <1>1, <1>2, <1>3, <1>4, <1>5, <2>1, <2>2, <2>3, AppendLast
<1>7. CASE cmd.part # Parts[cmd.of]
  <2>1. accepted' = accepted /\ ~IsLast(f)
    BY <1>1, <1>2, <1>7 DEF QueuePart, IsLast
  <2>. QED
    BY <1>1, <1>2, <1>3, <1>4, <1>5, <2>1, AppendOrdered
<1>. QED
  BY <1>6, <1>7

LEMMA OrderStep == ASSUME ConnectionTypeOK, StreamInv, OrderInv, [Next]_vars PROVE OrderInv'
<1>. SUFFICES Ordered(Stream', accepted')
  BY AcceptedStep DEF OrderInv
<1>1. wire \in Seq(Frames) /\ queue \in Seq(Frames) /\ accepted \in Seq(Outgoing)
      /\ Stream \in Seq(Frames) /\ Ordered(Stream, accepted)
  BY StreamPlaces DEF OrderInv, ConnectionTypeOK
<1>2. CASE QueuePart
  BY <1>2, QueueKeepsOrder
<1>3. CASE Disconnect
  <2>1. Stream' = Append(Stream, Close) /\ accepted' = accepted
    BY <1>1, <1>3, FrameTypes, ConcatWithAppended DEF Stream, Disconnect
  <2>2. Close \in Frames /\ Close.of \notin Outgoing /\ ~IsLast(Close)
    BY FrameTypes, NoMessageAssumption DEF Close, IsLast
  <2>. QED
    BY <1>1, <2>1, <2>2, AppendOrdered
<1>4. CASE SendPing
  <2>1. Ping(nextSeq) \in Frames /\ Ping(nextSeq).what = "ping" /\ Ping(nextSeq).of \notin Outgoing
    BY FrameTypes, NoMessageAssumption DEF Ping, ConnectionTypeOK
  <2>2. PutIn(Stream, Len(wire), Ping(nextSeq), Stream') /\ accepted' = accepted
    BY <1>1, <1>4, <2>1, ConcatWithPing DEF Stream, SendPing
  <2>. QED
    BY <1>1, <2>1, <2>2, PutInOrdered
<1>5. CASE WriteQueued
  <2>1. Stream' = Stream /\ accepted' = accepted
    BY <1>1, <1>5, ConcatWithTaken DEF Stream, WriteQueued
  <2>. QED
    BY <1>1, <2>1
<1>6. CASE FinishConnection
  <2>1. Stream' = wire /\ accepted' = accepted
    BY <1>1, <1>6, ConcatEmptySeq DEF Stream, FinishConnection
  <2>. QED
    BY <1>1, <2>1, WireOrdered
<1>7. CASE \/ \E m \in Outgoing : StartSend(m)
           \/ DrawNumber \/ QueueClosed \/ ConnectionBreaks
           \/ UNCHANGED connectionVars
  <2>1. Stream' = Stream /\ accepted' = accepted
    BY <1>7 DEF Stream, StartSend, DrawNumber, QueueClosed, ConnectionBreaks, connectionVars
  <2>. QED
    BY <1>1, <2>1
<1>. QED
  BY <1>2, <1>3, <1>4, <1>5, <1>6, <1>7, Zenon
     DEF Next, Command, Task, ReceiveEnvelope, Clock, vars

LEMMA StreamIsOrdered == Spec => [](ConnectionTypeOK /\ StreamInv /\ OrderInv)
BY StreamsInOrder, OrderStarts, OrderStep, PTL DEF Spec

\* Steps of the connection as steps of RelayContract.
LEMMA WireStays ==
    ASSUME UNCHANGED wire
    PROVE  Written' = Written /\ (UNCHANGED <<task, connected>> => State' = State)
BY DEF Written, State, WrittenTo

LEMMA OpenStates == ASSUME ConnectionTypeOK, StreamInv, connected PROVE task # "ended" /\ State = "open"
BY DEF ConnectionTypeOK, StreamInv, EndInv, State

LEMMA OtherFramesWriteNothing ==
    ASSUME ConnectionTypeOK, NEW f \in Frames, f.of \notin Outgoing, wire' = Append(wire, f)
    PROVE  Written' = Written
<1>1. /\ wire \in Seq(Frames) /\ Len(wire) \in Nat
      /\ DOMAIN wire = 1 .. Len(wire) /\ DOMAIN wire' = 1 .. Len(wire) + 1
      /\ wire'[Len(wire) + 1] = f /\ \A i \in 1 .. Len(wire) : wire'[i] = wire[i]
  BY AppendedFrames DEF ConnectionTypeOK
<1>2. \A m \in Outgoing : \A n : (\E i \in DOMAIN wire' : wire'[i].of = m /\ wire'[i].part = n)
                         <=> \E i \in DOMAIN wire : wire[i].of = m /\ wire[i].part = n
  BY <1>1
<1>. QED
  BY <1>2 DEF Written, WrittenTo

\* The last envelope of a message is written after those of the messages
\* accepted before it.
LEMMA LastInTurn ==
    ASSUME ConnectionTypeOK, StreamInv, OrderInv, task = "running", queue # << >>, IsLast(Head(queue))
    PROVE  \E k \in DOMAIN accepted :
              /\ accepted[k] = Head(queue).of /\ accepted[k] \notin Written
              /\ \A j \in 1 .. k - 1 : accepted[j] \in Written
<1> DEFINE n == Len(wire)
<1>1. /\ wire \in Seq(Frames) /\ Stream \in Seq(Frames) /\ accepted \in Seq(Outgoing)
      /\ n \in Nat /\ DOMAIN wire = 1 .. n /\ DOMAIN Stream = 1 .. Len(Stream) /\ Len(Stream) \in Nat
      /\ \A i \in 1 .. n : Stream[i] = wire[i]
      /\ Ordered(Stream, accepted) /\ Ordered(wire, accepted)
  BY StreamPlaces, WireOrdered DEF OrderInv, ConnectionTypeOK
<1>2. n + 1 \in 1 .. Len(Stream) /\ Stream[n + 1] = Head(queue) /\ n <= Len(Stream)
  <2>1. queue \in Seq(Frames) /\ Len(queue) \in Nat /\ Len(queue) > 0 /\ Head(queue) = queue[1]
    BY DEF ConnectionTypeOK
  <2>. QED
    BY <1>1, <2>1, ConcatProperties DEF Stream
<1>3. PICK k \in DOMAIN accepted : accepted[k] = Head(queue).of
  BY <1>1, <1>2 DEF Ordered
<1>4. DOMAIN accepted = 1 .. Len(accepted) /\ Len(accepted) \in Nat
      /\ \A j \in DOMAIN accepted : accepted[j] \in Outgoing
  BY <1>1
<1>5. accepted[k] \notin Written
  <2>. SUFFICES ASSUME accepted[k] \in Written PROVE FALSE
    OBVIOUS
  <2>1. PICK i \in 1 .. n : IsLast(wire[i]) /\ wire[i].of = accepted[k]
    BY <1>1, LastMeansWritten DEF Written
  <2>2. i < n + 1 /\ i \in DOMAIN Stream /\ Stream[i] = wire[i]
    BY <1>1, <1>2
  <2>3. k < k
    BY <1>1, <1>2, <1>3, <2>1, <2>2 DEF Ordered
  <2>. QED
    BY <1>4, <2>3
<1>6. ASSUME NEW j \in 1 .. k - 1 PROVE accepted[j] \in Written
  <2>1. j \in DOMAIN accepted /\ j < k /\ accepted[j] \in Outgoing
    BY <1>4
  <2>2. WrittenTo(Stream, accepted[j])
    BY <2>1 DEF StreamInv, PromiseInv
  <2>3. PICK i \in 1 .. Len(Stream) : IsLast(Stream[i]) /\ Stream[i].of = accepted[j]
    BY <1>1, <2>1, <2>2, LastMeansWritten
  <2>4. i # n + 1
    <3>1. accepted[j] # accepted[k]
      BY <2>1 DEF OrderInv, AcceptedInv
    <3>. QED
      BY <1>2, <1>3, <2>3, <3>1
  <2>5. ~(n + 1 < i)
    <3>. SUFFICES ASSUME n + 1 < i PROVE FALSE
      OBVIOUS
    <3>1. /\ n + 1 \in DOMAIN Stream /\ IsLast(Stream[n + 1]) /\ Stream[n + 1].of = accepted[k]
          /\ i \in DOMAIN Stream /\ IsLast(Stream[i]) /\ Stream[i].of = accepted[j]
      BY <1>1, <1>2, <1>3, <2>3
    <3>2. k < j
      BY <1>1, <1>3, <2>1, <3>1 DEF Ordered
    <3>. QED
      BY <1>4, <2>1, <3>2
  <2>6. i \in 1 .. n
    BY <1>1, <2>4, <2>5
  <2>. QED
    BY <1>1, <2>1, <2>3, <2>6, LastMeansWritten DEF Written
<1>. QED
  BY <1>3, <1>5, <1>6

LEMMA WrittenPrefixes ==
    ASSUME ConnectionTypeOK, ConnectionTypeOK', OrderInv, OrderInv', WriteQueued
    PROVE  Ordered(wire, accepted) /\ Ordered(wire', accepted')
<1>1. Ordered(wire, accepted)
  BY WireOrdered DEF OrderInv
<1>2. Ordered(wire', accepted)
  <2>1. Stream' = Stream /\ accepted' = accepted
    BY ConcatWithTaken DEF Stream, WriteQueued, ConnectionTypeOK
  <2>2. wire' \o queue' = Stream' /\ wire' \in Seq(Frames) /\ queue' \in Seq(Frames)
    BY DEF Stream, ConnectionTypeOK
  <2>3. Stream' \in Seq(Frames) /\ Len(wire') <= Len(Stream')
        /\ \A i \in 1 .. Len(wire') : Stream'[i] = wire'[i]
    <3>1. /\ wire' \o queue' \in Seq(Frames)
          /\ Len(wire' \o queue') = Len(wire') + Len(queue')
          /\ \A i \in 1 .. Len(wire') + Len(queue') : (wire' \o queue')[i] =
                IF i <= Len(wire') THEN wire'[i] ELSE queue'[i - Len(wire')]
      BY <2>2, ConcatProperties
    <3>2. Len(wire') \in Nat /\ Len(queue') \in Nat
      BY <2>2
    <3>3. \A i \in 1 .. Len(wire') : i \in 1 .. Len(wire') + Len(queue') /\ i <= Len(wire')
      BY <3>2
    <3>. QED
      BY <2>2, <3>1, <3>2, <3>3
  <2>4. Ordered(Stream', accepted')
    BY DEF OrderInv
  <2>. QED
    BY <2>1, <2>2, <2>3, <2>4, PrefixOrdered
<1>. QED
  BY <1>1, <1>2 DEF WriteQueued

LEMMA LastIsWritten ==
    ASSUME ConnectionTypeOK, ConnectionTypeOK', OrderInv, OrderInv', WriteQueued,
           IsLast(Head(queue))
    PROVE  Written' = Written \cup {Head(queue).of}
<1>1. /\ wire \in Seq(Frames) /\ wire' \in Seq(Frames) /\ Len(wire) \in Nat
      /\ wire' = Append(wire, Head(queue)) /\ Head(queue) \in Frames
      /\ DOMAIN wire = 1 .. Len(wire) /\ DOMAIN wire' = 1 .. Len(wire) + 1
      /\ wire'[Len(wire) + 1] = Head(queue) /\ \A i \in 1 .. Len(wire) : wire'[i] = wire[i]
  BY AppendedFrames DEF WriteQueued, ConnectionTypeOK
<1>2. Ordered(wire, accepted) /\ Ordered(wire', accepted')
  BY WrittenPrefixes
<1>3. \A m \in Outgoing : WrittenTo(wire', m) <=> \E i \in DOMAIN wire' : IsLast(wire'[i]) /\ wire'[i].of = m
  BY <1>1, <1>2, LastMeansWritten
<1>4. \A m \in Outgoing : WrittenTo(wire, m) <=> \E i \in DOMAIN wire : IsLast(wire[i]) /\ wire[i].of = m
  BY <1>1, <1>2, LastMeansWritten
<1>5. \A m \in Outgoing : WrittenTo(wire', m) <=> WrittenTo(wire, m) \/ m = Head(queue).of
  BY <1>1, <1>3, <1>4
<1>. QED
  BY <1>5 DEF Written, IsLast

\* An envelope that is not the last of its message completes none.
LEMMA OtherEnvelopes ==
    ASSUME ConnectionTypeOK, ConnectionTypeOK', OrderInv, OrderInv', WriteQueued, ~IsLast(Head(queue))
    PROVE  Written' = Written
<1>1. /\ wire \in Seq(Frames) /\ wire' \in Seq(Frames) /\ Len(wire) \in Nat
      /\ DOMAIN wire = 1 .. Len(wire) /\ DOMAIN wire' = 1 .. Len(wire) + 1
      /\ wire'[Len(wire) + 1] = Head(queue) /\ \A i \in 1 .. Len(wire) : wire'[i] = wire[i]
  BY AppendedFrames DEF WriteQueued, ConnectionTypeOK
<1>2. Ordered(wire, accepted) /\ Ordered(wire', accepted')
  BY WrittenPrefixes
<1>3. \A m \in Outgoing : WrittenTo(wire', m) <=> \E i \in DOMAIN wire' : IsLast(wire'[i]) /\ wire'[i].of = m
  BY <1>1, <1>2, LastMeansWritten
<1>4. \A m \in Outgoing : WrittenTo(wire, m) <=> \E i \in DOMAIN wire : IsLast(wire[i]) /\ wire[i].of = m
  BY <1>1, <1>2, LastMeansWritten
<1>5. \A m \in Outgoing : WrittenTo(wire', m) <=> WrittenTo(wire, m)
  BY <1>1, <1>3, <1>4
<1>. QED
  BY <1>5 DEF Written

LEMMA FinishEnds ==
    ASSUME ConnectionTypeOK, StreamInv, FinishConnection
    PROVE  Contract!Close \/ Contract!Break
<1>1. Written' = Written /\ accepted' = accepted /\ wire' = wire
      /\ task = "ending" /\ task' = "ended"
  BY WireStays DEF FinishConnection
<1>2. CASE \E i \in DOMAIN wire : wire[i] = Close
  <2>1. PICK i \in DOMAIN wire : wire[i] = Close
    BY <1>2
  <2>2. i \in DOMAIN Stream /\ Stream[i] = Close /\ Stream[i].what = "close"
    BY <2>1, StreamPlaces DEF Close
  <2>3. ~connected
    BY <2>2 DEF StreamInv, CloseInv
  <2>4. State = "closing" /\ State' = "closed"
    BY <1>1, <1>2, <2>3 DEF State
  <2>5. \A k \in DOMAIN accepted : accepted[k] \in Outgoing /\ WrittenTo(wire, accepted[k])
    BY <2>1, StreamFlushes DEF DisconnectFlushes, ConnectionTypeOK
  <2>6. \A k \in DOMAIN accepted : accepted[k] \in Written
    BY <2>5 DEF Written
  <2>. QED
    BY <1>1, <2>4, <2>6 DEF Contract!Close
<1>3. CASE ~\E i \in DOMAIN wire : wire[i] = Close
  <2>1. State \in {"open", "closing"} /\ State' = "broken"
    BY <1>1, <1>3 DEF State
  <2>. QED
    BY <1>1, <2>1 DEF Contract!Break
<1>. QED
  BY <1>2, <1>3

LEMMA QueueAccepts ==
    ASSUME ConnectionTypeOK, StreamInv, OrderInv, QueuePart
    PROVE  (\E m \in Outgoing : Contract!Accept(m)) \/ UNCHANGED <<accepted, Written, State>>
<1>1. /\ cmd.of \in Outgoing /\ cmd # Idle /\ task # "ended" /\ wire' = wire
      /\ UNCHANGED <<task, connected>>
      /\ \A k \in DOMAIN accepted : accepted[k] # cmd.of
  BY DEF QueuePart, Idle, ConnectionTypeOK, OrderInv, AcceptedInv
<1>2. connected
  BY <1>1 DEF OrderInv, AcceptedInv, ConnectionTypeOK
<1>3. Written' = Written /\ State' = State /\ State = "open"
  BY <1>1, <1>2, WireStays, OpenStates
<1>4. accepted' = accepted \/ accepted' = Append(accepted, cmd.of)
  BY DEF QueuePart
<1>. QED
  BY <1>1, <1>3, <1>4 DEF Contract!Accept

LEMMA WriteWrites ==
    ASSUME ConnectionTypeOK, ConnectionTypeOK', StreamInv, OrderInv, OrderInv', WriteQueued
    PROVE  (\E k \in DOMAIN accepted : Contract!Write(k)) \/ UNCHANGED <<accepted, Written, State>>
<1>1. /\ task = "running" /\ task' # "ended" /\ queue # << >> /\ Head(queue) \in Frames
      /\ UNCHANGED <<accepted, connected>>
  BY DEF WriteQueued, ConnectionTypeOK
<1>2. State' = State /\ State \in {"open", "closing"}
  BY <1>1 DEF State
<1>3. CASE IsLast(Head(queue))
  <2>1. PICK k \in DOMAIN accepted :
           /\ accepted[k] = Head(queue).of /\ accepted[k] \notin Written
           /\ \A j \in 1 .. k - 1 : accepted[j] \in Written
    BY <1>1, <1>3, LastInTurn
  <2>2. Written' = Written \cup {accepted[k]}
    BY <1>3, <2>1, LastIsWritten
  <2>3. Contract!Write(k)
    BY <1>1, <1>2, <2>1, <2>2 DEF Contract!Write
  <2>. QED
    BY <2>3
<1>4. CASE ~IsLast(Head(queue))
  <2>1. Written' = Written
    BY <1>4, OtherEnvelopes
  <2>. QED
    BY <1>1, <1>2, <2>1
<1>. QED
  BY <1>3, <1>4

LEMMA ContractStarts == Init => Contract!Init
<1>. SUFFICES ASSUME Init PROVE Contract!Init
  OBVIOUS
<1>1. \A m \in Outgoing : 1 \in 1 .. Parts[m]
  BY PartsAssumption
<1>2. Written = {}
  BY <1>1 DEF Init, Written, WrittenTo
<1>. QED
  BY <1>2 DEF Init, State, Contract!Init

LEMMA ContractStep ==
    ASSUME ConnectionTypeOK, ConnectionTypeOK', StreamInv, OrderInv, OrderInv', [Next]_vars
    PROVE  [Contract!Next]_(Contract!vars)
<1>1. CASE QueuePart
  BY <1>1, QueueAccepts DEF Contract!Next, Contract!vars
<1>2. CASE Disconnect
  <2>1. connected /\ ~connected' /\ wire' = wire /\ UNCHANGED <<task, accepted>>
    BY <1>2 DEF Disconnect
  <2>2. Written' = Written /\ State = "open" /\ State' = "closing"
    BY <2>1, WireStays, OpenStates DEF State
  <2>. QED
    BY <2>1, <2>2 DEF Contract!Disconnect, Contract!Next, Contract!vars
<1>3. CASE WriteQueued
  BY <1>3, WriteWrites DEF Contract!Next, Contract!vars
<1>4. CASE FinishConnection
  BY <1>4, FinishEnds DEF Contract!Next, Contract!vars
<1>5. CASE SendPing
  <2>1. Ping(nextSeq) \in Frames /\ Ping(nextSeq).of \notin Outgoing
    BY FrameTypes, NoMessageAssumption DEF Ping, ConnectionTypeOK
  <2>2. wire' = Append(wire, Ping(nextSeq)) /\ task = "running" /\ UNCHANGED <<accepted, task, connected>>
    BY <1>5 DEF SendPing
  <2>3. Written' = Written /\ State' = State
    BY <2>1, <2>2, OtherFramesWriteNothing DEF State
  <2>. QED
    BY <2>2, <2>3 DEF Contract!vars
<1>6. CASE \/ \E m \in Outgoing : StartSend(m)
           \/ DrawNumber \/ QueueClosed
           \/ UNCHANGED connectionVars
  <2>1. UNCHANGED <<wire, task, connected, accepted>>
    BY <1>6 DEF StartSend, DrawNumber, QueueClosed, connectionVars
  <2>. QED
    BY <2>1, WireStays DEF Contract!vars
<1>7. CASE ConnectionBreaks
  <2>1. task # "ended" /\ task' # "ended" /\ UNCHANGED <<wire, connected, accepted>>
    BY <1>7 DEF ConnectionBreaks
  <2>. QED
    BY <2>1, WireStays DEF State, Contract!vars
<1>. QED
  BY <1>1, <1>2, <1>3, <1>4, <1>5, <1>6, <1>7, Zenon
     DEF Next, Command, Task, ReceiveEnvelope, Clock, vars

(* Whatever the commands, the task, the relay and the network do, what the *)
(* relay has got is what RelayContract allows: whole messages, each once,  *)
(* in the order in which their sending returned, without one left out, and *)
(* all of them where the close was written.                                *)
THEOREM MessagesAreWrittenInTurn == Spec => Contract!Spec
<1>1. StreamInv /\ ConnectionTypeOK /\ OrderInv /\ (ConnectionTypeOK /\ StreamInv /\ OrderInv)'
      /\ [Next]_vars => [Contract!Next]_(Contract!vars)
  BY ContractStep
<1>. QED
  BY <1>1, StreamIsOrdered, ContractStarts, PTL DEF Spec, Contract!Spec

=============================================================================
