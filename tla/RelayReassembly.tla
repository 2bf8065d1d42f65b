--------------------------- MODULE RelayReassembly ---------------------------
(***************************************************************************)
(* What the desktop does with envelopes from the official relay            *)
(* (unwrap_relay_message in src-tauri/src/lib.rs): large messages come as  *)
(* numbered segments, in any order, perhaps twice or not at all, and are   *)
(* put together in a table that is bounded in entries and in bytes.        *)
(*                                                                         *)
(* A segment stands for one envelope: the number and shape it claims       *)
(* (seq, id, count, size), the bytes it carries (0: none, too many, or not *)
(* base64) and the message they were cut from.                             *)
(***************************************************************************)
EXTENDS Integers, FiniteSetsExt

CONSTANTS Seqs,             \* sequence numbers the other side uses
          Messages,         \* what its segments are cut from
          Segments,         \* envelopes that may arrive
          MaxSegments, MaxMessageBytes, MaxChunkBytes,
          MaxBufferedBytes, MaxAssemblies,
          NoAssembly

Envelopes == [kind : {"whole", "chunk"}, ours : BOOLEAN, seq : Seqs, id : Nat,
              count : Nat, size : Nat, bytes : Nat, of : Messages]

ASSUME SegmentsAssumption == Segments \subseteq Envelopes /\ IsFiniteSet(Segments)
ASSUME LimitsAssumption ==
  /\ MaxSegments \in Nat /\ MaxMessageBytes \in Nat /\ MaxChunkBytes \in Nat
  /\ MaxBufferedBytes \in Nat /\ MaxAssemblies \in Nat \ {0}
ASSUME SeqsAssumption == IsFiniteSet(Seqs)

Assemblies == [count : Nat, size : Nat, held : SUBSET Segments]
ASSUME NoAssemblyAssumption == NoAssembly \notin Assemblies

VARIABLES table,    \* RelayReassembler.messages
          older,    \* pairs of entries, by created_at
          expired,  \* entries older than RELAY_ASSEMBLY_TTL
          emitted   \* history: what the last envelope handed to the page, if anything

reassemblyVars == <<table, older, expired, emitted>>

ReassemblyInit ==
  /\ table = [q \in Seqs |-> NoAssembly]
  /\ older = {} /\ expired = {} /\ emitted = {}

-----------------------------------------------------------------------------
Open == {q \in Seqs : table[q] # NoAssembly}
Held(q) == IF table[q] = NoAssembly THEN {} ELSE table[q].held
Bytes(S) == MapThenSumSet(LAMBDA e : e.bytes, S)

AcceptableHeader(e) ==
  /\ e.count \in 1 .. MaxSegments /\ e.id < e.count
  /\ e.size \in 1 .. MaxMessageBytes
AcceptableChunk(e) == e.bytes \in 1 .. MaxChunkBytes /\ e.bytes <= e.size

Replaced(e) == {d \in Held(e.seq) : d.id = e.id}

\* Does not count the chunk itself.
WithinBudgetMistake(e) == Bytes(UNION {Held(q) : q \in Seqs} \ Replaced(e)) <= MaxBufferedBytes

\* The budget is for all assemblies together.
WithinBudget(e) ==
  Bytes(UNION {Held(q) : q \in Seqs} \ Replaced(e)) + e.bytes <= MaxBufferedBytes

Acceptable(e) == AcceptableHeader(e) /\ AcceptableChunk(e) /\ WithinBudget(e)

Oldest(S) == {q \in S : \A p \in S : <<p, q>> \notin older}

\* The entries that stay when a segment numbered k is stored: a new entry in a
\* full table costs all expired ones or, if there is none, the oldest one.
Survivors(k) ==
  LET fresh == Open \ expired IN
  CASE k \in Open \/ Cardinality(Open) < MaxAssemblies -> Open
    [] k \notin Open /\ Cardinality(Open) >= MaxAssemblies /\ fresh # Open -> fresh
    [] k \notin Open /\ Cardinality(Open) >= MaxAssemblies /\ fresh = Open ->
         Open \ Oldest(Open)

Found(e) == IF e.seq \in Open THEN table[e.seq]
            ELSE [count |-> e.count, size |-> e.size, held |-> {}]

\* Takes a segment that claims another shape than the first one did.
SameShapeMistake(e) == TRUE

SameShape(e) == Found(e).count = e.count /\ Found(e).size = e.size

\* The chunks of e's assembly once e is stored.
Stored(e) == (Found(e).held \ Replaced(e)) \cup {e}
Overflows(e) == Bytes(Stored(e)) > Found(e).size
Completes(e) == {d.id : d \in Stored(e)} = 0 .. Found(e).count - 1

\* Entry e.seq becomes a; what had to make room is gone.
Update(e, a, room) ==
  /\ table' = [q \in Seqs |-> IF q = e.seq THEN a
                              ELSE IF q \in room THEN table[q] ELSE NoAssembly]
  /\ LET open == {q \in Seqs : table'[q] # NoAssembly} IN
     /\ older' = (older \cap (open \X open)) \cup ((open \cap Open) \X (open \ Open))
     /\ expired' = expired \cap open

-----------------------------------------------------------------------------
\* Another client, environment or stream: no effect.
IgnoreForeign(e) == ~e.ours /\ emitted' = {} /\ UNCHANGED <<table, older, expired>>

ReceiveWhole(e) ==
  /\ e.ours /\ e.kind = "whole"
  /\ emitted' = {[seq |-> e.seq, held |-> {e}]}
  /\ UNCHANGED <<table, older, expired>>

IsChunk(e) == e.ours /\ e.kind = "chunk"

\* A segment that cannot be taken ends the assembly it names.
RefuseChunk(e) ==
  /\ IsChunk(e) /\ ~Acceptable(e)
  /\ Update(e, NoAssembly, Open)
  /\ emitted' = {}

SpoilAssembly(e) ==
  /\ IsChunk(e) /\ Acceptable(e)
  /\ ~SameShape(e) \/ Overflows(e)
  /\ Update(e, NoAssembly, Survivors(e.seq))
  /\ emitted' = {}

StoreChunk(e) ==
  /\ IsChunk(e) /\ Acceptable(e) /\ SameShape(e) /\ ~Overflows(e) /\ ~Completes(e)
  /\ Update(e, [Found(e) EXCEPT !.held = Stored(e)], Survivors(e.seq))
  /\ emitted' = {}

RightSize(e) == Bytes(Stored(e)) = Found(e).size

\* Bytes that are not one message's may be JSON all the same, or not.
Emits(e) ==
  \/ RightSize(e) /\ emitted' = {[seq |-> e.seq, held |-> Stored(e)]}
  \/ /\ ~RightSize(e) \/ \E d \in Stored(e) : d.of # e.of
     /\ emitted' = {}

CompleteMessage(e) ==
  /\ IsChunk(e) /\ Acceptable(e) /\ SameShape(e) /\ ~Overflows(e) /\ Completes(e)
  /\ Update(e, NoAssembly, Survivors(e.seq))
  /\ Emits(e)

Receive(e) ==
  \/ IgnoreForeign(e)
  \/ ReceiveWhole(e)
  \/ RefuseChunk(e)
  \/ SpoilAssembly(e)
  \/ StoreChunk(e)
  \/ CompleteMessage(e)

\* An entry outlives RELAY_ASSEMBLY_TTL; those before it already have.
EntryExpires(q) ==
  /\ q \in Open \ expired
  /\ \A p \in Open : <<p, q>> \in older => p \in expired
  /\ expired' = expired \cup {q}
  /\ UNCHANGED <<table, older, emitted>>

-----------------------------------------------------------------------------
ReassemblyTypeOK ==
  /\ table \in [Seqs -> Assemblies \cup {NoAssembly}]
  /\ older \subseteq Open \X Open
  /\ expired \subseteq Open
  /\ emitted \subseteq [seq : Seqs, held : SUBSET Segments]

(* What waits for its missing segments is never more than                  *)
(* RELAY_MAX_ASSEMBLIES messages, whatever arrives.                        *)
EntriesAreBounded == Cardinality(Open) <= MaxAssemblies

\* One of every segment 0 .. count-1, all claiming that number and shape.
IsWhole(m) ==
  /\ \A e \in m.held : /\ e.ours /\ e.seq = m.seq
                       /\ e.count = Cardinality(m.held) /\ e.size = Bytes(m.held)
  /\ {e.id : e \in m.held} = 0 .. Cardinality(m.held) - 1

(* What the page gets is a message that came in one envelope, or one put   *)
(* together from exactly the segments of one number and one shape, each    *)
(* once, of the claimed size - however segments of other messages, of an   *)
(* earlier numbering or with wrong headers come in between (the Relay      *)
(* branch of unwrap_relay_message).                                        *)
EmittedIsWhole ==
  \A m \in emitted : \/ \E e \in Segments : e.kind = "whole" /\ e.ours /\ m.held = {e}
                     \/ IsWhole(m)

=============================================================================
