------------------------------- MODULE MCRelay -------------------------------
(***************************************************************************)
(* A relay connection with a table of two entries and a budget of five   *)
(* bytes.  The other side sends messages in two or three segments, one of  *)
(* them, having started its numbers over, under the number of another.     *)
(***************************************************************************)
EXTENDS RelayConnection, TLC

CONSTANTS a, b, c, d, long, medium, short

Chunk(m, q, id, count, size, bytes) ==
  [kind |-> "chunk", ours |-> TRUE, seq |-> q, id |-> id, count |-> count,
   size |-> size, bytes |-> bytes, of |-> m]

Arriving ==
  { Chunk(a, 1, 0, 2, 2, 1), Chunk(a, 1, 1, 2, 2, 1),
    Chunk(b, 2, 0, 3, 4, 2), Chunk(b, 2, 1, 3, 4, 1), Chunk(b, 2, 2, 3, 4, 1),
    Chunk(c, 1, 0, 2, 3, 1), Chunk(c, 1, 1, 2, 3, 2),
    Chunk(d, 3, 0, 2, 2, 1), Chunk(d, 3, 1, 2, 2, 1),
    \* Less than it claims, more than it claims, no bytes, another shape, another
    \* client, and a message in one envelope.
    Chunk(d, 3, 0, 1, 2, 1), Chunk(d, 2, 1, 3, 4, 2), Chunk(d, 3, 0, 2, 2, 0),
    Chunk(d, 3, 2, 2, 2, 1),
    [Chunk(a, 1, 1, 2, 2, 1) EXCEPT !.ours = FALSE],
    [Chunk(d, 3, 0, 0, 0, 0) EXCEPT !.kind = "whole"] }

\* The directions share nothing but the end of the task, so one is quiet when
\* the other is busy.  Only steps of the outside world are left out.
OneDirection ==
  \/ started' = {} /\ pings' = 0 /\ connected'
  \/ Open' = {} /\ emitted' = {}
  \/ task' # "running"

OutgoingParts == (long :> 3) @@ (medium :> 2) @@ (short :> 1)
=============================================================================
