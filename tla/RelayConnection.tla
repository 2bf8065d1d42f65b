--------------------------- MODULE RelayConnection ---------------------------
(***************************************************************************)
(* An established connection over the official relay (src-tauri/src/lib.rs *)
(* spawn_relay_connection, send_app_server_message, disconnect_app_server):*)
(* the commands number and queue envelopes, a task of its own writes them, *)
(* pings, and reads what the relay delivers.                               *)
(*                                                                         *)
(* The commands that touch a connection are synchronous Tauri commands:    *)
(* they run on the main thread, one after the other, next to the task.     *)
(***************************************************************************)
EXTENDS RelayReassembly, Sequences

CONSTANTS Outgoing,    \* messages the page sends
          Parts,       \* message -> envelopes it takes (relay_client_envelopes)
          MaxPings,    \* bound on the pings
          NoMessage

ASSUME PartsAssumption == Parts \in [Outgoing -> Nat \ {0}]
ASSUME PingsAssumption == MaxPings \in Nat
ASSUME NoMessageAssumption == NoMessage \notin Outgoing

VARIABLES connected,  \* the entry in AppState.connections
          nextSeq,    \* next_seq_id, shared by commands and task
          cmd,        \* the send command the main thread is in
          started,  \* messages of its commands so far; each is sent once
          accepted,   \* messages whose command returned Ok, in order
          queue,      \* the channel from the commands to the task
          wire,       \* history: what was written to the relay
          task,       \* "running", "ending" (out of the loop), "ended"
          pings       \* history: pings written

connectionVars == <<connected, nextSeq, cmd, started, accepted, queue, wire, task, pings>>
vars == <<reassemblyVars, connectionVars>>

Part(m, seq, n) == [what |-> "part", of |-> m, seq |-> seq, part |-> n]
Ping(seq) == [what |-> "ping", of |-> NoMessage, seq |-> seq, part |-> 0]
Close == [what |-> "close", of |-> NoMessage, seq |-> 0, part |-> 0]
Frames == [what : {"part", "ping", "close"}, of : Outgoing \cup {NoMessage},
           seq : Nat, part : Nat]

Idle == [pc |-> "idle", of |-> NoMessage, seq |-> 0, part |-> 0]

Init ==
  /\ ReassemblyInit
  /\ connected = TRUE /\ nextSeq = 1 /\ cmd = Idle /\ started = {}
  /\ accepted = << >> /\ queue = << >> /\ wire = << >> /\ task = "running" /\ pings = 0

-----------------------------------------------------------------------------
\* send_app_server_message: clones the sender under the lock.  Without a
\* connection it fails and changes nothing.
StartSend(m) ==
  /\ cmd = Idle /\ connected
  /\ m \notin started
  /\ cmd' = [Idle EXCEPT !.pc = "number", !.of = m]
  /\ started' = started \cup {m}
  /\ UNCHANGED <<reassemblyVars, connected, nextSeq, accepted, queue, wire, task, pings>>

DrawNumber ==
  /\ cmd.pc = "number"
  /\ nextSeq' = nextSeq + 1
  /\ cmd' = [pc |-> "queue", of |-> cmd.of, seq |-> nextSeq, part |-> 1]
  /\ UNCHANGED <<reassemblyVars, connected, accepted, started, queue, wire, task, pings>>

QueuePart ==
  /\ cmd.pc = "queue" /\ task # "ended"
  /\ queue' = Append(queue, Part(cmd.of, cmd.seq, cmd.part))
  /\ IF cmd.part = Parts[cmd.of]
     THEN cmd' = Idle /\ accepted' = Append(accepted, cmd.of)
     ELSE cmd' = [cmd EXCEPT !.part = @ + 1] /\ UNCHANGED accepted
  /\ UNCHANGED <<reassemblyVars, connected, nextSeq, started, wire, task, pings>>

\* The receiver is gone: the command fails, maybe after some of its envelopes.
QueueClosed ==
  /\ cmd.pc = "queue" /\ task = "ended"
  /\ cmd' = Idle
  /\ UNCHANGED <<reassemblyVars, connected, nextSeq, accepted, started, queue, wire, task, pings>>

\* Ends the connection ahead of what is queued.
DisconnectMistake ==
  /\ cmd = Idle /\ connected
  /\ connected' = FALSE
  /\ queue' = <<Close>> \o queue
  /\ UNCHANGED <<reassemblyVars, nextSeq, cmd, accepted, started, wire, task, pings>>

\* disconnect_app_server: the close goes through the channel as well.
Disconnect ==
  /\ cmd = Idle /\ connected
  /\ connected' = FALSE
  /\ queue' = Append(queue, Close)
  /\ UNCHANGED <<reassemblyVars, nextSeq, cmd, accepted, started, wire, task, pings>>

-----------------------------------------------------------------------------
\* The task's select!.

\* Stops serving the queue once the connection is out of the map.
WriteQueuedMistake ==
  /\ task = "running" /\ queue # << >> /\ connected
  /\ queue' = Tail(queue)
  /\ wire' = Append(wire, Head(queue))
  /\ UNCHANGED <<reassemblyVars, connected, nextSeq, cmd, accepted, started, pings, task>>

WriteQueued ==
  /\ task = "running" /\ queue # << >>
  /\ queue' = Tail(queue)
  /\ wire' = Append(wire, Head(queue))
  /\ task' = IF Head(queue) = Close THEN "ending" ELSE "running"
  /\ UNCHANGED <<reassemblyVars, connected, nextSeq, cmd, accepted, started, pings>>

\* Numbers the ping without taking the number.
SendPingMistake ==
  /\ task = "running" /\ pings < MaxPings
  /\ wire' = Append(wire, Ping(nextSeq)) /\ pings' = pings + 1
  /\ UNCHANGED <<reassemblyVars, connected, nextSeq, cmd, accepted, started, queue, task>>

\* The ping is written at once, ahead of what is queued with lower numbers.
SendPing ==
  /\ task = "running" /\ pings < MaxPings
  /\ nextSeq' = nextSeq + 1
  /\ wire' = Append(wire, Ping(nextSeq)) /\ pings' = pings + 1
  /\ UNCHANGED <<reassemblyVars, connected, cmd, accepted, started, queue, task>>

ReceiveEnvelope(e) ==
  /\ task = "running"
  /\ Receive(e)
  /\ UNCHANGED connectionVars

Clock(q) == task = "running" /\ EntryExpires(q) /\ UNCHANGED connectionVars

\* A write fails, or the relay closes, breaks off or sends something unreadable.
ConnectionBreaks ==
  /\ task = "running"
  /\ task' = "ending"
  /\ UNCHANGED <<reassemblyVars, connected, nextSeq, cmd, accepted, started, queue, wire, pings>>

\* finish_connection, and the drop of the receiver and the reassembler.
FinishConnection ==
  /\ task = "ending"
  /\ task' = "ended" /\ connected' = FALSE /\ queue' = << >>
  /\ table' = [q \in Seqs |-> NoAssembly] /\ older' = {} /\ expired' = {}
  /\ UNCHANGED <<emitted, nextSeq, cmd, accepted, started, wire, pings>>

-----------------------------------------------------------------------------
Command ==
  \/ \E m \in Outgoing : StartSend(m)
  \/ DrawNumber
  \/ QueuePart
  \/ QueueClosed
  \/ Disconnect

Task ==
  \/ WriteQueued
  \/ SendPing
  \/ \E e \in Segments : ReceiveEnvelope(e)
  \/ \E q \in Seqs : Clock(q)
  \/ ConnectionBreaks
  \/ FinishConnection

Next == Command \/ Task

Spec == Init /\ [][Next]_vars

(* The main thread runs its command to the end; the task is scheduled, and *)
(* select! picks among its ready branches at random, so a queue that is    *)
(* not empty is served in the end.  WriteQueued and ConnectionBreaks stand *)
(* for a write that succeeds or fails.                                     *)
Fairness ==
  /\ WF_vars(DrawNumber \/ QueuePart \/ QueueClosed)
  /\ WF_vars(WriteQueued)
  /\ WF_vars(FinishConnection)

FairSpec == Spec /\ Fairness

-----------------------------------------------------------------------------
ConnectionTypeOK ==
  /\ connected \in BOOLEAN
  /\ nextSeq \in Nat \ {0}
  /\ cmd \in [pc : {"idle", "number", "queue"}, of : Outgoing \cup {NoMessage},
             seq : Nat, part : Nat]
  /\ cmd.pc # "idle" => cmd.of \in Outgoing
  /\ started \subseteq Outgoing
  /\ accepted \in Seq(Outgoing)
  /\ queue \in Seq(Frames) /\ wire \in Seq(Frames)
  /\ task \in {"running", "ending", "ended"}
  /\ pings \in Nat

TypeOK == ReassemblyTypeOK /\ ConnectionTypeOK

\* Frame j of s is the one before place i, pings aside.
Follows(s, j, i) == s[j].what # "ping" /\ \A k \in j + 1 .. i - 1 : s[k].what = "ping"

NumbersAreUnique(s) ==
  \A i, j \in DOMAIN s :
     s[i].seq = s[j].seq => /\ s[i].what = s[j].what
                            /\ s[i].of = s[j].of
                            /\ s[i].part = s[j].part => i = j

MessagesAreContiguous(s) ==
  \A i \in DOMAIN s : s[i].what = "part" =>
     \/ /\ s[i].part = 1
        /\ \A j \in 1 .. i - 1 : Follows(s, j, i) =>
              s[j].part = Parts[s[j].of] /\ s[j].seq < s[i].seq
     \/ \E j \in 1 .. i - 1 :
           Follows(s, j, i) /\ s[i] = Part(s[j].of, s[j].seq, s[j].part + 1)

(* The relay can tell the messages apart: a number on the wire belongs to  *)
(* one message or one ping, although the commands and the task draw        *)
(* numbers concurrently, and, pings aside, a message comes as all its      *)
(* envelopes in order under one number, the next one with a higher number  *)
(* - though a ping may come between with a number drawn later.             *)
WireIsInOrder == NumbersAreUnique(wire) /\ MessagesAreContiguous(wire)

\* Every envelope of m is among the frames of s.
WrittenTo(s, m) == \A n \in 1 .. Parts[m] : \E i \in DOMAIN s : s[i].of = m /\ s[i].part = n

(* A disconnect cuts nothing off: when the close is on the wire, so is     *)
(* every message whose command had returned Ok, and nothing follows it.    *)
DisconnectFlushes ==
  \A i \in DOMAIN wire : wire[i] = Close =>
     i = Len(wire) /\ \A k \in DOMAIN accepted : WrittenTo(wire, accepted[k])

Written == {m \in Outgoing : WrittenTo(wire, m)}

State == IF task # "ended"
         THEN IF connected THEN "open" ELSE "closing"
         ELSE IF \E i \in DOMAIN wire : wire[i] = Close THEN "closed" ELSE "broken"

\* What a caller sees of it: RelayContract.
Contract == INSTANCE RelayContract WITH Messages <- Outgoing, written <- Written, state <- State

(* The connection implements RelayContract: messages reach the relay in    *)
(* the order in which their commands returned, none left out; a disconnect *)
(* leaves none behind, and ends the task however much is queued before it. *)
MessagesKeepContract == Contract!FairSpec
=============================================================================
