--------------------------- MODULE AbstractSession ---------------------------
(***************************************************************************)
(* What the session promises, without buffers, lines or clocks: a link     *)
(* phase, the one record shown, the lock, and the messages on their way to *)
(* the appliance, oldest first, which it reads whole and in order.         *)
(* session/remote_session.h:1-24 states these rules in words.              *)
(***************************************************************************)
EXTENDS RemoteWire

CONSTANT QueueDepth

VARIABLES phase, shown, locked, pending

mirror == <<phase, shown, locked, pending>>

Init ==
  /\ phase = "LinkDown"
  /\ shown = BlankRecord
  /\ locked = FALSE
  /\ pending = <<>>

(* A fresh handshake: nothing of the previous connection survives it.      *)
Open ==
  /\ phase' = "Handshaking"
  /\ shown' = BlankRecord
  /\ pending' = <<Hello(locked)>>
  /\ UNCHANGED locked

(* A drop: nothing is shown and nothing is kept for later.                 *)
Drop ==
  /\ phase' = "LinkDown"
  /\ shown' = BlankRecord
  /\ pending' = <<>>
  /\ UNCHANGED locked

(* An unanswered HELLO is said again, and never more than one is waiting.  *)
Retry ==
  /\ phase = "Handshaking"
  /\ pending' = <<Hello(locked)>>
  /\ UNCHANGED <<phase, shown, locked>>

(* A record of the appliance replaces the last one wholly.                 *)
Show ==
  /\ phase # "LinkDown"
  /\ \E record \in DisplayMessage :
       /\ phase = "Connected" \/ record.error # "BAD_VERSION"
       /\ shown' = record
  /\ phase' = "Connected"
  /\ UNCHANGED <<locked, pending>>

Refuse ==
  /\ phase \in {"Handshaking", "Incompatible"}
  /\ phase' = "Incompatible"
  /\ UNCHANGED <<shown, locked, pending>>

Room == phase = "Connected" /\ Len(pending) < QueueDepth

(* A press leaves only over a link that is up, from an unlocked screen.    *)
SendPress ==
  /\ Room /\ ~locked
  /\ \E press \in Press : pending' = Append(pending, Button(press))
  /\ UNCHANGED <<phase, shown, locked>>

SetLock ==
  /\ locked' \in BOOLEAN
  /\ pending' = IF Room THEN Append(pending, State(locked')) ELSE pending
  /\ UNCHANGED <<phase, shown>>

(* The appliance reads some of what is on its way, oldest first.           *)
Read ==
  /\ \E n \in 1 .. Len(pending) : pending' = SubSeq(pending, n + 1, Len(pending))
  /\ UNCHANGED <<phase, shown, locked>>

Next ==
  Open \/ Drop \/ Retry \/ Show \/ Refuse \/ SendPress \/ SetLock \/ Read

Spec == Init /\ [][Next]_mirror
=============================================================================
