------------------------------ MODULE PeerShell ------------------------------
(***************************************************************************)
(* How the development peer finds the device (development_peer_shell.c):   *)
(* it opens the serial node it was given, or one after another, waits for  *)
(* a HELLO and keeps the node that sends one; and it searches, again or    *)
(* for the first time, when the node it has hangs up.                      *)
(*                                                                         *)
(* A HELLO is two parts, cut within the "HELLO version=" that is looked    *)
(* for; they may arrive together or not, and a read takes what has.  A cut *)
(* further on makes no difference: the start is recognised, and the rest   *)
(* is pumped.                                                              *)
(***************************************************************************)
EXTENDS Integers

CONSTANTS
  Nodes,       \* MAX_SERIAL_NODE
  ProbeReads   \* the reads of a probe

ASSUME ShellAssumption == {Nodes, ProbeReads} \subseteq Nat \ {0}

VARIABLES
  app_node,     \* the node of the application's channel, or NoNode
  shell,        \* what the peer is doing
  candidate,    \* the node to be probed next, or Preferred
  device_path,  \* the node it was given or last found, or NoNode
  by_name,      \* it was given a node, and has not searched yet
  descriptor,   \* the node it has open, or NoNode
  channel,      \* what that node leads to
  attempts,     \* the reads of this probe
  arrived,      \* the parts of the HELLO that came since the node was opened
  taken,        \* those of them that a read has taken
  fed           \* those of them that the peer's core was fed

shellVars == <<app_node, shell, candidate, device_path, by_name, descriptor, channel,
               attempts, arrived, taken, fed>>

NoNode    == -1
Preferred == -2
NodeNumbers == 0 .. Nodes - 1

(* main: "auto" searches, here already in the middle of it; anything else  *)
(* names a node.                                                           *)
ShellInit ==
  /\ app_node = NoNode
  /\ \/ /\ shell = "SEARCHING" /\ candidate \in NodeNumbers \cup {Preferred}
        /\ device_path = NoNode /\ by_name = FALSE
     \/ /\ shell = "NAMED" /\ candidate = Preferred
        /\ device_path \in NodeNumbers /\ by_name = TRUE
  /\ descriptor = NoNode /\ channel = "NONE"
  /\ attempts = 0 /\ arrived = 0 /\ taken = 0 /\ fed = 0

-----------------------------------------------------------------------------
(* A node is opened: nothing of its connection has come yet.               *)
OpenNode(node) ==
  /\ descriptor' = node
  /\ channel' = IF node = app_node THEN "APPLICATION" ELSE "ANOTHER"
  /\ attempts' = 0 /\ arrived' = 0 /\ taken' = 0 /\ fed' = 0

CloseNode ==
  /\ descriptor' = NoNode /\ channel' = "NONE"
  /\ attempts' = 0 /\ arrived' = 0 /\ taken' = 0 /\ fed' = 0

(***************************************************************************)
(* The node that was named is pumped, whatever channel it leads to: nobody *)
(* looks for a HELLO.  Is there none, or can it not be opened, main ends.  *)
(***************************************************************************)
OpenByName ==
  /\ shell = "NAMED"
  /\ shell' = "PUMPING" /\ OpenNode(device_path)
  /\ UNCHANGED <<app_node, candidate, device_path, by_name>>

ExitUnopened ==
  /\ shell = "NAMED" /\ device_path # app_node
  /\ shell' = "EXITED"
  /\ UNCHANGED <<app_node, candidate, device_path, by_name, descriptor, channel, attempts,
                 arrived, taken, fed>>

-----------------------------------------------------------------------------
(* find_application_channel: the preferred path, then every node, a pause, *)
(* and again.                                                              *)
AfterCandidate(current) ==
  IF current = Preferred THEN 0
  ELSE IF current < Nodes - 1 THEN current + 1 ELSE Preferred

PathOf(current) == IF current = Preferred THEN device_path ELSE current

(* What the candidate's path leads to: the application's channel, another  *)
(* channel (a command line, which says nothing like a HELLO), or nothing.  *)
OpenCandidate ==
  /\ shell = "SEARCHING" /\ PathOf(candidate) # NoNode
  /\ shell' = "PROBING" /\ OpenNode(PathOf(candidate))
  /\ UNCHANGED <<app_node, candidate, device_path, by_name>>

CannotOpen ==
  /\ shell = "SEARCHING"
  /\ PathOf(candidate) # app_node \/ app_node = NoNode
  /\ candidate' = AfterCandidate(candidate)
  /\ UNCHANGED <<app_node, shell, device_path, by_name, descriptor, channel, attempts,
                 arrived, taken, fed>>

(* The application answers the opening of its channel with one HELLO, and  *)
(* well within the probe: a pass of its loop is shorter than a read's wait.*)
HelloArrives(parts) ==
  /\ channel = "APPLICATION" /\ arrived + parts \in 1 .. 2
  /\ arrived' = arrived + parts
  /\ UNCHANGED <<app_node, shell, candidate, device_path, by_name, descriptor, channel,
                 attempts, taken, fed>>

(* Mutant: a HELLO is recognised from all that was read, though only the   *)
(* last of it is fed.                                                      *)
LooksLikeHelloSoFar == taken < arrived /\ arrived = 2

(* looks_like_hello, on what this read returned and no more.               *)
LooksLikeHello == taken = 0 /\ arrived = 2

(* What a read returns, all of it or nothing, is fed to the peer's core.   *)
ReadAndFeed == taken' = arrived /\ fed' = fed + (arrived - taken)

(* probe_node: the HELLO that identifies the channel is fed to the peer.   *)
ProbeFinds ==
  /\ shell = "PROBING" /\ LooksLikeHello
  /\ shell' = "PUMPING" /\ device_path' = descriptor
  /\ ReadAndFeed
  /\ UNCHANGED <<app_node, candidate, by_name, descriptor, channel, attempts, arrived>>

ProbeReadsOn ==
  /\ shell = "PROBING" /\ ~LooksLikeHello /\ attempts + 1 < ProbeReads
  /\ attempts' = attempts + 1 /\ taken' = arrived
  /\ UNCHANGED <<app_node, shell, candidate, device_path, by_name, descriptor, channel,
                 arrived, fed>>

ProbeGivesUp ==
  /\ shell = "PROBING" /\ ~LooksLikeHello /\ attempts + 1 = ProbeReads
  /\ channel = "APPLICATION" => arrived = 2
  /\ shell' = "SEARCHING" /\ candidate' = AfterCandidate(candidate)
  /\ CloseNode
  /\ UNCHANGED <<app_node, device_path, by_name>>

-----------------------------------------------------------------------------
(* Mutant: the hangup is looked for in what a read returns, which is 0 on  *)
(* a quiet line as on a dead one.                                          *)
HangsUpByRead == FALSE

(* pump's poll, which tells a dead node from a quiet one; reopen_device    *)
(* then drops the link and searches, from the path it last found.          *)
HangsUp == channel = "GONE"

Reopen ==
  /\ shell = "PUMPING" /\ HangsUp
  /\ shell' = "SEARCHING" /\ candidate' = Preferred
  /\ by_name' = FALSE
  /\ CloseNode
  /\ UNCHANGED <<app_node, device_path>>

Pump ==
  /\ shell = "PUMPING" /\ ~HangsUp /\ taken < arrived
  /\ ReadAndFeed
  /\ UNCHANGED <<app_node, shell, candidate, device_path, by_name, descriptor, channel,
                 attempts, arrived>>

ShellStep ==
  \/ OpenByName \/ ExitUnopened
  \/ OpenCandidate \/ CannotOpen
  \/ ProbeFinds \/ ProbeReadsOn \/ ProbeGivesUp \/ Reopen \/ Pump

(* The kernel gives an attached channel a number no open node has.         *)
Attach ==
  /\ app_node = NoNode
  /\ app_node' \in NodeNumbers \ {descriptor}
  /\ UNCHANGED <<shell, candidate, device_path, by_name, descriptor, channel, attempts,
                 arrived, taken, fed>>

Detach ==
  /\ app_node # NoNode
  /\ app_node' = NoNode
  /\ channel' = IF channel = "APPLICATION" THEN "GONE" ELSE channel
  /\ UNCHANGED <<shell, candidate, device_path, by_name, descriptor, attempts, arrived,
                 taken, fed>>

(* A channel that is not the application's may go away too.                *)
AnotherGoes ==
  /\ channel = "ANOTHER" /\ channel' = "GONE"
  /\ UNCHANGED <<app_node, shell, candidate, device_path, by_name, descriptor, attempts,
                 arrived, taken, fed>>

-----------------------------------------------------------------------------
ShellTypeOK ==
  /\ {app_node, device_path, descriptor} \subseteq NodeNumbers \cup {NoNode}
  /\ shell \in {"NAMED", "SEARCHING", "PROBING", "PUMPING", "EXITED"}
  /\ candidate \in NodeNumbers \cup {Preferred}
  /\ by_name \in BOOLEAN
  /\ channel \in {"NONE", "APPLICATION", "ANOTHER", "GONE"}
  /\ attempts \in 0 .. ProbeReads - 1
  /\ arrived \in 0 .. 2 /\ taken \in 0 .. arrived /\ fed \in 0 .. taken

(***************************************************************************)
(* Whatever was read of the connection that is pumped, the peer's core was *)
(* fed, so that the HELLO the probe read is the one the handshake sees     *)
(* (development_peer_shell.c:204-209).  And unless its node was named, in  *)
(* which case it may be any, what is pumped is the application's channel,  *)
(* or was and is gone, never the command line's, and its HELLO was heard.  *)
(***************************************************************************)
PumpsTheApplication ==
  shell = "PUMPING" =>
    /\ fed = taken
    /\ ~by_name => /\ fed = 2
                   /\ channel \in {"APPLICATION", "GONE"}
                   /\ channel = "APPLICATION" => descriptor = app_node
=============================================================================
