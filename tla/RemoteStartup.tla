---------------------------- MODULE RemoteStartup ----------------------------
(***************************************************************************)
(* How the two ends meet: the device opens its link once the USB mode      *)
(* lets it, its channel appears at some node of the host when the cable is *)
(* in, and the peer finds it there, again and again.                       *)
(***************************************************************************)
EXTENDS RemoteOpening, PeerShell

VARIABLE plugged  \* the cable is in

startupVars == <<openingVars, shellVars, plugged>>

StartupInit == OpeningInit /\ ShellInit /\ plugged \in BOOLEAN

(* Until the link is open there is no channel to find and the peer probes  *)
(* in vain, so its steps begin then, from any candidate it may have come   *)
(* to; the device's clock is followed up to there.                         *)
Device == ~link_opened /\ OpeningNext /\ UNCHANGED <<shellVars, plugged>>

Answer(parts) == HelloArrives(parts) /\ UNCHANGED <<openingVars, plugged>>

Peer == link_opened /\ ShellStep /\ UNCHANGED <<openingVars, plugged>>

Enumerate == link_opened /\ plugged /\ Attach /\ UNCHANGED <<openingVars, plugged>>

AnotherLeaves == AnotherGoes /\ UNCHANGED <<openingVars, plugged>>

PlugIn == ~plugged /\ plugged' = TRUE /\ UNCHANGED <<openingVars, shellVars>>

PullOut ==
  /\ plugged /\ plugged' = FALSE
  /\ IF app_node = NoNode THEN UNCHANGED shellVars ELSE Detach
  /\ UNCHANGED openingVars

StartupNext ==
  \/ Device \/ Peer
  \/ Answer(1) \/ Answer(2) \/ Enumerate
  \/ PlugIn \/ PullOut \/ AnotherLeaves

StartupSpec == StartupInit /\ [][StartupNext]_startupVars

(***************************************************************************)
(* The loop and the peer go on, time does, the host enumerates what is     *)
(* plugged in; and a HELLO does not come in two reads for ever: it is one  *)
(* packet of the channel (49 bytes of 64), so it hardly ever does.         *)
(***************************************************************************)
FairStartupSpec ==
  /\ StartupSpec
  /\ WF_startupVars(Device /\ LoopStep) /\ WF_startupVars(Device /\ TimePasses)
  /\ WF_startupVars(Peer) /\ WF_startupVars(Enumerate)
  /\ WF_startupVars(Answer(1)) /\ SF_startupVars(Answer(2))

-----------------------------------------------------------------------------
StartupTypeOK == OpeningTypeOK /\ ShellTypeOK /\ plugged \in BOOLEAN

(***************************************************************************)
(* The peer survives a cable pull without being restarted                  *)
(* (development_peer_shell.c:233-234): when the cable stays in and the     *)
(* link can open, it ends up pumping the application's channel, whatever   *)
(* the nodes were before and however often the cable was pulled.  A peer   *)
(* that was given a node does so too, unless it ended because it could not *)
(* open it, or pumps another channel that stays there.                     *)
(***************************************************************************)
Misled == shell = "EXITED" \/ (by_name /\ channel = "ANOTHER")

PeerFindsTheDevice ==
  <>[](plugged /\ (link_opened \/ (~usb_locked /\ ~MayBeJumped)) /\ ~Misled)
    => <>[](shell = "PUMPING" /\ channel = "APPLICATION")
=============================================================================
