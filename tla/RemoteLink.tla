------------------------------ MODULE RemoteLink ------------------------------
(***************************************************************************)
(* The session and the development peer over the USB channel: what the     *)
(* handshake, the retry, the refusals and the forgetting of either end     *)
(* come to when bytes are under way in both directions and the host opens  *)
(* and closes the port.                                                    *)
(*                                                                         *)
(* The device's side is RemoteSession, driven the way RemoteTransport is   *)
(* proved to drive it, one packet in flight at a time; the host's side is  *)
(* DevelopmentPeer driven by the loop of peer/development_peer_shell.c.    *)
(* Between them is the hardware: an endpoint that holds one packet, and    *)
(* the host's buffers.  The device is assumed to see every close before    *)
(* the next open; RemoteTransport says when it may not.  The lock is left  *)
(* open: neither end's view of the link depends on it.                     *)
(***************************************************************************)
EXTENDS RemoteSession, DevelopmentPeer

CONSTANTS
  PacketSurvivesClose,  \* whether a packet not yet fetched outlives the close of the port
  NextPress,            \* what is pressed after a reconnection, to tell it apart
  HostUnits,            \* bound: what the host's buffers hold in each direction
  OperatorRoom          \* bound: the peer's output when it reads or is commanded

ASSUME LinkAssumption ==
  /\ PacketSurvivesClose \in BOOLEAN
  /\ HostUnits \in Nat /\ OperatorRoom \in Nat
  /\ NextPress \in [Press -> Press]

VARIABLES
  port,        \* "probing" or "serving" while the shell has the node open;
               \* "closed", or "pulled" with the cable, while it has not
  endpoint,    \* the packet the device has handed to its USB hardware
  slot_taken,  \* transmit_ready, held from a packet's sending to its completion
  incoming,    \* device to host: fetched, and not read yet
  channel,     \* host to device: written, and not received yet
  epoch        \* history: what is pressed during this connection

linkVars == <<vars, peerVars, port, endpoint, slot_taken, incoming, channel, epoch>>

device == <<vars, epoch>>
wire   == <<port, endpoint, slot_taken, incoming, channel>>

LinkInit ==
  /\ Init /\ PeerInit
  /\ port = "closed"
  /\ endpoint = <<>>
  /\ slot_taken = FALSE
  /\ incoming = <<>>
  /\ channel = <<>>
  /\ epoch \in Press

-----------------------------------------------------------------------------
(* The device: the passes of remote_transport_service and of main.         *)

Open == port \in {"probing", "serving"}

(* The port is seen to have opened.                                        *)
DeviceOpens ==
  /\ Open /\ link_state = "LinkDown"
  /\ PortOpened
  /\ epoch' = NextPress[epoch]
  /\ UNCHANGED <<peerVars, wire>>

(* Mutant: a port that closes does not get its transmit slot back.         *)
DeviceClosesKeepingSlot ==
  /\ ~Open /\ link_state # "LinkDown"
  /\ PortClosed
  /\ UNCHANGED <<peerVars, wire, epoch>>

(* The port is seen to have closed; the transmit slot is given back.       *)
DeviceCloses ==
  /\ ~Open /\ link_state # "LinkDown"
  /\ PortClosed
  /\ slot_taken' = FALSE
  /\ UNCHANGED <<peerVars, port, endpoint, incoming, channel, epoch>>

DeviceReceives ==
  /\ channel # <<>>
  /\ IF link_state = "LinkDown"
     THEN channel' = <<>> /\ UNCHANGED vars
     ELSE channel' = Tail(channel) /\ Receive(Head(channel))
  /\ UNCHANGED <<peerVars, port, endpoint, slot_taken, incoming, epoch>>

(* A packet written over one not fetched yet replaces it, or is lost.      *)
DeviceSends ==
  /\ link_state # "LinkDown" /\ ~slot_taken /\ output # <<>>
  /\ TakeOutput(PacketUnits)
  /\ slot_taken' = TRUE
  /\ endpoint' \in {SubSeq(output, 1, Taken(PacketUnits))}
                     \union (IF endpoint = <<>> THEN {} ELSE {endpoint})
  /\ UNCHANGED <<peerVars, port, incoming, channel, epoch>>

DeviceTicks   == TimePasses /\ UNCHANGED <<peerVars, wire, epoch>>
DevicePresses == ReportEvent(epoch, TRUE) /\ UNCHANGED <<peerVars, wire, epoch>>

-----------------------------------------------------------------------------
(* The host's hardware fetches the packet, which completes the transmit.   *)
HostFetches ==
  /\ Open /\ endpoint # <<>>
  /\ Len(incoming) + Len(endpoint) <= HostUnits
  /\ incoming' = incoming \o endpoint
  /\ endpoint' = <<>>
  /\ slot_taken' = FALSE
  /\ UNCHANGED <<device, peerVars, port, channel>>

(***************************************************************************)
(* The node is opened, by name or by find_application_channel.  A packet   *)
(* left in the endpoint is there still, unless the cable was pulled: the   *)
(* bus reset that comes with the cable empties the endpoint.               *)
(***************************************************************************)
ShellOpens ==
  /\ ~Open /\ link_state = "LinkDown"
  /\ port' \in {"probing", "serving"}
  /\ endpoint' = IF PacketSurvivesClose /\ port = "closed" THEN endpoint ELSE <<>>
  /\ UNCHANGED <<device, peerVars, slot_taken, incoming, channel>>

(***************************************************************************)
(* probe_node: what was read so far is fed to the peer if a HELLO begins   *)
(* in it, and else discarded.                                              *)
(***************************************************************************)
LooksLikeHello(units) ==
  \E i \in DOMAIN units : units[i].of.verb = "HELLO" /\ units[i].at = 1

ProbeReads ==
  /\ port = "probing" /\ incoming # <<>>
  /\ IF LooksLikeHello(incoming)
     THEN port' = "serving" /\ UNCHANGED incoming
     ELSE incoming' = <<>> /\ UNCHANGED port
  /\ UNCHANGED <<device, peerVars, endpoint, slot_taken, channel>>

(* The node is closed; what the host has not read is gone.                 *)
NodeCloses ==
  /\ port' = "closed"
  /\ incoming' = <<>>
  /\ UNCHANGED <<endpoint, slot_taken>>

(* probe_node gives the node up after ten reads.                           *)
ProbeFails ==
  /\ port = "probing"
  /\ NodeCloses
  /\ UNCHANGED <<device, peerVars, channel>>

(* The peer is quit and started again.                                     *)
ShellRestarts ==
  /\ port = "serving"
  /\ NodeCloses
  /\ peer_inbound' = EmptyAssembler
  /\ peer_display' = BlankScreen
  /\ handshake_complete' = FALSE
  /\ peer_locked' = FALSE
  /\ peer_output' = <<>>
  /\ output_overflowed' = FALSE
  /\ UNCHANGED <<device, behaviour, channel>>

(* The cable is pulled: pump sees the hangup, and reopen_device lets go.   *)
CablePulled ==
  /\ port = "serving"
  /\ port' = "pulled"
  /\ incoming' = <<>> /\ channel' = <<>>
  /\ LinkDropped
  /\ UNCHANGED <<device, endpoint, slot_taken>>

(***************************************************************************)
(* pump, which writes the peer's output before it reads, a unit at a time; *)
(* a write waits for room.  Then main reads the operator's command.        *)
(***************************************************************************)
PeerWrites ==
  /\ port = "serving" /\ peer_output # <<>>
  /\ Len(channel) + Len(peer_output) <= HostUnits
  /\ channel' = channel \o peer_output
  /\ TakeAllOutput
  /\ UNCHANGED <<device, port, endpoint, slot_taken, incoming>>

PeerReads ==
  /\ port = "serving" /\ incoming # <<>> /\ Len(peer_output) <= OperatorRoom
  /\ Feed(Head(incoming))
  /\ incoming' = Tail(incoming)
  /\ UNCHANGED <<device, port, endpoint, slot_taken, channel>>

PeerIsTold ==
  /\ port = "serving" /\ Len(peer_output) <= OperatorRoom
  /\ \E screen \in Screen : SetDisplay(screen, "NONE")
  /\ UNCHANGED <<device, wire>>

DeviceStep ==
  \/ DeviceOpens
  \/ DeviceCloses
  \/ DeviceReceives
  \/ DeviceSends
  \/ DeviceTicks

HostStep ==
  \/ HostFetches
  \/ PeerWrites
  \/ PeerReads

LinkNext ==
  \/ DeviceStep
  \/ HostStep
  \/ DevicePresses
  \/ ShellOpens
  \/ ProbeReads
  \/ ProbeFails
  \/ ShellRestarts
  \/ CablePulled
  \/ PeerIsTold

LinkSpec == LinkInit /\ [][LinkNext]_linkVars

(***************************************************************************)
(* The main loop of the device and the loop of the shell do every step     *)
(* that stays possible, and USB hardware delivers.  The shell reads in     *)
(* every pass of its loop, before it takes a command, so commands do not   *)
(* keep it from reading.  Nobody has to press, to open or to close.        *)
(***************************************************************************)
FairLinkSpec ==
  /\ LinkSpec
  /\ WF_linkVars(DeviceOpens)
  /\ WF_linkVars(DeviceCloses)
  /\ WF_linkVars(DeviceReceives)
  /\ WF_linkVars(DeviceSends)
  /\ WF_linkVars(DeviceTicks)
  /\ WF_linkVars(HostFetches)
  /\ WF_linkVars(PeerWrites)
  /\ SF_linkVars(PeerReads)

-----------------------------------------------------------------------------
(***************************************************************************)
(* remote_session_port_closed discards what it can, but a press may be in  *)
(* the endpoint when the port closes, and be read after it is opened       *)
(* again.  It is never acted on: the appliance changes what it shows only  *)
(* for a press of the connection it was made on.                           *)
(***************************************************************************)
PressesActOnTheirOwnConnection ==
  [][Open' /\ incoming # <<>> /\ incoming' = Tail(incoming)
       /\ Head(incoming).of.verb = "BUTTON" /\ peer_display' # peer_display
       => Head(incoming).of.press = epoch]_linkVars

(***************************************************************************)
(* A link that the device takes for accepted while the appliance waits for *)
(* a HELLO has one on its way: neither waits for the other.                *)
(***************************************************************************)
HelloUnderWay ==
  \E i \in DOMAIN (output \o endpoint \o incoming) :
    (output \o endpoint \o incoming)[i].of.verb = "HELLO"

TrustIsMutual ==
  port = "serving" /\ link_state = "Connected" /\ ~handshake_complete => HelloUnderWay

(***************************************************************************)
(* "A lost handshake recovers on its own": once the port stays open and    *)
(* the appliance keeps its record, the link is up at both ends and the     *)
(* device shows that record.  Nothing answers a HELLO while the record     *)
(* retained cannot be encoded, so those are left out.                      *)
(***************************************************************************)
LinkRecovers ==
  \A screen \in {shown \in Screen : Sendable(shown, "NONE")} :
    <>[](port = "serving" /\ peer_display = screen)
      => <>[](link_state = "Connected" /\ handshake_complete
              /\ current_display.screen = screen)
=============================================================================
