--------------------------- MODULE RemoteTransport ---------------------------
(***************************************************************************)
(* The USB transport of remote_transport.c around the session.             *)
(*                                                                         *)
(* Two threads of control share the fields of struct RemoteTransport: the  *)
(* main loop, which calls remote_transport_service once per pass, and the  *)
(* USB interrupt, which runs the callbacks between any two statements of   *)
(* it.  A pass is one action per access to a shared field; a callback,     *)
(* which nothing interrupts, is one action, together with the event of the *)
(* cable or of the host that raised it.  Between passes the application    *)
(* ticks the session and reports presses and the lock to it.               *)
(***************************************************************************)
EXTENDS RemoteSession

(***************************************************************************)
(* What the environment may do beyond the ordinary.  A run allows what its *)
(* properties are meant to survive.                                        *)
(*   "close"    the line falls with the cable in: the host closes the port,*)
(*              or enumerates the device afresh                            *)
(*   "race"     the line moves between the two halves of a re-read of it   *)
(*   "coalesce" the line or the cable moves twice within one pass          *)
(*   "silent"   a cable pull whose suspend is never delivered              *)
(***************************************************************************)
CONSTANTS
  Allowed,
  RxUnits        \* bound: what the endpoint holds of the host's writing

Liberty == {"close", "race", "coalesce", "silent"}

ASSUME TransportAssumption == Allowed \subseteq Liberty /\ RxUnits \in Nat

VARIABLES
  opened,          \* remote_transport_open succeeded
  port_open,       \* whether the session believes the port is open
  usb_present, dtr_present, revalidate_dtr,  \* the volatile facts
  tx_complete,     \* the semaphore that guards the send buffer, at most 1
  send_buffer,     \* the units last moved out of the session
  pc, dtr,         \* the main loop: where it is, and its local copy of the line
  cable, line,     \* the hardware: cable in, DTR as the host holds it
  in_flight,       \* the hardware is reading the send buffer
  rx,              \* units the host wrote and the main loop has not read
  stale,           \* history: how many of rx were left from an earlier opening
  greeted,         \* history: this opening of the port was signalled
  abandoned,       \* history: a close gave back the slot of a packet in flight
  unreported       \* history: the cable is out and no suspend told of it

facts    == <<usb_present, dtr_present, revalidate_dtr>>
place    == <<pc, dtr>>
hardware == <<cable, line, in_flight, rx, stale>>
history  == <<greeted, abandoned, unreported>>
linkVars == <<vars, opened, port_open, facts, tx_complete, send_buffer, place,
              hardware, history>>

Seeding == {"seed_usb", "seed_read", "seed_store"}
Place   == {"idle", "read_line", "store_line", "edge", "receive", "acquire",
            "fill", "send", "exited"} \cup Seeding

(* remote_transport_alloc, and the session as initialised before it.       *)
LinkInit ==
  /\ Init
  /\ opened = FALSE /\ port_open = FALSE
  /\ usb_present = FALSE /\ dtr_present = FALSE /\ revalidate_dtr = FALSE
  /\ tx_complete = 1 /\ send_buffer = <<>>
  /\ pc = "idle" /\ dtr = FALSE
  /\ cable \in BOOLEAN /\ line = FALSE /\ in_flight = FALSE /\ rx = <<>> /\ stale = 0
  /\ greeted = FALSE /\ abandoned = FALSE /\ unreported = FALSE

(* Channel 1 exists, and the callbacks are set, from set_config on.        *)
Channel == opened \/ pc \in Seeding

-----------------------------------------------------------------------------
(* The USB interrupt: each event of the outside with the callback it runs. *)

(* Mutants: a suspend that leaves DTR, a resume that trusts it, no suspend.*)
StateCallbackKeepingDtr(connected) ==
  /\ usb_present' = connected
  /\ revalidate_dtr' = connected
  /\ UNCHANGED dtr_present

StateCallbackTrusting(connected) ==
  /\ usb_present' = connected
  /\ dtr_present' = (connected /\ dtr_present)
  /\ revalidate_dtr' = FALSE

StateCallbackDeaf(connected) ==
  /\ usb_present' = (connected \/ usb_present)
  /\ revalidate_dtr' = (connected \/ revalidate_dtr)
  /\ UNCHANGED dtr_present

(* transport_state_callback                                                *)
StateCallback(connected) ==
  /\ usb_present' = connected
  /\ IF connected
     THEN revalidate_dtr' = TRUE /\ UNCHANGED dtr_present
     ELSE dtr_present' = FALSE /\ revalidate_dtr' = FALSE

(* transport_ctrl_line_callback                                            *)
CtrlLineCallback(lines) ==
  dtr_present' = lines /\ UNCHANGED <<usb_present, revalidate_dtr>>

(* transport_tx_complete_callback                                          *)
TxCompleteCallback == tx_complete' = 1

(***************************************************************************)
(* Unless allowed, the line rests until the main loop has seen it, and     *)
(* while the main loop is between reading and storing it.                  *)
(***************************************************************************)
LineMayMove ==
  /\ port_open = line \/ "coalesce" \in Allowed
  /\ pc \in {"store_line", "seed_store"} => "race" \in Allowed

(***************************************************************************)
(* A pull takes the line and a packet in flight with it, and the packet's  *)
(* completion never comes; what was received may stay in the endpoint.     *)
(***************************************************************************)
Pull ==
  /\ cable /\ (line => LineMayMove)
  /\ cable' = FALSE /\ line' = FALSE /\ in_flight' = FALSE
  /\ \/ UNCHANGED <<rx, stale>>
     \/ rx' = <<>> /\ stale' = 0
  /\ \/ Channel /\ StateCallback(FALSE) /\ UNCHANGED unreported
     \/ (Channel => "silent" \in Allowed) /\ UNCHANGED facts /\ unreported' = Channel
  /\ UNCHANGED <<tx_complete, greeted, abandoned>>

(* A cable put in enumerates the device afresh, with DTR low.              *)
Insert ==
  /\ ~cable
  /\ port_open => pc = "idle" \/ "coalesce" \in Allowed
  /\ cable' = TRUE /\ unreported' = FALSE
  /\ IF Channel THEN StateCallback(TRUE) ELSE UNCHANGED facts
  /\ UNCHANGED <<tx_complete, line, in_flight, rx, stale, greeted, abandoned>>

(* So does the host on its own, and there is no suspend before the resume. *)
Reenumerate ==
  /\ Channel /\ cable
  /\ line => LineMayMove /\ "close" \in Allowed
  /\ line' = FALSE /\ in_flight' = FALSE
  /\ StateCallback(TRUE)
  /\ UNCHANGED <<tx_complete, cable, rx, stale, history>>

HostOpens ==
  /\ Channel /\ cable /\ ~line /\ LineMayMove
  /\ line' = TRUE
  /\ CtrlLineCallback(TRUE)
  /\ stale' = Len(rx) /\ greeted' = FALSE
  /\ UNCHANGED <<tx_complete, cable, in_flight, rx, abandoned, unreported>>

HostCloses ==
  /\ line /\ LineMayMove /\ "close" \in Allowed
  /\ line' = FALSE
  /\ CtrlLineCallback(FALSE)
  /\ UNCHANGED <<tx_complete, cable, in_flight, rx, stale, history>>

HostWrites ==
  /\ line
  /\ \E m \in Inbound :
       /\ Len(rx) + MessageUnits[m.verb] <= RxUnits
       /\ rx' = rx \o Units(m)
  /\ UNCHANGED <<facts, tx_complete, cable, line, in_flight, stale, history>>

(* The host takes a packet; while the port is closed it takes none.        *)
HostReads ==
  /\ in_flight /\ line
  /\ in_flight' = FALSE
  /\ TxCompleteCallback
  /\ abandoned' = (abandoned /\ tx_complete = 0)
  /\ UNCHANGED <<facts, cable, line, rx, stale, greeted, unreported>>

Interrupt ==
  /\ Pull \/ Insert \/ Reenumerate \/ HostOpens \/ HostCloses \/ HostWrites \/ HostReads
  /\ UNCHANGED <<vars, opened, port_open, send_buffer, place>>

-----------------------------------------------------------------------------
(* remote_transport_open.  An attempt the USB lock refuses changes nothing.*)
OpenTransport ==
  /\ pc = "idle" /\ ~opened
  /\ pc' = "seed_usb"
  /\ UNCHANGED <<opened, facts, dtr>>

SeedUsb ==
  /\ pc = "seed_usb"
  /\ usb_present' = TRUE
  /\ pc' = "seed_read"
  /\ UNCHANGED <<opened, dtr_present, revalidate_dtr, dtr>>

SeedRead ==
  /\ pc = "seed_read"
  /\ dtr' = line
  /\ pc' = "seed_store"
  /\ UNCHANGED <<opened, facts>>

(* Mutant: a port that was already open is not noticed.                    *)
SeedStoreClosed ==
  /\ pc = "seed_store"
  /\ dtr_present' = FALSE
  /\ opened' = TRUE
  /\ pc' = "idle"
  /\ UNCHANGED <<usb_present, revalidate_dtr, dtr>>

SeedStore ==
  /\ pc = "seed_store"
  /\ dtr_present' = dtr
  /\ opened' = TRUE
  /\ pc' = "idle"
  /\ UNCHANGED <<usb_present, revalidate_dtr, dtr>>

Opening ==
  /\ OpenTransport \/ SeedUsb \/ SeedRead \/ SeedStore
  /\ UNCHANGED <<vars, port_open, tx_complete, send_buffer, hardware, history>>

(* remote_transport_close, on leaving the main loop.                       *)
CloseTransport ==
  /\ pc = "idle" /\ pc' = "exited"
  /\ opened' = FALSE /\ port_open' = FALSE
  /\ IF port_open THEN PortClosed ELSE UNCHANGED vars
  /\ line' = FALSE /\ in_flight' = FALSE /\ rx' = <<>> /\ stale' = 0
  /\ UNCHANGED <<facts, tx_complete, send_buffer, dtr, cable, history>>

-----------------------------------------------------------------------------
(* remote_transport_service, statement by statement.                       *)

BeginPass ==
  /\ pc = "idle" /\ opened
  /\ revalidate_dtr' = FALSE
  /\ pc' = IF revalidate_dtr THEN "read_line" ELSE "edge"
  /\ UNCHANGED <<vars, port_open, usb_present, dtr_present, tx_complete, send_buffer,
                 dtr, hardware, history>>

ReadLine ==
  /\ pc = "read_line"
  /\ dtr' = line
  /\ pc' = "store_line"
  /\ UNCHANGED <<vars, port_open, facts, tx_complete, send_buffer, hardware, history>>

StoreLine ==
  /\ pc = "store_line"
  /\ dtr_present' = dtr
  /\ pc' = "edge"
  /\ UNCHANGED <<vars, port_open, usb_present, revalidate_dtr, tx_complete,
                 send_buffer, dtr, hardware, history>>

(***************************************************************************)
(* The port is usable with the cable in and DTR up.  The session hears of  *)
(* an edge; a falling one also makes the send slot available again.        *)
(***************************************************************************)
OpenNow == usb_present /\ dtr_present

(* Mutant: a slot that is not given back.                                  *)
EdgeKeepingSlot ==
  /\ pc = "edge" /\ pc' = "receive"
  /\ port_open' = OpenNow
  /\ \/ OpenNow = port_open /\ UNCHANGED <<vars, greeted>>
     \/ OpenNow /\ ~port_open /\ PortOpened /\ greeted' = TRUE
     \/ ~OpenNow /\ port_open /\ PortClosed /\ UNCHANGED greeted
  /\ UNCHANGED <<tx_complete, facts, send_buffer, dtr, hardware, abandoned, unreported>>

Edge ==
  /\ pc = "edge" /\ pc' = "receive"
  /\ port_open' = OpenNow
  /\ \/ /\ OpenNow = port_open
        /\ UNCHANGED <<vars, tx_complete, greeted, abandoned>>
     \/ /\ OpenNow /\ ~port_open
        /\ PortOpened
        /\ greeted' = TRUE
        /\ UNCHANGED <<tx_complete, abandoned>>
     \/ /\ ~OpenNow /\ port_open
        /\ PortClosed
        /\ tx_complete' = 1
        /\ abandoned' = in_flight
        /\ UNCHANGED greeted
  /\ UNCHANGED <<facts, send_buffer, dtr, hardware, unreported>>

(* Mutants: bytes delivered to a closed session, or kept for the next.     *)
ReceiveLoopUnasked ==
  /\ pc = "receive"
  /\ \/ rx = <<>> /\ pc' = "acquire" /\ UNCHANGED <<vars, rx, stale>>
     \/ /\ rx # <<>>
        /\ Receive(Head(rx))
        /\ rx' = Tail(rx)
        /\ stale' = IF stale > 0 THEN stale - 1 ELSE 0
        /\ UNCHANGED pc
  /\ UNCHANGED <<port_open, facts, tx_complete, send_buffer, dtr, cable, line,
                 in_flight, history>>

ReceiveLoopKeeping ==
  /\ pc = "receive"
  /\ \/ /\ rx = <<>> \/ ~port_open
        /\ pc' = "acquire"
        /\ UNCHANGED <<vars, rx, stale>>
     \/ /\ rx # <<>> /\ port_open
        /\ Receive(Head(rx))
        /\ rx' = Tail(rx)
        /\ stale' = IF stale > 0 THEN stale - 1 ELSE 0
        /\ UNCHANGED pc
  /\ UNCHANGED <<port_open, facts, tx_complete, send_buffer, dtr, cable, line,
                 in_flight, history>>

(* The receive loop, a unit at a time, until the channel is drained.       *)
ReceiveLoop ==
  /\ pc = "receive"
  /\ \/ /\ rx = <<>>
        /\ pc' = "acquire"
        /\ UNCHANGED <<vars, rx, stale>>
     \/ /\ rx # <<>>
        /\ IF port_open THEN Receive(Head(rx)) ELSE UNCHANGED vars
        /\ rx' = Tail(rx)
        /\ stale' = IF stale > 0 THEN stale - 1 ELSE 0
        /\ UNCHANGED pc
  /\ UNCHANGED <<port_open, facts, tx_complete, send_buffer, dtr, cable, line,
                 in_flight, history>>

(* Mutant: the next packet does not wait for the slot.                     *)
AcquireUnchecked ==
  /\ pc = "acquire"
  /\ IF port_open
     THEN tx_complete' = 0 /\ pc' = "fill"
     ELSE pc' = "idle" /\ UNCHANGED tx_complete
  /\ UNCHANGED <<vars, port_open, facts, send_buffer, dtr, hardware, history>>

(* The head of the send loop: take the slot, or stop for this pass.        *)
Acquire ==
  /\ pc = "acquire"
  /\ IF port_open /\ tx_complete = 1
     THEN tx_complete' = 0 /\ pc' = "fill"
     ELSE pc' = "idle" /\ UNCHANGED tx_complete
  /\ UNCHANGED <<vars, port_open, facts, send_buffer, dtr, hardware, history>>

(* Move a packet out of the session, or give the slot back.                *)
Fill ==
  /\ pc = "fill"
  /\ Drain
  /\ IF output = <<>>
     THEN tx_complete' = 1 /\ pc' = "idle" /\ UNCHANGED send_buffer
     ELSE /\ send_buffer' = SubSeq(output, 1, Taken(PacketUnits))
          /\ pc' = "send"
          /\ UNCHANGED tx_complete
  /\ UNCHANGED <<port_open, facts, dtr, hardware, history>>

(* furi_hal_cdc_send; with the cable out no one ever takes the packet.     *)
Send ==
  /\ pc = "send" /\ pc' = "acquire"
  /\ in_flight' = cable
  /\ UNCHANGED <<vars, port_open, facts, tx_complete, send_buffer, dtr, cable, line,
                 rx, stale, history>>

Service ==
  /\ BeginPass \/ ReadLine \/ StoreLine \/ Edge \/ ReceiveLoop \/ Acquire \/ Fill \/ Send
  /\ UNCHANGED opened

(* What the main loop does with the session between passes.                *)
Between ==
  /\ pc = "idle"
  /\ AppTick \/ AppReport \/ AppLock
  /\ UNCHANGED <<opened, port_open, facts, tx_complete, send_buffer, place,
                 hardware, history>>

LinkNext == Interrupt \/ Opening \/ CloseTransport \/ Service \/ Between

LinkSpec == LinkInit /\ [][LinkNext]_linkVars

(***************************************************************************)
(* The main loop makes passes until it exits.  Its receive loop has no     *)
(* bound of its own: it ends because the host writes more slowly than the  *)
(* loop reads, so that a channel found empty time and again is at last     *)
(* left.  Nothing else is assumed of the host, the cable or the operator.  *)
(***************************************************************************)
ChannelEmpty == Service /\ pc = "receive" /\ rx = <<>>

FairLinkSpec == LinkSpec /\ WF_linkVars(Service) /\ SF_linkVars(ChannelEmpty)

-----------------------------------------------------------------------------
LinkTypeOK ==
  /\ TypeOK
  /\ opened \in BOOLEAN /\ port_open \in BOOLEAN
  /\ usb_present \in BOOLEAN /\ dtr_present \in BOOLEAN /\ revalidate_dtr \in BOOLEAN
  /\ tx_complete \in 0 .. 1
  /\ send_buffer \in Seq(Unit)
  /\ pc \in Place /\ dtr \in BOOLEAN
  /\ cable \in BOOLEAN /\ line \in BOOLEAN /\ in_flight \in BOOLEAN
  /\ rx \in Seq(Unit) /\ stale \in 0 .. Len(rx)
  /\ greeted \in BOOLEAN /\ abandoned \in BOOLEAN /\ unreported \in BOOLEAN

(***************************************************************************)
(* The send slot and the callback keep the send buffer from being rewritten*)
(* while the USB hardware reads it (remote_transport.c:58-60, 256), over   *)
(* pulls, refused packets, re-enumerations and the host's closes; with one *)
(* exception, a packet still in flight when the close of its port gave the *)
(* slot back, until that packet is taken with the slot free, or a close    *)
(* finds none in flight.                                                   *)
(***************************************************************************)
SendBufferIsLeftAlone ==
  [][in_flight /\ in_flight' /\ ~abandoned => UNCHANGED send_buffer]_linkVars

(***************************************************************************)
(* The same without the exception, as remote_transport.c:58-59 says it: the*)
(* send buffer is never reused while the hardware is still reading it.     *)
(***************************************************************************)
SendBufferIsNeverReused ==
  [][in_flight /\ in_flight' => UNCHANGED send_buffer]_linkVars

(***************************************************************************)
(* remote_transport.c:229-233: the send slot is never taken forever.  When *)
(* it is taken and no packet of it is in flight, the port is down and the  *)
(* main loop has yet to see that, which gives the slot back.               *)
(***************************************************************************)
SlotIsNotLost ==
  tx_complete = 0 /\ pc \notin {"fill", "send", "exited"} =>
    in_flight \/ (port_open /\ ~line)

(***************************************************************************)
(* remote_session.h:7-9: when the host opens the port, HELLO is sent.  A   *)
(* pass that finds the port open has signalled this very opening.          *)
(***************************************************************************)
EveryOpeningIsGreeted ==
  [][pc = "edge" /\ pc' = "receive" /\ port_open' /\ line => greeted']_linkVars

(***************************************************************************)
(* remote_transport.c:42-48: HELLO is sent only in answer to a real open.  *)
(***************************************************************************)
HelloAnswersARealOpen ==
  [][link_state = "LinkDown" /\ link_state' = "Handshaking" => line]_linkVars

(***************************************************************************)
(* remote_transport.c:213-215: the ctrl line callback still catches a      *)
(* later open.  Between passes the cached DTR is the line, unless it is    *)
(* about to be read again.                                                 *)
(***************************************************************************)
OpenIsCaught ==
  pc = "idle" /\ opened /\ line /\ ~revalidate_dtr => dtr_present

(***************************************************************************)
(* remote_transport.c:248-249: what an earlier opening left in the channel *)
(* is drained and never reaches the session of the next.                   *)
(***************************************************************************)
StaleBytesAreDropped == [][stale > 0 /\ stale' < stale => UNCHANGED inbound]_linkVars

(***************************************************************************)
(* The session is driven as RemoteSession assumes: whatever the interrupt  *)
(* does, every pass amounts to calls in an order its specification allows, *)
(* and received bytes reach it only while its link is up.                  *)
(***************************************************************************)
SessionIsDrivenProperly == Spec

(* The link state follows the port: what is down for one is for the other. *)
OneViewOfThePort == port_open <=> link_state # "LinkDown"

(* An open that lasts is noticed.                                          *)
OpenIsNoticed == <>[](opened /\ line) => <>[]port_open

(***************************************************************************)
(* A close that lasts is noticed, and then nothing is left to show or send;*)
(* even when the line fell in a re-enumeration that had no suspend.        *)
(***************************************************************************)
CloseIsNoticed ==
  <>[](opened /\ cable /\ ~line) =>
    <>[](~port_open /\ output = <<>> /\ current_display = BlankRecord)

(* The port follows what the host does to it, if it lasts.                 *)
PortFollowsTheHost == OpenIsNoticed /\ CloseIsNoticed

(***************************************************************************)
(* So is a pull whose suspend is delivered, with a packet in flight or not,*)
(* whatever pulls were not reported before it (remote_transport.c:80-86).  *)
(***************************************************************************)
PullIsNoticed ==
  <>[](opened /\ ~cable /\ ~unreported) =>
    <>[](~port_open /\ output = <<>> /\ current_display = BlankRecord)
=============================================================================
