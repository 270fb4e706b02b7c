--------------------------- MODULE DevelopmentPeer ---------------------------
(***************************************************************************)
(* The development peer of peer/development_peer_core.c, which stands for  *)
(* the appliance: it answers every line it reads, shows the record its     *)
(* operator asks for, and misbehaves on request.  One action per public    *)
(* function; the variables are the fields of struct DevelopmentPeerCore    *)
(* less its log and its counts, which only record.                         *)
(***************************************************************************)
EXTENDS RemoteWire

CONSTANTS
  PeerCapacity,   \* DEVELOPMENT_PEER_OUTPUT_CAPACITY, in units
  EventOf,        \* the event each press reports
  Guarded,        \* the presses that say foregrounded and unlocked
  Ready, Active,  \* the screens with status READY; PRESENTING or GUEST_CONNECTED
  Started,        \* what the demo script shows first: PRESENTING, Wi-Fi, none delivered
  Turned,         \* a screen with its page, and the payload with it, replaced
  EncodableRecords,  \* the screens and errors that fit a line together
  Behaviours,     \* bound: how the peer may be set to behave
  Lines           \* bound: the messages it is sent, when on its own

Event == {"CENTER_SHORT", "CENTER_LONG", "LEFT_SHORT", "RIGHT_SHORT"}

(***************************************************************************)
(* A payload of many escapes does not fit a line, whatever the error; a    *)
(* record at the bound fits it with NONE, the shortest, and not with all.  *)
(***************************************************************************)
ASSUME PeerAssumption ==
  /\ PeerCapacity \in Nat
  /\ EventOf \in [Press -> Event]
  /\ Guarded \subseteq Press
  /\ Ready \subseteq Screen /\ Active \subseteq Screen /\ Ready \cap Active = {}
  /\ BlankScreen \in Ready /\ Started \in Active
  /\ Turned \in [Active -> [{"WIFI", "GUEST"} -> Active]]
  /\ EncodableRecords \subseteq Screen \X Error
  /\ {BlankScreen} \X Error \subseteq EncodableRecords
  /\ \A record \in EncodableRecords : <<record[1], "NONE">> \in EncodableRecords
  /\ Lines \subseteq Message

VARIABLES
  peer_inbound,        \* the assembler of the lines it reads
  peer_display,        \* what the retained record shows; its error is always NONE
  handshake_complete,
  peer_locked,         \* the lock state it was told last
  behaviour,           \* how its operator has it behave
  peer_output,         \* units it wants sent
  output_overflowed

peerVars == <<peer_inbound, peer_display, handshake_complete, peer_locked,
              behaviour, peer_output, output_overflowed>>

(***************************************************************************)
(* DevelopmentPeerBehaviour; the payloads of the demo are part of Screen.  *)
(* Besides, the lines of no meaning its operator asks for now and then.    *)
(***************************************************************************)
Behaviour ==
  [reject_every_version : BOOLEAN, silent : BOOLEAN, demo_script : BOOLEAN,
   mischief : SUBSET {"malformed", "oversized", "partial"}]

ASSUME BehaviourAssumption == Behaviours \subseteq Behaviour

(* development_peer_initialise; the behaviour is then set from outside.    *)
PeerInit ==
  /\ peer_inbound = EmptyAssembler
  /\ peer_display = BlankScreen
  /\ handshake_complete = FALSE
  /\ peer_locked = FALSE
  /\ behaviour \in Behaviours
  /\ peer_output = <<>>
  /\ output_overflowed = FALSE

-----------------------------------------------------------------------------
(* Mutants: of bytes that do not fit, those that do are written; the bound *)
(* is tested before the bytes are counted in.                              *)
AppendOutputInPart(units) ==
  LET room == PeerCapacity - Len(peer_output)
      kept == IF Len(units) < room THEN Len(units) ELSE room
  IN  /\ peer_output' = IF behaviour.silent THEN peer_output
                        ELSE peer_output \o SubSeq(units, 1, kept)
      /\ output_overflowed' =
           (output_overflowed \/ (~behaviour.silent /\ kept < Len(units)))

AppendOutputLate(units) ==
  IF behaviour.silent \/ Len(peer_output) >= PeerCapacity
  THEN /\ UNCHANGED peer_output
       /\ output_overflowed' = (output_overflowed \/ ~behaviour.silent)
  ELSE /\ peer_output' = peer_output \o units
       /\ UNCHANGED output_overflowed

(* append_output: dropped whole when it does not fit.                      *)
AppendOutput(units) ==
  \/ /\ behaviour.silent
     /\ UNCHANGED <<peer_output, output_overflowed>>
  \/ /\ ~behaviour.silent
     /\ Len(peer_output) + Len(units) > PeerCapacity
     /\ output_overflowed' = TRUE
     /\ UNCHANGED peer_output
  \/ /\ ~behaviour.silent
     /\ Len(peer_output) + Len(units) <= PeerCapacity
     /\ peer_output' = peer_output \o units
     /\ UNCHANGED output_overflowed

SendNothing == UNCHANGED <<peer_output, output_overflowed>>

(***************************************************************************)
(* send_record and send_record_with_error: the error is not retained, and  *)
(* a record that cannot be encoded is not sent, with no word of it.        *)
(***************************************************************************)
Sendable(screen, error) == <<screen, error>> \in EncodableRecords

SendRecord(screen, error) ==
  IF Sendable(screen, error) THEN AppendOutput(Units(Display(screen, error)))
  ELSE SendNothing

(* apply_demo_script: what a press does to the record, and its answer.     *)
ApplyDemoScript(press) ==
  LET event == EventOf[press]
      Refuse(error) == SendRecord(peer_display, error) /\ UNCHANGED peer_display
      Show(screen)  == SendRecord(screen, "NONE") /\ peer_display' = screen
      active == peer_display \in Active
  IN  \/ press \notin Guarded /\ Refuse("GUARD")
      \/ /\ press \in Guarded /\ event = "CENTER_SHORT"
         /\ IF peer_display \in Ready THEN Show(Started) ELSE Refuse("ACTIVE")
      \/ /\ press \in Guarded /\ event = "CENTER_LONG"
         /\ IF active THEN Show(BlankScreen) ELSE Refuse("NO_SESSION")
      \/ /\ press \in Guarded /\ event \in {"LEFT_SHORT", "RIGHT_SHORT"} /\ active
         /\ Show(Turned[peer_display][IF event = "LEFT_SHORT" THEN "WIFI" ELSE "GUEST"])
      \/ /\ press \in Guarded /\ event \in {"LEFT_SHORT", "RIGHT_SHORT"} /\ ~active
         /\ SendNothing /\ UNCHANGED peer_display

(* handle_hello: a second HELLO is a restart, answered like the first.     *)
HandleHello(hello) ==
  /\ peer_locked' = hello.locked
  /\ handshake_complete' = ~behaviour.reject_every_version
  /\ IF behaviour.reject_every_version
     THEN SendRecord(BlankScreen, "BAD_VERSION")
     ELSE SendRecord(peer_display, "NONE")
  /\ UNCHANGED peer_display

(* Mutant: what comes before HELLO is acted on.                            *)
HandleMessageUngated(m) ==
  \/ m.verb = "HELLO" /\ HandleHello(m)
  \/ /\ m.verb = "BUTTON"
     /\ IF behaviour.demo_script THEN ApplyDemoScript(m.press)
        ELSE SendNothing /\ UNCHANGED peer_display
     /\ UNCHANGED <<peer_locked, handshake_complete>>
  \/ /\ m.verb = "STATE"
     /\ peer_locked' = m.locked
     /\ SendNothing
     /\ UNCHANGED <<peer_display, handshake_complete>>

(* handle_message: nothing before HELLO is acted on.                       *)
HandleMessage(m) ==
  \/ m.verb = "HELLO" /\ HandleHello(m)
  \/ /\ m.verb # "HELLO" /\ ~handshake_complete
     /\ SendRecord(BlankScreen, "NO_HELLO")
     /\ UNCHANGED <<peer_display, peer_locked, handshake_complete>>
  \/ /\ m.verb = "DISPLAY" /\ handshake_complete
     /\ SendRecord(peer_display, "BAD_VERB")
     /\ UNCHANGED <<peer_display, peer_locked, handshake_complete>>
  \/ /\ m.verb = "BUTTON" /\ handshake_complete
     /\ IF behaviour.demo_script THEN ApplyDemoScript(m.press)
        ELSE SendNothing /\ UNCHANGED peer_display
     /\ UNCHANGED <<peer_locked, handshake_complete>>
  \/ /\ m.verb = "STATE" /\ handshake_complete
     /\ peer_locked' = m.locked
     /\ SendNothing
     /\ UNCHANGED <<peer_display, handshake_complete>>

(* development_peer_feed, called with one unit.                            *)
Feed(u) ==
  LET outcome == FeedOutcome(peer_inbound, u)
  IN  /\ peer_inbound' = FeedNext(peer_inbound, u)
      /\ \/ /\ outcome.kind = "INCOMPLETE"
            /\ SendNothing
            /\ UNCHANGED <<peer_display, peer_locked, handshake_complete>>
         \/ /\ outcome.kind = "MESSAGE"
            /\ HandleMessage(outcome.message)
         \/ /\ outcome.kind = "ERROR"
            /\ SendRecord(IF handshake_complete THEN peer_display ELSE BlankScreen,
                          outcome.error)
            /\ UNCHANGED <<peer_display, peer_locked, handshake_complete>>
      /\ UNCHANGED behaviour

(* development_peer_take_output, with room for all of it.                  *)
TakeAllOutput ==
  /\ peer_output' = <<>>
  /\ UNCHANGED <<peer_inbound, peer_display, handshake_complete, peer_locked,
                 behaviour, output_overflowed>>

-----------------------------------------------------------------------------
(* What the operator can ask for.                                          *)

(* Mutant: a record published before the handshake is not retained.        *)
SetDisplayUnretained(screen, error) ==
  /\ Sendable(screen, error)
  /\ peer_display' = IF handshake_complete THEN screen ELSE peer_display
  /\ SendRecord(screen, error)
  /\ UNCHANGED <<peer_inbound, handshake_complete, peer_locked, behaviour>>

(* development_peer_set_display: refused, and not retained, if not encodable. *)
SetDisplay(screen, error) ==
  /\ Sendable(screen, error)
  /\ peer_display' = screen
  /\ SendRecord(screen, error)
  /\ UNCHANGED <<peer_inbound, handshake_complete, peer_locked, behaviour>>

(* development_peer_send_error, and development_peer_resend_display.       *)
SendError(error) ==
  /\ SendRecord(peer_display, error)
  /\ UNCHANGED <<peer_inbound, peer_display, handshake_complete, peer_locked, behaviour>>

(***************************************************************************)
(* development_peer_send_malformed, ..._oversized and ..._partial_record:  *)
(* a line that is no message, one past the bound, and half a record, for   *)
(* which the record has to be encoded first.                               *)
(***************************************************************************)
Garbage ==
  [malformed |-> Units(Noise),
   oversized |-> [i \in 1 .. MaxLineUnits |-> [of |-> Hello(FALSE), at |-> 1]]
                   \o Units(Noise),
   partial   |-> LET record == Units(Display(peer_display, "NONE"))
                 IN  SubSeq(record, 1, Len(record) \div 2)]

SendGarbage(kind) ==
  /\ IF kind = "partial" /\ ~Sendable(peer_display, "NONE") THEN SendNothing
     ELSE AppendOutput(Garbage[kind])
  /\ UNCHANGED <<peer_inbound, peer_display, handshake_complete, peer_locked, behaviour>>

SetDemo(on) ==
  /\ behaviour' = [behaviour EXCEPT !.demo_script = on]
  /\ UNCHANGED <<peer_inbound, peer_display, handshake_complete, peer_locked,
                 peer_output, output_overflowed>>

(* Mutant: the half line read so far survives a detach.                    *)
LinkDroppedKeepingLine ==
  /\ handshake_complete' = FALSE
  /\ peer_output' = <<>>
  /\ output_overflowed' = FALSE
  /\ UNCHANGED <<peer_inbound, peer_display, peer_locked, behaviour>>

(* development_peer_link_dropped: what the appliance forgets on detach.    *)
LinkDropped ==
  /\ handshake_complete' = FALSE
  /\ peer_inbound' = EmptyAssembler
  /\ peer_output' = <<>>
  /\ output_overflowed' = FALSE
  /\ UNCHANGED <<peer_display, peer_locked, behaviour>>

-----------------------------------------------------------------------------
(* The peer on its own, fed byte by byte and commanded at will.            *)
PeerFed       == \E m \in Lines : \E i \in DOMAIN Units(m) : Feed(Units(m)[i])
PeerDisplays  == \E screen \in Screen : SetDisplay(screen, "NONE")
PeerComplains == \E error \in {"NONE", "BAD_VERSION"} : SendError(error)
PeerGarbles   == \E kind \in behaviour.mischief : SendGarbage(kind)
PeerSwitches  == \E on \in BOOLEAN : SetDemo(on)

PeerNext ==
  \/ PeerFed
  \/ TakeAllOutput
  \/ PeerDisplays
  \/ PeerComplains
  \/ PeerGarbles
  \/ PeerSwitches
  \/ LinkDropped

PeerSpec == PeerInit /\ [][PeerNext]_peerVars

-----------------------------------------------------------------------------
(* The fields of the peer, its output within the buffer it is written to.  *)
PeerTypeOK ==
  /\ peer_inbound \in Assembler
  /\ peer_display \in Screen
  /\ handshake_complete \in BOOLEAN /\ peer_locked \in BOOLEAN
  /\ behaviour \in Behaviour
  /\ peer_output \in Seq(Unit) /\ Len(peer_output) <= PeerCapacity
  /\ output_overflowed \in BOOLEAN

(***************************************************************************)
(* append_output drops what does not fit rather than corrupt the stream:   *)
(* when nobody asks for half a record or an oversized line, the output is  *)
(* whole lines, however the records of answers, commands and the demo meet *)
(* the end of the buffer.                                                  *)
(***************************************************************************)
RecordsAreSentWhole ==
  behaviour.mischief \subseteq {"malformed"} => WellFramed(peer_output)

(***************************************************************************)
(* The appliance owns the state and publishes it: the last record waiting  *)
(* to be sent shows the one retained, whatever presses, commands and       *)
(* refusals came between.  Two cases are left out.  One is a record        *)
(* dropped by a full buffer.  The other is a record retained that cannot   *)
(* be encoded, which the demo script gives itself with a payload of many   *)
(* escapes: it is not sent, and what was sent before goes on being shown.  *)
(* (Answers that say the handshake is missing or the line was bad may show *)
(* nothing.)                                                               *)
(***************************************************************************)
Published ==
  {i \in DOMAIN peer_output :
     /\ peer_output[i].of.verb = "DISPLAY"
     /\ peer_output[i].of.error \in {"NONE", "ACTIVE", "NO_SESSION", "GUARD", "BAD_VERB"}}

LastWordIsCurrent ==
  ~output_overflowed /\ Sendable(peer_display, "NONE") =>
    \A i \in Published :
      (\A j \in Published : j <= i) => peer_output[i].of.screen = peer_display

(***************************************************************************)
(* "HELLO gets the current record" (development_peer_core.h:84): a peer    *)
(* that completes a handshake has an answer to send, unless it was told to *)
(* be silent or the answer did not fit the buffer.                         *)
(***************************************************************************)
HelloIsAnswered ==
  [][~handshake_complete /\ handshake_complete'
       /\ ~behaviour.silent /\ ~output_overflowed'
       => peer_output' # peer_output]_peerVars
=============================================================================
