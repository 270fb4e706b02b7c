-------------------------- MODULE RemoteApplication --------------------------
(***************************************************************************)
(* The application of stopbath_remote.c around the session: its one main   *)
(* loop, the input queue that the GUI thread fills, the input model with   *)
(* the screen lock, and what the loop publishes of the session, the layout *)
(* for the GUI thread and the message for the NFC listener.                *)
(*                                                                         *)
(* One action per step of the loop; the GUI thread enqueues between any    *)
(* two.  What the transport does in a pass (RemoteTransport) is: perhaps   *)
(* one edge of the port, perhaps some bytes received, perhaps a packet.    *)
(***************************************************************************)
EXTENDS RemoteSession

CONSTANTS
  Inputs,       \* bound: the input events the firmware delivers
  InputDepth,   \* INPUT_EVENT_QUEUE_DEPTH
  CodePages,    \* the screens of an active status with a page named
  Encodable,    \* of those, the ones whose payload fits the QR code
  NdefOf,       \* of those, the ones an NDEF message can be built from, and the message
  Epochs        \* bound: how many connections, and gaps between them, are told apart

(***************************************************************************)
(* An input event is a key and a type; "MAX" is a value this build has no  *)
(* name for.  Press, Release and Repeat are all the input model's Other.   *)
(***************************************************************************)
InputButton  == {"Up", "Down", "Right", "Left", "Center", "Back", "MAX"}
PressKind   == {"Short", "Long", "Other", "MAX"}
Input       == [button : InputButton, kind : PressKind]

ReportableEvent == {"CENTER_SHORT", "CENTER_LONG", "LEFT_SHORT", "RIGHT_SHORT"}

ASSUME ApplicationAssumption ==
  /\ Inputs \subseteq Input
  /\ InputDepth \in Nat \ {0}
  /\ ReportableEvent \subseteq Press
  /\ CodePages \subseteq Screen \ {BlankScreen}
  /\ Encodable \subseteq CodePages
  /\ DOMAIN NdefOf \subseteq CodePages
  /\ Epochs \in Nat \ {0}

VARIABLES
  loop,                  \* where the main loop is
  exit_requested,
  model_locked,          \* screen_locked of the RemoteInputModel
  input_events,          \* input_event_queue, each with the epoch it was pressed in
  layout,                \* composed_layout and the code bitmap
  presented,             \* the NDEF message the listener presents, if any
  epoch                  \* history: the edges of the port so far

appVars == <<vars, loop, exit_requested, model_locked, input_events,
             layout, presented, epoch>>

surfaces == <<layout, presented>>
inputs   == <<model_locked, input_events, exit_requested>>

-----------------------------------------------------------------------------
(* remote_input_model_apply: what a press is, before the lock is asked.    *)
Reported ==
  [button : {"Center"}, kind : {"Short", "Long"}]
    \union [button : {"Left", "Right"}, kind : {"Short"}]

EventOfInput(i) ==
  CASE i.button = "Left"  -> "LEFT_SHORT"
    [] i.button = "Right" -> "RIGHT_SHORT"
    [] i.kind = "Short"   -> "CENTER_SHORT"
    [] OTHER              -> "CENTER_LONG"

Locks(i, locked)   == i.button = "Down" /\ i.kind = "Short" /\ ~locked
Unlocks(i, locked) == i.button = "Down" /\ i.kind = "Long" /\ locked
Exits(i, locked)   == i.button = "Back" /\ i.kind = "Long" /\ ~locked
Reports(i, locked) == i \in Reported /\ ~locked

-----------------------------------------------------------------------------
(* remote_session_display: no record is shown unless connected.            *)
DisplayState ==
  [link   |-> link_state,
   locked |-> screen_locked,
   record |-> IF link_state = "Connected" THEN current_display ELSE BlankRecord]

StateShowsACode(state) ==
  state.link = "Connected" /\ state.record.screen \in CodePages

(* The NDEF message for a state, and the screen whose payload is the code. *)
NdefMessage(state) ==
  IF StateShowsACode(state) /\ state.record.screen \in DOMAIN NdefOf
  THEN {NdefOf[state.record.screen]} ELSE {}

Code(state) ==
  IF StateShowsACode(state) /\ state.record.screen \in Encodable
  THEN {state.record.screen} ELSE {}

(* remote_display_layout_compose, and the bitmap that goes with it.        *)
Compose(state, presenting) ==
  [state |-> state, code |-> Code(state), nfc_presenting |-> presenting]

(* The screen is first composed before the loop; until then it is empty.   *)
AppInit ==
  /\ Init
  /\ loop = "recompose"
  /\ exit_requested = FALSE
  /\ model_locked = FALSE
  /\ input_events = <<>>
  /\ presented = {}
  /\ layout = Compose(DisplayState, FALSE)
  /\ epoch = 0

-----------------------------------------------------------------------------
(* Mutant: with the queue full, the oldest event gives way.                *)
EnqueueInputEventOverOldest ==
  /\ loop # "exited"
  /\ \E i \in Inputs :
       input_events' = Append(IF Len(input_events) < InputDepth THEN input_events
                              ELSE Tail(input_events), [input |-> i, epoch |-> epoch])
  /\ UNCHANGED <<vars, loop, exit_requested, model_locked, surfaces, epoch>>

(* enqueue_input_event, on the GUI thread: never blocks; with the queue    *)
(* full the event is dropped (and counted, for the log).                   *)
EnqueueInputEvent ==
  /\ loop # "exited"
  /\ \E i \in Inputs :
       input_events' = IF Len(input_events) < InputDepth
                       THEN Append(input_events, [input |-> i, epoch |-> epoch])
                       ELSE input_events
  /\ UNCHANGED <<vars, loop, exit_requested, model_locked, surfaces, epoch>>

LoopTick ==
  /\ loop = "tick" /\ loop' = "edge"
  /\ AppTick
  /\ UNCHANGED <<inputs, surfaces, epoch>>

(* remote_transport_service: an edge of the port, or none.                 *)
LoopEdge ==
  /\ loop = "edge" /\ loop' = "receive"
  /\ \/ /\ link_state = "LinkDown"
        /\ PortOpened
        /\ epoch' = (epoch + 1) % Epochs
     \/ /\ link_state # "LinkDown"
        /\ PortClosed
        /\ epoch' = (epoch + 1) % Epochs
     \/ UNCHANGED <<vars, epoch>>
  /\ UNCHANGED <<inputs, surfaces>>

(* ... bytes received, while there are any ...                             *)
LoopReceive ==
  /\ loop = "receive"
  /\ \/ HostReceive /\ UNCHANGED loop
     \/ loop' = "send" /\ UNCHANGED vars
  /\ UNCHANGED <<inputs, surfaces, epoch>>

(* ... and a packet sent, if the port is open and the slot is free.        *)
LoopSend ==
  /\ loop = "send" /\ loop' = "input"
  /\ \/ link_state # "LinkDown" /\ Drain
     \/ UNCHANGED vars
  /\ UNCHANGED <<inputs, surfaces, epoch>>

(* Mutant: the session is not told that the screen was unlocked.           *)
ApplyInputEventOneWay(i) ==
  /\ \/ /\ Locks(i, model_locked) \/ Unlocks(i, model_locked)
        /\ model_locked' = Locks(i, model_locked)
        /\ IF model_locked' THEN LockChanged(TRUE) ELSE UNCHANGED vars
        /\ UNCHANGED exit_requested
     \/ /\ Reports(i, model_locked)
        /\ ReportEvent(EventOfInput(i), TRUE)
        /\ UNCHANGED <<model_locked, exit_requested>>
     \/ /\ Exits(i, model_locked)
        /\ exit_requested' = TRUE
        /\ UNCHANGED <<vars, model_locked>>
     \/ /\ ~Locks(i, model_locked) /\ ~Unlocks(i, model_locked)
        /\ ~Reports(i, model_locked) /\ ~Exits(i, model_locked)
        /\ UNCHANGED <<vars, model_locked, exit_requested>>

(***************************************************************************)
(* apply_input_event; what is ignored, or swallowed by the lock, leaves no *)
(* trace.  application_is_foregrounded is always true.                     *)
(***************************************************************************)
ApplyInputEvent(i) ==
  /\ \/ /\ Locks(i, model_locked) \/ Unlocks(i, model_locked)
        /\ model_locked' = Locks(i, model_locked)
        /\ LockChanged(model_locked')
        /\ UNCHANGED exit_requested
     \/ /\ Reports(i, model_locked)
        /\ ReportEvent(EventOfInput(i), TRUE)
        /\ UNCHANGED <<model_locked, exit_requested>>
     \/ /\ Exits(i, model_locked)
        /\ exit_requested' = TRUE
        /\ UNCHANGED <<vars, model_locked>>
     \/ /\ ~Locks(i, model_locked) /\ ~Unlocks(i, model_locked)
        /\ ~Reports(i, model_locked) /\ ~Exits(i, model_locked)
        /\ UNCHANGED <<vars, model_locked, exit_requested>>

(* One input event per pass, or none in the time the loop waits for it.    *)
LoopInput ==
  /\ loop = "input" /\ loop' = "recompose"
  /\ \/ /\ input_events = <<>>
        /\ UNCHANGED <<vars, inputs>>
     \/ /\ input_events # <<>>
        /\ ApplyInputEvent(Head(input_events).input)
        /\ input_events' = Tail(input_events)
  /\ UNCHANGED <<surfaces, epoch>>

(* Mutant: with no record to show, the surfaces are left as they are.      *)
RecomposeScreenLazily ==
  IF link_state = "Connected"
  THEN /\ presented' = NdefMessage(DisplayState)
       /\ layout' = Compose(DisplayState, presented' # {})
  ELSE UNCHANGED surfaces

(***************************************************************************)
(* recompose_screen: takes the state of the session, has the listener      *)
(* present its message, and publishes the layout under the mutex.          *)
(***************************************************************************)
RecomposeScreen ==
  /\ presented' = NdefMessage(DisplayState)
  /\ layout' = Compose(DisplayState, presented' # {})

LoopRecompose ==
  /\ loop = "recompose"
  /\ loop' = IF exit_requested THEN "closing" ELSE "tick"
  /\ RecomposeScreen
  /\ UNCHANGED <<vars, inputs, epoch>>

(* Mutant: the session is not told, only its state is set.                 *)
CloseTransportUntold ==
  /\ loop = "closing" /\ loop' = "stopping"
  /\ link_state' = "LinkDown"
  /\ UNCHANGED <<inbound, screen_locked, current_display, output, output_message_count,
                 handshake_elapsed, counters, inputs, surfaces, epoch>>

(* The way out: remote_transport_close, then nfc_presentation_stop.        *)
CloseTransport ==
  /\ loop = "closing" /\ loop' = "stopping"
  /\ IF link_state # "LinkDown" THEN PortClosed ELSE UNCHANGED vars
  /\ UNCHANGED <<inputs, surfaces, epoch>>

StopNfc ==
  /\ loop = "stopping" /\ loop' = "exited"
  /\ presented' = {}
  /\ UNCHANGED <<vars, inputs, layout, epoch>>

MainLoop ==
  \/ LoopTick
  \/ LoopEdge
  \/ LoopReceive
  \/ LoopSend
  \/ LoopInput
  \/ LoopRecompose
  \/ CloseTransport
  \/ StopNfc

AppNext == EnqueueInputEvent \/ MainLoop

AppSpec == AppInit /\ [][AppNext]_appVars

(***************************************************************************)
(* The loop keeps running, and the host does not write so fast that the    *)
(* transport never finds its buffer empty.                                 *)
(***************************************************************************)
FairAppSpec ==
  /\ AppSpec
  /\ WF_appVars(MainLoop)
  /\ SF_appVars(LoopReceive /\ loop' = "send")

-----------------------------------------------------------------------------
AppTypeOK ==
  /\ loop \in {"tick", "edge", "receive", "send", "input", "recompose",
               "closing", "stopping", "exited"}
  /\ exit_requested \in BOOLEAN /\ model_locked \in BOOLEAN
  /\ input_events \in Seq([input : Inputs, epoch : 0 .. Epochs - 1])
  /\ Len(input_events) <= InputDepth
  /\ presented \subseteq {NdefOf[screen] : screen \in DOMAIN NdefOf}
  /\ epoch \in 0 .. Epochs - 1

(***************************************************************************)
(* The credential is only out while it may be: at the head of every pass,  *)
(* and so at most one pass after a drop, a replacement or a refusal, the   *)
(* code and the tag are those of the record the session shows, and there   *)
(* is none unless the link is up; after the exit there is none at all.     *)
(***************************************************************************)
CredentialFollowsTheLink ==
  /\ loop = "tick" /\ (presented # {} \/ layout.code # {}) =>
       /\ link_state = "Connected"
       /\ layout.code \subseteq {current_display.screen}
       /\ presented \subseteq NdefMessage(DisplayState)
       /\ layout.nfc_presenting <=> presented # {}
  /\ loop = "exited" =>
       presented = {} /\ current_display = BlankRecord /\ output = <<>>

(***************************************************************************)
(* The lock is held twice, by the input model that obeys it and by the     *)
(* session that reports it, and the two never differ.                      *)
(***************************************************************************)
LocksAgree == model_locked = screen_locked

(***************************************************************************)
(* Of the guard only the link is left to the session: a press it would     *)
(* drop for the lock or the foreground never gets that far, so the counter *)
(* of such presses stands still.                                           *)
(***************************************************************************)
GuardIsNeverReached == counters.events_dropped_by_guard = 0

(***************************************************************************)
(* Whatever the application does to the session is a sequence of the calls *)
(* of RemoteSession, so all that is shown of the session holds within it.  *)
(***************************************************************************)
ApplicationDrivesSession == Spec

(***************************************************************************)
(* A long back press that the queue took ends the application, wherever it *)
(* stands in the queue and the loop is in its pass, and however the link,  *)
(* the host and the other buttons go on: unless the screen is locked when  *)
(* it is reached, which is decided by the last lock or unlock ahead of it  *)
(* and not by the lock at the time it was pressed.  (One that met a full   *)
(* queue is gone, and has to be pressed again.)                            *)
(***************************************************************************)
LockedOnReaching(n) ==
  LET ahead == {k \in 1 .. n - 1 : input_events[k].input.button = "Down"
                                    /\ input_events[k].input.kind \in {"Short", "Long"}}
  IN  IF ahead = {} THEN model_locked
      ELSE \E k \in ahead : /\ \A other \in ahead : other <= k
                            /\ input_events[k].input.kind = "Short"

ExitWaits ==
  \E n \in DOMAIN input_events :
    /\ input_events[n].input = [button |-> "Back", kind |-> "Long"]
    /\ ~LockedOnReaching(n)

ExitIsHonoured == ExitWaits ~> loop = "exited"

(***************************************************************************)
(* session/remote_session.h: a press that cannot be sent now is dropped,   *)
(* so a stale press cannot arrive after a reconnection: one made on a      *)
(* connection (an odd epoch) is not reported on a later one.               *)
(***************************************************************************)
NoStalePressIsReported ==
  [][input_events # <<>> /\ input_events' = Tail(input_events)
       /\ Head(input_events).input \in Reported /\ output' # output
       /\ Head(input_events).epoch % 2 = 1
       => Head(input_events).epoch = epoch]_appVars
=============================================================================
