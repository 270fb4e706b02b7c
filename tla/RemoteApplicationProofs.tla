----------------------- MODULE RemoteApplicationProofs -----------------------
(***************************************************************************)
(* The application drives the session by its own calls, so the theorems    *)
(* about the session hold in it; and its two locks agree, which leaves the *)
(* guard of the session nothing to drop.                                   *)
(***************************************************************************)
EXTENDS RemoteApplication, RemoteSessionProofs

(* A press the input model reports is one the protocol has an event for.   *)
LEMMA ReportsAnEvent ==
  ASSUME NEW i \in Reported
  PROVE  EventOfInput(i) \in Press
<1>1. /\ i.button \in {"Center", "Left", "Right"}
      /\ i.kind \in {"Short", "Long"}
  BY DEF Reported
<1>2. EventOfInput(i) \in ReportableEvent
  BY <1>1 DEF EventOfInput, ReportableEvent
<1> QED
  BY <1>2, ApplicationAssumption

(***************************************************************************)
(* What an input event does to the session and to the two locks.           *)
(***************************************************************************)
LEMMA InputStep ==
  ASSUME NEW i, ApplyInputEvent(i)
  PROVE  \/ UNCHANGED <<vars, model_locked>>
         \/ \E locked \in BOOLEAN : LockChanged(locked) /\ model_locked' = locked
         \/ /\ ~model_locked /\ UNCHANGED model_locked
            /\ \E press \in Press : ReportEvent(press, TRUE)
<1>1. CASE (Locks(i, model_locked) \/ Unlocks(i, model_locked))
           /\ model_locked' = Locks(i, model_locked) /\ LockChanged(model_locked')
  <2>1. Locks(i, model_locked) \in BOOLEAN
    BY DEF Locks
  <2> QED
    BY <1>1, <2>1
<1>2. CASE Reports(i, model_locked) /\ ReportEvent(EventOfInput(i), TRUE)
           /\ UNCHANGED model_locked
  <2>1. EventOfInput(i) \in Press /\ ~model_locked
    BY <1>2, ReportsAnEvent DEF Reports
  <2> QED
    BY <1>2, <2>1
<1>3. CASE UNCHANGED <<vars, model_locked>>
  BY <1>3
<1> QED
  BY <1>1, <1>2, <1>3 DEF ApplyInputEvent

(* A step of the application is a call of the session's, or none.          *)
LEMMA AppStepIsSessionStep == [AppNext]_appVars => [Next]_vars
<1> SUFFICES ASSUME [AppNext]_appVars PROVE [Next]_vars
  OBVIOUS
<1>1. CASE EnqueueInputEvent
  BY <1>1 DEF EnqueueInputEvent
<1>2. CASE LoopTick
  BY <1>2 DEF LoopTick, Next
<1>3. CASE LoopEdge
  BY <1>3 DEF LoopEdge, Next
<1>4. CASE LoopReceive
  BY <1>4 DEF LoopReceive, Next
<1>5. CASE LoopSend
  BY <1>5 DEF LoopSend, Next
<1>6. CASE LoopInput
  <2>1. UNCHANGED vars \/ ApplyInputEvent(Head(input_events).input)
    BY <1>6 DEF LoopInput
  <2>2. CASE ApplyInputEvent(Head(input_events).input)
    <3>1. \/ UNCHANGED vars
          \/ \E locked \in BOOLEAN : LockChanged(locked)
          \/ \E press \in Press : ReportEvent(press, TRUE)
      BY <2>2, InputStep
    <3> QED
      BY <3>1 DEF Next, AppLock, AppReport
  <2> QED
    BY <2>1, <2>2
<1>7. CASE LoopRecompose
  BY <1>7 DEF LoopRecompose
<1>8. CASE CloseTransport
  BY <1>8 DEF CloseTransport, Next
<1>9. CASE StopNfc
  BY <1>9 DEF StopNfc
<1>10. CASE UNCHANGED appVars
  BY <1>10 DEF appVars
<1> QED
  BY <1>1, <1>2, <1>3, <1>4, <1>5, <1>6, <1>7, <1>8, <1>9, <1>10 DEF AppNext, MainLoop

(***************************************************************************)
(* Every behaviour of the application is one of the session: the calls of  *)
(* the main loop, in the order it makes them, are calls the session allows.*)
(***************************************************************************)
THEOREM ApplicationIsASession == AppSpec => ApplicationDrivesSession
<1>1. AppInit => Init
  BY DEF AppInit
<1> QED
  BY <1>1, AppStepIsSessionStep, PTL DEF AppSpec, ApplicationDrivesSession, Spec

(***************************************************************************)
(* So in the application, too, no press waits in the output for a later    *)
(* link, and the record is blank unless the link is up.                    *)
(***************************************************************************)
THEOREM SessionPromisesHold ==
  AppSpec => [](NoPressWaitsForALink /\ PayloadOnlyWhileConnected)
BY ApplicationIsASession, NoPressCrossesAReconnection, PayloadIsCleared, PTL
   DEF ApplicationDrivesSession

-----------------------------------------------------------------------------
(***************************************************************************)
(* The fields of the application: each step moves the loop, at most one    *)
(* end of the input queue, and the lock, the tag or the epoch.             *)
(***************************************************************************)
LEMMA AppTypesStep == AppTypeOK /\ [AppNext]_appVars => AppTypeOK'
<1> SUFFICES ASSUME AppTypeOK, [AppNext]_appVars PROVE AppTypeOK'
  OBVIOUS
<1> DEFINE Queued   == [input : Inputs, epoch : 0 .. Epochs - 1]
           Messages == {NdefOf[screen] : screen \in DOMAIN NdefOf}
           Loops    == {"tick", "edge", "receive", "send", "input", "recompose",
                        "closing", "stopping", "exited"}
<1>a. /\ exit_requested \in BOOLEAN /\ model_locked \in BOOLEAN
      /\ input_events \in Seq(Queued) /\ Len(input_events) <= InputDepth
      /\ Len(input_events) \in Nat /\ InputDepth \in Nat \ {0}
      /\ presented \subseteq Messages /\ epoch \in 0 .. Epochs - 1 /\ Epochs \in Nat \ {0}
      /\ loop \in Loops
  BY ApplicationAssumption, LenProperties DEF AppTypeOK
<1>b. ASSUME loop' \in Loops, UNCHANGED <<inputs, presented, epoch>> PROVE AppTypeOK'
  BY <1>a, <1>b DEF AppTypeOK, inputs
<1> HIDE DEF Queued, Messages
<1>1. CASE EnqueueInputEvent
  <2>1. PICK i \in Inputs :
          input_events' = IF Len(input_events) < InputDepth
                          THEN Append(input_events, [input |-> i, epoch |-> epoch])
                          ELSE input_events
    BY <1>1 DEF EnqueueInputEvent
  <2>2. [input |-> i, epoch |-> epoch] \in Queued
    BY <1>a DEF Queued
  <2>3. /\ Append(input_events, [input |-> i, epoch |-> epoch]) \in Seq(Queued)
        /\ Len(Append(input_events, [input |-> i, epoch |-> epoch])) = Len(input_events) + 1
    BY <1>a, <2>2, AppendProperties
  <2>4. input_events' \in Seq(Queued) /\ Len(input_events') <= InputDepth
    BY <1>a, <2>1, <2>3
  <2> QED
    BY <1>1, <1>a, <2>4 DEF EnqueueInputEvent, AppTypeOK, Queued, Messages, surfaces
<1>2. CASE LoopTick \/ LoopReceive \/ LoopSend
  BY <1>2, <1>a, <1>b DEF LoopTick, LoopReceive, LoopSend, surfaces
<1>3. CASE LoopEdge
  <2>1. epoch' \in 0 .. Epochs - 1
    BY <1>3, <1>a DEF LoopEdge
  <2> QED
    BY <1>3, <1>a, <2>1 DEF LoopEdge, AppTypeOK, inputs, surfaces
<1>4. CASE LoopInput
  <2>1. /\ exit_requested' \in BOOLEAN /\ model_locked' \in BOOLEAN
        /\ \/ input_events' = input_events
           \/ input_events # <<>> /\ input_events' = Tail(input_events)
    <3>1. CASE input_events = <<>> /\ UNCHANGED inputs
      BY <1>a, <3>1 DEF inputs
    <3>2. CASE /\ input_events # <<>> /\ input_events' = Tail(input_events)
               /\ ApplyInputEvent(Head(input_events).input)
      <4>1. \A i : Locks(i, model_locked) \in BOOLEAN
        BY DEF Locks
      <4>2. exit_requested' = TRUE \/ exit_requested' = exit_requested
        BY <3>2 DEF ApplyInputEvent
      <4>3. model_locked' \in BOOLEAN
        BY <1>a, <3>2, <4>1 DEF ApplyInputEvent
      <4>4. exit_requested' \in BOOLEAN
        BY <1>a, <4>2
      <4> QED
        BY <3>2, <4>3, <4>4
    <3> QED
      BY <1>4, <3>1, <3>2 DEF LoopInput
  <2>2. input_events' \in Seq(Queued) /\ Len(input_events') <= InputDepth
    <3>1. CASE input_events' = input_events
      BY <1>a, <3>1
    <3>2. CASE input_events # <<>> /\ input_events' = Tail(input_events)
      <4>1. Tail(input_events) \in Seq(Queued)
            /\ Len(Tail(input_events)) = Len(input_events) - 1
        BY <1>a, <3>2, HeadTailProperties
      <4> QED
        BY <1>a, <3>2, <4>1
    <3> QED
      BY <2>1, <3>1, <3>2
  <2> QED
    BY <1>4, <1>a, <2>1, <2>2 DEF LoopInput, AppTypeOK, Queued, Messages, surfaces
<1>5. CASE LoopRecompose \/ StopNfc
  <2>1. presented' \subseteq Messages
    BY <1>5, <1>a DEF LoopRecompose, StopNfc, RecomposeScreen, NdefMessage, Messages
  <2> QED
    BY <1>5, <1>a, <2>1 DEF LoopRecompose, StopNfc, AppTypeOK, Queued, Messages, inputs
<1>6. CASE CloseTransport
  BY <1>6, <1>a, <1>b DEF CloseTransport, surfaces
<1>7. CASE UNCHANGED appVars
  BY <1>7, <1>a, <1>b DEF appVars, inputs
<1> QED
  BY <1>1, <1>2, <1>3, <1>4, <1>5, <1>6, <1>7 DEF AppNext, MainLoop

(***************************************************************************)
(* Every field of the application keeps its type, and the input queue      *)
(* never holds more than its depth, however the GUI thread fills it.       *)
(***************************************************************************)
THEOREM ApplicationIsTyped == AppSpec => []AppTypeOK
<1>1. AppInit => AppTypeOK
  <2> SUFFICES ASSUME AppInit PROVE AppTypeOK
    OBVIOUS
  <2>1. {exit_requested, model_locked} \subseteq BOOLEAN
    BY Zenon DEF AppInit
  <2>2. /\ input_events = <<>> /\ presented = {} /\ epoch \in 0 .. Epochs - 1
        /\ loop = "recompose" /\ Len(<<>>) <= InputDepth
    BY ApplicationAssumption DEF AppInit
  <2> QED
    BY <2>1, <2>2 DEF AppTypeOK
<1> QED
  BY <1>1, AppTypesStep, PTL DEF AppSpec

-----------------------------------------------------------------------------
(***************************************************************************)
(* The locks agree, and the guard counter stands still: only a report in a *)
(* locked session moves it, and the input model lets none through.         *)
(***************************************************************************)
LockInv == LocksAgree /\ GuardIsNeverReached

LEMMA LockInvStep == TypeOK /\ LockInv /\ [AppNext]_appVars => LockInv'
<1> SUFFICES ASSUME TypeOK, LockInv, [AppNext]_appVars PROVE LockInv'
  OBVIOUS
<1> DEFINE Still == UNCHANGED <<screen_locked, model_locked>>
<1>a. counters \in [Counter -> 0 .. CounterModulus - 1]
  BY DEF TypeOK
<1>b. \A c \in Counter \ {"events_dropped_by_guard"} :
        Count(c) => counters'["events_dropped_by_guard"] = counters["events_dropped_by_guard"]
  BY <1>a DEF Count, Counter
<1>c. counters.events_dropped_by_guard = 0 /\ model_locked = screen_locked
  BY DEF LockInv, LocksAgree, GuardIsNeverReached
<1>d. ASSUME model_locked' = screen_locked',
             \/ UNCHANGED counters
             \/ \E c \in Counter \ {"events_dropped_by_guard"} : Count(c)
      PROVE  LockInv'
  BY <1>b, <1>c, <1>d DEF LockInv, LocksAgree, GuardIsNeverReached
<1>e. /\ "reconnections" \in Counter \ {"events_dropped_by_guard"}
      /\ "malformed_received" \in Counter \ {"events_dropped_by_guard"}
      /\ "version_mismatches" \in Counter \ {"events_dropped_by_guard"}
      /\ "events_dropped_by_output_full" \in Counter \ {"events_dropped_by_guard"}
      /\ "handshake_retries" \in Counter \ {"events_dropped_by_guard"}
  BY DEF Counter
<1>1. CASE UNCHANGED <<vars, model_locked>>
  BY <1>1, <1>c, <1>d DEF vars
<1>2. CASE LoopTick
  <2>1. PICK elapsed \in 0 .. MaxElapsed : Tick(elapsed)
    BY <1>2 DEF LoopTick, AppTick
  <2> QED
    BY <1>2, <2>1, <1>c, <1>d, <1>e DEF LoopTick, Tick, inputs
<1>3. ASSUME PortOpened \/ PortClosed, UNCHANGED model_locked PROVE LockInv'
  BY <1>3, <1>c, <1>d, <1>e DEF PortOpened, PortClosed
<1>4. ASSUME NEW u, Receive(u), UNCHANGED model_locked PROVE LockInv'
  BY <1>4, <1>c, <1>d, <1>e DEF Receive, HandleDisplay
<1>5. ASSUME Drain, UNCHANGED model_locked PROVE LockInv'
  BY <1>5, <1>c, <1>d DEF Drain, TakeOutput
<1>6. ASSUME NEW i, ApplyInputEvent(i) PROVE LockInv'
  <2>1. CASE \E locked \in BOOLEAN : LockChanged(locked) /\ model_locked' = locked
    BY <2>1, <1>d DEF LockChanged
  <2>2. CASE ~model_locked /\ UNCHANGED model_locked
             /\ \E press \in Press : ReportEvent(press, TRUE)
    BY <2>2, <1>c, <1>d, <1>e DEF ReportEvent
  <2> QED
    BY <1>6, <1>1, <2>1, <2>2, InputStep
<1>7. CASE LoopReceive
  BY <1>7, <1>1, <1>4 DEF LoopReceive, HostReceive, inputs
<1>8. CASE LoopInput
  BY <1>8, <1>1, <1>6 DEF LoopInput, inputs
<1>9. CASE EnqueueInputEvent \/ LoopRecompose \/ StopNfc
  BY <1>9, <1>1 DEF EnqueueInputEvent, LoopRecompose, StopNfc, inputs
<1>10. CASE LoopEdge \/ CloseTransport
  BY <1>10, <1>1, <1>3 DEF LoopEdge, CloseTransport, inputs
<1>11. CASE LoopSend
  BY <1>11, <1>1, <1>5 DEF LoopSend, inputs
<1>12. CASE UNCHANGED appVars
  BY <1>12, <1>1 DEF appVars
<1> QED
  BY <1>2, <1>7, <1>8, <1>9, <1>10, <1>11, <1>12 DEF AppNext, MainLoop

LEMMA LockInvariance == AppSpec => []LockInv
<1>1. AppInit => LockInv
  BY DEF AppInit, Init, LockInv, LocksAgree, GuardIsNeverReached, Counter
<1> QED
  BY <1>1, LockInvStep, ApplicationIsASession, TypeCorrect, PTL
     DEF AppSpec, ApplicationDrivesSession

(* The lock of the input model and the lock of the session never differ.   *)
THEOREM TheLocksAgree == AppSpec => []LocksAgree
BY LockInvariance, PTL DEF LockInv

(***************************************************************************)
(* The guard of remote_session_report_event drops nothing in the composed  *)
(* application, and its counter never moves.                               *)
(***************************************************************************)
THEOREM GuardIsIdle == AppSpec => []GuardIsNeverReached
BY LockInvariance, PTL DEF LockInv

-----------------------------------------------------------------------------
(***************************************************************************)
(* CredentialFollowsTheLink.  At the head of a pass the surfaces are those *)
(* of the state that was just composed; on the way out the link is down,   *)
(* and a link that is down has nothing to send.                            *)
(***************************************************************************)
SurfacesInv ==
  /\ link_state = "LinkDown" => output = <<>>
  /\ loop = "tick" =>
       /\ presented = NdefMessage(DisplayState)
       /\ layout = Compose(DisplayState, presented # {})
  /\ loop \in {"stopping", "exited"} => link_state = "LinkDown"
  /\ loop = "exited" => presented = {}

(* No call puts anything into the output of a link that stays down.        *)
LEMMA DownStaysEmpty ==
  ASSUME TypeOK, [Next]_vars, link_state = "LinkDown" => output = <<>>
  PROVE  link_state' = "LinkDown" => output' = <<>>
<1>1. CASE PortOpened
  BY <1>1 DEF PortOpened
<1>2. CASE PortClosed
  BY <1>2 DEF PortClosed
<1>3. CASE HostReceive
  BY <1>3 DEF HostReceive, Receive, HandleDisplay
<1>4. CASE AppTick
  BY <1>4 DEF AppTick, Tick
<1>5. CASE AppReport
  BY <1>5 DEF AppReport, ReportEvent
<1>6. CASE AppLock
  BY <1>6 DEF AppLock, LockChanged
<1>7. CASE Drain
  <2>1. CASE link_state = "LinkDown"
    <3>1. output = <<>> /\ Len(output) = 0
      BY <2>1
    <3>2. Taken(PacketUnits) = 0
      BY <3>1, SessionAssumption DEF Taken
    <3>3. output' = SubSeq(output, 1, 0)
      BY <1>7, <3>1, <3>2 DEF Drain, TakeOutput
    <3> QED
      BY <3>1, <3>3
  <2>2. CASE link_state # "LinkDown"
    BY <1>7, <2>2 DEF Drain, TakeOutput
  <2> QED
    BY <2>1, <2>2
<1>8. CASE UNCHANGED vars
  BY <1>8 DEF vars
<1> QED
  BY <1>1, <1>2, <1>3, <1>4, <1>5, <1>6, <1>7, <1>8 DEF Next

LEMMA SurfacesStep == TypeOK /\ SurfacesInv /\ [AppNext]_appVars => SurfacesInv'
<1> SUFFICES ASSUME TypeOK, SurfacesInv, [AppNext]_appVars PROVE SurfacesInv'
  OBVIOUS
<1>1. link_state' = "LinkDown" => output' = <<>>
  BY AppStepIsSessionStep, DownStaysEmpty DEF SurfacesInv
<1>2. CASE LoopRecompose
  <2>1. UNCHANGED vars /\ DisplayState' = DisplayState
    BY <1>2 DEF LoopRecompose, vars, DisplayState
  <2>2. /\ presented' = NdefMessage(DisplayState')
        /\ layout' = Compose(DisplayState', presented' # {})
    BY <1>2, <2>1 DEF LoopRecompose, RecomposeScreen
  <2>3. loop' \in {"tick", "closing"}
    BY <1>2 DEF LoopRecompose
  <2> QED
    BY <1>1, <2>2, <2>3 DEF SurfacesInv, NdefMessage, Compose, Code, StateShowsACode
<1>3. CASE EnqueueInputEvent \/ UNCHANGED appVars
  <2>1. UNCHANGED <<vars, loop, surfaces>>
    BY <1>3 DEF EnqueueInputEvent, appVars, surfaces
  <2> QED
    BY <2>1, <1>1 DEF SurfacesInv, vars, surfaces, DisplayState, NdefMessage, Compose,
       Code, StateShowsACode
<1>4. CASE loop' \notin {"tick", "stopping", "exited"}
  BY <1>1, <1>4 DEF SurfacesInv
<1>5. CASE CloseTransport
  BY <1>1, <1>5 DEF CloseTransport, PortClosed, SurfacesInv, vars
<1>6. CASE StopNfc
  BY <1>1, <1>6 DEF StopNfc, SurfacesInv, vars
<1>7. LoopTick \/ LoopEdge \/ LoopReceive \/ LoopSend \/ LoopInput
        => loop' \notin {"tick", "stopping", "exited"}
  BY DEF LoopTick, LoopEdge, LoopReceive, LoopSend, LoopInput
<1> QED
  BY <1>2, <1>3, <1>4, <1>5, <1>6, <1>7 DEF AppNext, MainLoop

(* What the invariant says of a pass, in the words of the property.        *)
LEMMA SurfacesSuffice ==
  ASSUME SurfacesInv, PayloadOnlyWhileConnected
  PROVE  CredentialFollowsTheLink
<1>1. ASSUME loop = "tick", presented # {} \/ layout.code # {}
      PROVE  /\ link_state = "Connected"
             /\ layout.code \subseteq {current_display.screen}
             /\ presented \subseteq NdefMessage(DisplayState)
             /\ layout.nfc_presenting <=> presented # {}
  <2>1. presented = NdefMessage(DisplayState) /\ layout.code = Code(DisplayState)
        /\ layout.nfc_presenting = (presented # {})
    BY <1>1 DEF SurfacesInv, Compose
  <2>2. StateShowsACode(DisplayState)
    BY <1>1, <2>1 DEF NdefMessage, Code
  <2>3. link_state = "Connected" /\ DisplayState.record = current_display
    BY <2>2 DEF StateShowsACode, DisplayState
  <2> QED
    BY <2>1, <2>3 DEF Code
<1> QED
  BY <1>1 DEF SurfacesInv, PayloadOnlyWhileConnected, CredentialFollowsTheLink

(***************************************************************************)
(* The code and the tag are those of a link that is up, for every set of   *)
(* screens, payloads and inputs, and nothing is left after the exit.       *)
(***************************************************************************)
THEOREM CredentialIsNeverLeft == AppSpec => []CredentialFollowsTheLink
<1>1. AppInit => SurfacesInv
  BY DEF AppInit, Init, SurfacesInv
<1>2. AppSpec => []TypeOK
  BY ApplicationIsASession, TypeCorrect, PTL DEF ApplicationDrivesSession
<1>3. AppSpec => []SurfacesInv
  BY <1>1, <1>2, SurfacesStep, PTL DEF AppSpec
<1> QED
  BY <1>3, SessionPromisesHold, SurfacesSuffice, PTL
=============================================================================
