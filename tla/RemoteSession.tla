---------------------------- MODULE RemoteSession ----------------------------
(***************************************************************************)
(* The client session of session/remote_session.c: the state machine       *)
(* between the transport, the buttons and the display.  One action per     *)
(* public function; the variables are the fields of struct RemoteSession.  *)
(* All of them run on the application's one thread, so an action is a      *)
(* whole call.                                                             *)
(***************************************************************************)
EXTENDS RemoteWire

CONSTANTS
  QueueDepth,      \* REMOTE_SESSION_OUTBOUND_QUEUE_DEPTH
  RetryInterval,   \* REMOTE_SESSION_HANDSHAKE_RETRY_INTERVAL_MILLISECONDS
  MaxElapsed,      \* bound: the longest time between two ticks
  PacketUnits,     \* the transport's send buffer, which the output is drained into
  Inbound,         \* bound: the messages the host writes
  CounterModulus   \* the diagnostic counters wrap at this (2^32 in the program)

ASSUME SessionAssumption ==
  /\ QueueDepth \in Nat \ {0}
  /\ RetryInterval \in Nat \ {0}
  /\ MaxElapsed \in Nat
  /\ PacketUnits \in Nat \ {0}
  /\ Inbound \subseteq Message
  /\ CounterModulus \in Nat \ {0}

(***************************************************************************)
(* The HELLO of this application (token "flipper-zero", 49 bytes) leaves   *)
(* in one packet of 64.  A token of more than 27 characters would not.     *)
(***************************************************************************)
ASSUME HelloFitsPacket == MessageUnits["HELLO"] <= PacketUnits

VARIABLES
  link_state,            \* RemoteSessionLinkState
  inbound,               \* the inbound line assembler
  screen_locked,         \* the lock, the one fact this device owns
  current_display,       \* the last DISPLAY received
  output,                \* units waiting to be sent
  output_message_count,  \* how many messages the session thinks those are
  handshake_elapsed,     \* handshake_elapsed_milliseconds
  counters               \* the diagnostic counters

vars == <<link_state, inbound, screen_locked, current_display, output,
          output_message_count, handshake_elapsed, counters>>

LinkState == {"LinkDown", "Handshaking", "Connected", "Incompatible"}

Counter == {"reconnections", "malformed_received", "version_mismatches",
            "events_dropped_by_guard", "events_dropped_by_output_full",
            "handshake_retries"}

OutputCapacity == MaxLineUnits * QueueDepth

Init ==
  /\ link_state = "LinkDown"
  /\ inbound = EmptyAssembler
  /\ screen_locked = FALSE
  /\ current_display = BlankRecord
  /\ output = <<>>
  /\ output_message_count = 0
  /\ handshake_elapsed = 0
  /\ counters = [c \in Counter |-> 0]

Count(counter) ==
  counters' = [counters EXCEPT ![counter] = (@ + 1) % CounterModulus]

-----------------------------------------------------------------------------
(***************************************************************************)
(* queue_message: into a buffer that holds units and count, whole or not   *)
(* at all.  The message count is tested first, the bytes as a backstop.    *)
(***************************************************************************)
Fits(units, count, m) ==
  /\ count < QueueDepth
  /\ Len(units) + MessageUnits[m.verb] <= OutputCapacity

(* Mutant: what fits of a message is written.                              *)
QueueMessageInPart(units, count, m) ==
  \/ /\ Fits(units, count, m)
     /\ output' = units \o Units(m)
     /\ output_message_count' = count + 1
  \/ /\ ~Fits(units, count, m)
     /\ output' = Append(units, Units(m)[1])
     /\ output_message_count' = Cardinality(Terminators(output'))

QueueMessage(units, count, m) ==
  \/ /\ Fits(units, count, m)
     /\ output' = units \o Units(m)
     /\ output_message_count' = count + 1
  \/ /\ ~Fits(units, count, m)
     /\ output' = units
     /\ output_message_count' = count

(* Mutant: a HELLO that does not clear the output first.                   *)
SendHelloBehind == QueueMessage(output, output_message_count, Hello(screen_locked))

(* send_hello, always into an output that was just cleared.                *)
SendHello == QueueMessage(<<>>, 0, Hello(screen_locked))

(* remote_session_port_opened                                              *)
PortOpened ==
  /\ inbound' = EmptyAssembler
  /\ current_display' = BlankRecord
  /\ link_state' = "Handshaking"
  /\ handshake_elapsed' = 0
  /\ SendHello
  /\ UNCHANGED <<screen_locked, counters>>

(* Mutants: a clock not started over, and one that forgets the time before.*)
TickWithoutReset(elapsed) ==
  /\ \/ /\ link_state = "Handshaking"
        /\ handshake_elapsed + elapsed >= RetryInterval
        /\ Count("handshake_retries")
        /\ SendHello
     \/ /\ ~(link_state = "Handshaking" /\ handshake_elapsed + elapsed >= RetryInterval)
        /\ UNCHANGED <<output, output_message_count, counters>>
  /\ handshake_elapsed' =
       IF link_state = "Handshaking" THEN handshake_elapsed + elapsed ELSE 0
  /\ UNCHANGED <<link_state, inbound, screen_locked, current_display>>

TickForgetful(elapsed) ==
  /\ \/ /\ link_state = "Handshaking" /\ elapsed >= RetryInterval
        /\ handshake_elapsed' = 0
        /\ Count("handshake_retries")
        /\ SendHello
     \/ /\ ~(link_state = "Handshaking" /\ elapsed >= RetryInterval)
        /\ handshake_elapsed' = IF link_state = "Handshaking" THEN elapsed ELSE 0
        /\ UNCHANGED <<output, output_message_count, counters>>
  /\ UNCHANGED <<link_state, inbound, screen_locked, current_display>>

(* remote_session_tick                                                     *)
Tick(elapsed) ==
  /\ \/ /\ link_state # "Handshaking"
        /\ handshake_elapsed' = 0
        /\ UNCHANGED <<output, output_message_count, counters>>
     \/ /\ link_state = "Handshaking"
        /\ handshake_elapsed + elapsed < RetryInterval
        /\ handshake_elapsed' = handshake_elapsed + elapsed
        /\ UNCHANGED <<output, output_message_count, counters>>
     \/ /\ link_state = "Handshaking"
        /\ handshake_elapsed + elapsed >= RetryInterval
        /\ handshake_elapsed' = 0
        /\ Count("handshake_retries")
        /\ SendHello
  /\ UNCHANGED <<link_state, inbound, screen_locked, current_display>>

(* Mutant: closing the port leaves the output for later.                   *)
PortClosedKeepingOutput ==
  /\ IF link_state # "LinkDown" THEN Count("reconnections") ELSE UNCHANGED counters
  /\ inbound' = EmptyAssembler
  /\ current_display' = BlankRecord
  /\ link_state' = "LinkDown"
  /\ UNCHANGED <<screen_locked, output, output_message_count, handshake_elapsed>>

(* remote_session_port_closed; the retry clock is left as it is.           *)
PortClosed ==
  /\ IF link_state # "LinkDown" THEN Count("reconnections") ELSE UNCHANGED counters
  /\ inbound' = EmptyAssembler
  /\ output' = <<>>
  /\ output_message_count' = 0
  /\ current_display' = BlankRecord
  /\ link_state' = "LinkDown"
  /\ UNCHANGED <<screen_locked, handshake_elapsed>>

(* Mutant: a refusal is heeded in every state.                             *)
HandleDisplayRefusable(record) ==
  \/ /\ record.error = "BAD_VERSION"
     /\ link_state' = "Incompatible"
     /\ Count("version_mismatches")
     /\ UNCHANGED current_display
  \/ /\ record.error # "BAD_VERSION"
     /\ link_state' = "Connected"
     /\ current_display' = record
     /\ UNCHANGED counters

(***************************************************************************)
(* handle_display: BAD_VERSION refuses a link that is not up; every other  *)
(* record is an acceptance and replaces the one before it.                 *)
(***************************************************************************)
HandleDisplay(record) ==
  \/ /\ link_state # "Connected" /\ record.error = "BAD_VERSION"
     /\ link_state' = "Incompatible"
     /\ Count("version_mismatches")
     /\ UNCHANGED current_display
  \/ /\ link_state = "Connected" \/ record.error # "BAD_VERSION"
     /\ link_state' = "Connected"
     /\ current_display' = record
     /\ UNCHANGED counters

(***************************************************************************)
(* remote_session_receive, called with one unit.  A call with more is as   *)
(* many of these in a row: the loop keeps nothing between two bytes but    *)
(* the assembler.                                                          *)
(***************************************************************************)
Receive(u) ==
  LET outcome == FeedOutcome(inbound, u)
  IN  /\ inbound' = FeedNext(inbound, u)
      /\ \/ /\ outcome.kind = "INCOMPLETE"
            /\ UNCHANGED <<link_state, current_display, counters>>
         \/ /\ outcome.kind = "MESSAGE"
            /\ outcome.message.verb = "DISPLAY"
            /\ HandleDisplay(outcome.message)
         \/ /\ \/ outcome.kind = "ERROR"
               \/ outcome.kind = "MESSAGE" /\ outcome.message.verb # "DISPLAY"
            /\ Count("malformed_received")
            /\ UNCHANGED <<link_state, current_display>>
      /\ UNCHANGED <<screen_locked, output, output_message_count, handshake_elapsed>>

(* remote_session_report_event                                             *)
ReportEvent(press, foregrounded) ==
  /\ \/ /\ link_state # "Connected"
        /\ UNCHANGED <<output, output_message_count, counters>>
     \/ /\ link_state = "Connected"
        /\ ~foregrounded \/ screen_locked
        /\ Count("events_dropped_by_guard")
        /\ UNCHANGED <<output, output_message_count>>
     \/ /\ link_state = "Connected"
        /\ foregrounded /\ ~screen_locked
        /\ QueueMessage(output, output_message_count, Button(press))
        /\ IF Fits(output, output_message_count, Button(press))
           THEN UNCHANGED counters
           ELSE Count("events_dropped_by_output_full")
  /\ UNCHANGED <<link_state, inbound, screen_locked, current_display, handshake_elapsed>>

(* Mutant: STATE reports the lock as it was.                               *)
LockChangedReportingOld(locked) ==
  /\ screen_locked' = locked
  /\ IF link_state # "Connected"
     THEN UNCHANGED <<output, output_message_count>>
     ELSE QueueMessage(output, output_message_count, State(screen_locked))
  /\ UNCHANGED <<link_state, inbound, current_display, handshake_elapsed, counters>>

(* remote_session_lock_changed; a STATE that does not fit is not counted.  *)
LockChanged(locked) ==
  /\ screen_locked' = locked
  /\ \/ /\ link_state # "Connected"
        /\ UNCHANGED <<output, output_message_count>>
     \/ /\ link_state = "Connected"
        /\ QueueMessage(output, output_message_count, State(locked))
  /\ UNCHANGED <<link_state, inbound, current_display, handshake_elapsed, counters>>

(* remote_session_take_output; the messages left are counted afresh.       *)
Taken(capacity) == IF Len(output) < capacity THEN Len(output) ELSE capacity

(* Mutants: no recount, and one that takes a message begun for one gone.   *)
TakeOutputWithoutRecount(capacity) ==
  /\ output' = SubSeq(output, Taken(capacity) + 1, Len(output))
  /\ output_message_count' = IF output' = <<>> THEN 0 ELSE output_message_count
  /\ UNCHANGED <<link_state, inbound, screen_locked, current_display,
                 handshake_elapsed, counters>>

TakeOutputCountingWhole(capacity) ==
  /\ output' = SubSeq(output, Taken(capacity) + 1, Len(output))
  /\ output_message_count' =
       Cardinality({i \in DOMAIN output' : output'[i].at = 1})
  /\ UNCHANGED <<link_state, inbound, screen_locked, current_display,
                 handshake_elapsed, counters>>

TakeOutput(capacity) ==
  /\ output' = SubSeq(output, Taken(capacity) + 1, Len(output))
  /\ output_message_count' = Cardinality(Terminators(output'))
  /\ UNCHANGED <<link_state, inbound, screen_locked, current_display,
                 handshake_elapsed, counters>>

-----------------------------------------------------------------------------
(***************************************************************************)
(* The calls the application and the transport make.  The transport feeds  *)
(* received bytes only while it believes the port open, which is while the *)
(* link is not down; everything else may come at any time.                 *)
(***************************************************************************)
HostReceive == link_state # "LinkDown" /\ \E m \in Inbound : \E i \in DOMAIN Units(m) : Receive(Units(m)[i])
AppTick     == \E elapsed \in 0 .. MaxElapsed : Tick(elapsed)
AppReport   == \E press \in Press, foregrounded \in BOOLEAN : ReportEvent(press, foregrounded)
AppLock     == \E locked \in BOOLEAN : LockChanged(locked)
Drain       == TakeOutput(PacketUnits)

Next ==
  \/ PortOpened
  \/ PortClosed
  \/ HostReceive
  \/ AppTick
  \/ AppReport
  \/ AppLock
  \/ Drain

Spec == Init /\ [][Next]_vars

(* A tick of the clock that shows time has passed.                         *)
TimePasses == \E elapsed \in 1 .. MaxElapsed : Tick(elapsed)

-----------------------------------------------------------------------------
(* Every field of the session has the values of its C type that are used.  *)
TypeOK ==
  /\ link_state \in LinkState
  /\ inbound \in Assembler
  /\ screen_locked \in BOOLEAN
  /\ current_display \in DisplayMessage
  /\ output \in Seq(Unit)
  /\ output_message_count \in 0 .. QueueDepth
  /\ handshake_elapsed \in 0 .. RetryInterval - 1
  /\ counters \in [Counter -> 0 .. CounterModulus - 1]

(***************************************************************************)
(* The incremental message count and the recount of take_output agree: the *)
(* count is the number of line feeds in the buffer, whatever mixture of    *)
(* queueing, partial draining, clearing and retrying came before.          *)
(***************************************************************************)
HonestCount == output_message_count = Cardinality(Terminators(output))

(***************************************************************************)
(* The byte backstop of queue_message never binds: while the queue has a   *)
(* message to spare the buffer has room for the longest message, even with *)
(* a message left over from a partial drain in front.                      *)
(***************************************************************************)
BackstopNeverBinds ==
  output_message_count < QueueDepth => Len(output) + MaxLineUnits <= OutputCapacity

(***************************************************************************)
(* What remote_session_tick takes for granted when it clears the output:   *)
(* while handshaking, the output is one whole HELLO or nothing.            *)
(***************************************************************************)
OnlyHelloWhileHandshaking ==
  link_state = "Handshaking" =>
    output = <<>> \/ \E locked \in BOOLEAN : output = Units(Hello(locked))

(***************************************************************************)
(* A press is never kept for later: a BUTTON, or the rest of one, waits in *)
(* the output only while the link it was pressed on is up.                 *)
(***************************************************************************)
NoPressWaitsForALink ==
  link_state # "Connected" =>
    \A i \in DOMAIN output : output[i].of.verb # "BUTTON"

(***************************************************************************)
(* The sensitive payload is gone as soon as the link drops, and a link     *)
(* that was never accepted, or was refused, never shows one.               *)
(***************************************************************************)
PayloadOnlyWhileConnected ==
  link_state # "Connected" => current_display = BlankRecord

(***************************************************************************)
(* A connection has one direction: it is accepted or refused out of a      *)
(* handshake, and only a drop or a fresh open ends it.  In particular      *)
(* nothing the host sends takes a connected link out of that state.        *)
(***************************************************************************)
OnlyAnOpenOrADropEndsAConnection ==
  [][link_state = "Connected" /\ link_state' # "Connected"
       => current_display' = BlankRecord /\ inbound' = EmptyAssembler
          /\ \A i \in DOMAIN output' : output'[i].of.verb = "HELLO"]_vars

(***************************************************************************)
(* STATE is sent when the screen is locked or unlocked (PROTOCOL.md:65):   *)
(* on a connection each change of the lock is put behind what waits.       *)
(***************************************************************************)
LockIsTold ==
  [][link_state = "Connected" /\ screen_locked' # screen_locked
       => output' = output \o Units(State(screen_locked'))]_vars

(***************************************************************************)
(* A handshake is never given up: as long as the host does not answer,     *)
(* another HELLO is put out, however often that happened before.           *)
(***************************************************************************)
HandshakeIsRetried ==
  link_state = "Handshaking" /\ output = <<>>
    ~> link_state # "Handshaking" \/ output # <<>>
=============================================================================
