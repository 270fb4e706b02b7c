----------------------------- MODULE RemoteWire -----------------------------
(***************************************************************************)
(* The wire between the peripheral and the appliance: the messages of      *)
(* protocol/remote_protocol.h, the bytes they are sent as, and the line    *)
(* assembler that both ends feed (remote_protocol_feed_byte).              *)
(*                                                                         *)
(* Bytes are abstracted to "units".  A message is sent as MessageUnits of  *)
(* them, the last one carrying the line feed; a unit remembers the message *)
(* and the position it was cut from.  That keeps everything the control    *)
(* of the program depends on: a message may straddle a packet boundary, a  *)
(* line may lack its beginning, two halves may run together, and only a    *)
(* line feed ends a line.  The spelling of the fields is left out.         *)
(***************************************************************************)
EXTENDS Integers, Sequences, FiniteSets

CONSTANTS
  Press,         \* what a BUTTON says: the event, and whatever tells presses apart
  Screen,        \* what a DISPLAY shows: status, page, payload, delivered count
  BlankScreen,   \* READY, no page, empty payload, nothing delivered
  MessageUnits,  \* the encoded length of a message of each verb, in units
  MaxLineUnits   \* REMOTE_PROTOCOL_MAXIMUM_MESSAGE_LENGTH, in units

Verb == {"HELLO", "BUTTON", "STATE", "DISPLAY", "NOISE"}

(***************************************************************************)
(* A message never exceeds the bound (remote_protocol_encode refuses one   *)
(* that would), except NOISE, which stands for every line that is no       *)
(* message at all.                                                         *)
(***************************************************************************)
ASSUME WireAssumption ==
  /\ BlankScreen \in Screen
  /\ MessageUnits \in [Verb -> Nat \ {0}]
  /\ MaxLineUnits \in Nat \ {0}
  /\ \A verb \in Verb \ {"NOISE"} : MessageUnits[verb] <= MaxLineUnits

-----------------------------------------------------------------------------
(* The error codes of a DISPLAY that either end tells apart.               *)
Error == {"NONE", "BAD_VERSION", "NO_HELLO", "MALFORMED", "TOO_LONG",
          "BAD_VERB", "ACTIVE", "NO_SESSION", "GUARD"}

HelloMessage   == [verb : {"HELLO"}, locked : BOOLEAN]
ButtonMessage  == [verb : {"BUTTON"}, press : Press]
StateMessage   == [verb : {"STATE"}, locked : BOOLEAN]
DisplayMessage == [verb : {"DISPLAY"}, screen : Screen, error : Error]
NoiseMessage   == [verb : {"NOISE"}]

Message ==
  UNION {HelloMessage, ButtonMessage, StateMessage, DisplayMessage, NoiseMessage}

Hello(locked)          == [verb |-> "HELLO", locked |-> locked]
Button(press)          == [verb |-> "BUTTON", press |-> press]
State(locked)          == [verb |-> "STATE", locked |-> locked]
Display(screen, error) == [verb |-> "DISPLAY", screen |-> screen, error |-> error]
Noise                  == [verb |-> "NOISE"]

(* The record of a session or of an appliance that has nothing to show.    *)
BlankRecord == Display(BlankScreen, "NONE")

-----------------------------------------------------------------------------
Unit == [of : Message, at : Nat \ {0}]

(* remote_protocol_encode: the message as it goes on the wire.             *)
Units(m) == [i \in 1 .. MessageUnits[m.verb] |-> [of |-> m, at |-> i]]

(* The unit that carries the line feed.                                    *)
EndsLine(u) == u.at = MessageUnits[u.of.verb]

(* The line feeds in a buffer, which is how its messages are counted.      *)
Terminators(units) == {i \in DOMAIN units : EndsLine(units[i])}

(***************************************************************************)
(* A buffer holds whole messages one after the other, except that the      *)
(* beginning of the first may already be gone.                             *)
(***************************************************************************)
Follows(v, u) ==
  IF EndsLine(u) THEN v.at = 1 ELSE v.of = u.of /\ v.at = u.at + 1

WellFramed(units) ==
  /\ units # <<>> => EndsLine(units[Len(units)])
  /\ \A i \in 1 .. Len(units) - 1 : Follows(units[i + 1], units[i])

-----------------------------------------------------------------------------
(* The line assembler: the line so far, and whether it outgrew the bound.  *)
Assembler == [line : Seq(Unit), overlong : BOOLEAN]

EmptyAssembler == [line |-> <<>>, overlong |-> FALSE]

(***************************************************************************)
(* What a line feed makes of the line before it: remote_protocol_parse_line*)
(* accepts exactly the encodings of messages, and refuses a line cut short *)
(* at either end, lines run together, and anything else.  MALFORMED stands *)
(* for all five codes it refuses a line with; neither end acts on which.   *)
(***************************************************************************)
LineParses(line) ==
  LET m == line[1].of IN m.verb # "NOISE" /\ line = Units(m)

(* remote_protocol_feed_byte, the outcome of feeding one more unit.        *)
FeedOutcome(assembler, u) ==
  LET line == Append(assembler.line, u)
  IN  IF ~EndsLine(u)          THEN [kind |-> "INCOMPLETE"]
      ELSE IF assembler.overlong THEN [kind |-> "ERROR", error |-> "TOO_LONG"]
      ELSE IF ~LineParses(line)  THEN [kind |-> "ERROR", error |-> "MALFORMED"]
      ELSE [kind |-> "MESSAGE", message |-> line[1].of]

(* remote_protocol_feed_byte, what the assembler keeps.                    *)
FeedNext(assembler, u) ==
  IF EndsLine(u) THEN EmptyAssembler
  ELSE IF Len(assembler.line) + 1 >= MaxLineUnits
       THEN [assembler EXCEPT !.overlong = TRUE]
       ELSE [assembler EXCEPT !.line = Append(@, u)]
=============================================================================
