----------------------------- MODULE RemoteCodec -----------------------------
(***************************************************************************)
(* The spelling of a message: the tables of remote_protocol_tables.c, the  *)
(* encoder and the parser of remote_protocol.c, as functions.              *)
(*                                                                         *)
(* A line is a sequence of bytes, except that a name of the tables (a      *)
(* verb, a field, a value of an enumeration) is one symbol above the bytes *)
(* and has its spelling's width: the program compares names as wholes.     *)
(* Names are not looked for inside a text or a token.                      *)
(***************************************************************************)
EXTENDS Integers, FiniteSets, Sequences, SequencesExt, RemoteScan

CONSTANTS
  MaxMessageLength,    \* REMOTE_PROTOCOL_MAXIMUM_MESSAGE_LENGTH, line feed included
  MaxTextLength,       \* REMOTE_PROTOCOL_MAX_TEXT_LENGTH, decoded
  MaxTokenLength,      \* REMOTE_PROTOCOL_MAXIMUM_PERIPHERAL_TOKEN_LENGTH
  MaxProtocolVersion,  \* REMOTE_PROTOCOL_MAXIMUM_PROTOCOL_VERSION
  MaxDeliveredCount,   \* REMOTE_PROTOCOL_MAXIMUM_DELIVERED_COUNT
  UintMax,             \* UINT32_MAX
  MaxIntegerDigits     \* MAX_INTEGER_DIGITS, the digits of UINT32_MAX

ASSUME CodecAssumption ==
  /\ {MaxMessageLength, MaxTextLength, MaxTokenLength} \subseteq Nat \ {0}
  /\ {MaxProtocolVersion, MaxDeliveredCount} \subseteq 0 .. UintMax
  /\ {UintMax, MaxIntegerDigits} \subseteq Nat \ {0}

-----------------------------------------------------------------------------
(* The tables.                                                             *)
EventValues  == <<"CENTER_SHORT", "CENTER_LONG", "LEFT_SHORT", "RIGHT_SHORT">>
StatusValues == <<"READY", "PRESENTING", "GUEST_CONNECTED", "TERMINATING", "RECOVERY_REQUIRED">>
PageValues   == <<"NONE", "WIFI", "GUEST">>
ErrorValues  == <<"NONE", "BAD_VERSION", "NO_HELLO", "MALFORMED", "BAD_VERB", "BAD_FIELD",
                  "NO_FIELD", "BAD_VALUE", "TOO_LONG", "RATE_LIMIT", "GUARD", "ACTIVE",
                  "NO_SESSION", "BAD_STATE", "NOT_ALLOWED", "START_FAIL", "END_FAIL">>

IntegerField(name, minimum, maximum) ==
  [name |-> name, type |-> "INTEGER", values |-> <<>>, minimum |-> minimum, maximum |-> maximum]
BooleanField(name) ==
  [name |-> name, type |-> "BOOLEAN", values |-> <<>>, minimum |-> 0, maximum |-> 0]
EnumerationField(name, values) ==
  [name |-> name, type |-> "ENUMERATION", values |-> values, minimum |-> 0, maximum |-> 0]
TokenField(name, longest) ==
  [name |-> name, type |-> "TOKEN", values |-> <<>>, minimum |-> 0, maximum |-> longest]
TextField(name, longest) ==
  [name |-> name, type |-> "TEXT", values |-> <<>>, minimum |-> 0, maximum |-> longest]

Verbs == {"HELLO", "BUTTON", "STATE", "DISPLAY"}

VerbDescriptor(verb) ==
  CASE verb = "HELLO" ->
         <<IntegerField("version", 1, MaxProtocolVersion),
           TokenField("peripheral", MaxTokenLength), BooleanField("locked")>>
    [] verb = "BUTTON" ->
         <<EnumerationField("event", EventValues),
           BooleanField("foregrounded"), BooleanField("unlocked")>>
    [] verb = "STATE" -> <<BooleanField("locked")>>
    [] verb = "DISPLAY" ->
         <<EnumerationField("status", StatusValues), EnumerationField("page", PageValues),
           TextField("payload", MaxTextLength),
           IntegerField("delivered", 0, MaxDeliveredCount),
           EnumerationField("error", ErrorValues)>>

Descriptors == [verb \in Verbs |-> VerbDescriptor(verb)]

Names ==
  <<"HELLO", "BUTTON", "STATE", "DISPLAY", "version", "peripheral", "locked", "event",
    "foregrounded", "unlocked", "status", "page", "payload", "delivered", "error">>
  \o EventValues \o StatusValues \o PageValues \o ErrorValues

(* What their spellings take.                                              *)
ASSUME NamesAssumption ==
  /\ \A i \in DOMAIN Names : Len(Names[i]) \in 1 .. 17
  /\ <<Len("HELLO"), Len("version"), Len("peripheral"), Len("locked")>> = <<5, 7, 10, 6>>
  /\ <<Len("BUTTON"), Len("event"), Len("foregrounded"), Len("unlocked")>> = <<6, 5, 12, 8>>
  /\ <<Len("STATE"), Len("DISPLAY")>> = <<5, 7>>
  /\ <<Len("status"), Len("page"), Len("payload"), Len("delivered"), Len("error")>> = <<6, 4, 7, 9, 5>>
  /\ \A i \in DOMAIN EventValues : Len(EventValues[i]) <= 12
  /\ \A i \in DOMAIN StatusValues : Len(StatusValues[i]) <= 17
  /\ \A i \in DOMAIN PageValues : Len(PageValues[i]) <= 5
  /\ \A i \in DOMAIN ErrorValues : Len(ErrorValues[i]) <= 11

Symbols == [name \in ToSet(Names) |-> 255 + CHOOSE i \in DOMAIN Names : Names[i] = name]

Word(name) == Symbols[name]

(* What a line takes on the wire: a byte each, a symbol its spelling.      *)
WidthOf(c) == IF c > 255 THEN Len(Names[c - 255]) ELSE 1

AddWidth(width, c) == width + WidthOf(c)

Width(line) == ScanOf(AddWidth, 0, line)

-----------------------------------------------------------------------------
(* The characters.                                                         *)
LineFeed   == 10
Space      == 32
Percent    == 37
EqualsSign == 61

Digit(c)           == c \in 48 .. 57
UpperCase(c)       == c \in 65 .. 90
LowerCase(c)       == c \in 97 .. 122
IsPrintable(c)     == c \in 32 .. 126 \/ c > 255
IsUnreserved(c)    == Digit(c) \/ UpperCase(c) \/ LowerCase(c) \/ c \in {45, 46, 95, 126}
IsTokenCharacter(c) == LowerCase(c) \/ Digit(c) \/ c = 45

(* What a field may hold, shared by the setter, the encoder, the parser.   *)
TextIsValid(field, text) ==
  /\ Len(text) <= field.maximum
  /\ field.type = "TOKEN" => text # <<>> /\ \A i \in DOMAIN text : IsTokenCharacter(text[i])
  /\ field.type = "TEXT"  => \A i \in DOMAIN text : text[i] \in 32 .. 126

IntegerIsValid(field, value) ==
  CASE field.type = "INTEGER"     -> value \in field.minimum .. field.maximum
    [] field.type = "BOOLEAN"     -> value \in 0 .. 1
    [] field.type = "ENUMERATION" -> value \in 0 .. Len(field.values) - 1

IsText(field) == field.type \in {"TOKEN", "TEXT"}

ValueIsValid(field, value) ==
  IF IsText(field) THEN TextIsValid(field, value.text) ELSE IntegerIsValid(field, value.integer)

-----------------------------------------------------------------------------
(* A message: its verb and, as in the program, an integer and a text for   *)
(* every field whatever the field's type.                                  *)
Initialised(verb) ==
  [verb |-> verb, fields |-> [i \in DOMAIN Descriptors[verb] |-> [integer |-> 0, text |-> <<>>]]]

(* remote_protocol_message_set_text: what does not fit empties the field.  *)
SetText(message, i, text) ==
  LET field == Descriptors[message.verb][i]
  IN  IF ~IsText(field) THEN message
      ELSE [message EXCEPT !.fields[i].text = IF TextIsValid(field, text) THEN text ELSE <<>>]

SetInteger(message, i, value) == [message EXCEPT !.fields[i].integer = value]

-----------------------------------------------------------------------------
(* The encoder.                                                            *)
Digits[value \in Nat] ==
  IF value < 10 THEN <<48 + value>> ELSE Append(Digits[value \div 10], 48 + (value % 10))

(* There is room for the digits of every number (remote_protocol.c:11).    *)
ASSUME DigitsAssumption == Len(Digits[UintMax]) <= MaxIntegerDigits

(* Mutant: escapes in lower case.                                          *)
HexDigitLower(n) == IF n < 10 THEN 48 + n ELSE 87 + n

HexDigit(n) == IF n < 10 THEN 48 + n ELSE 55 + n

EscapedByte(c) ==
  IF IsUnreserved(c) THEN <<c>> ELSE <<Percent, HexDigit(c \div 16), HexDigit(c % 16)>>

PercentEncode(text) == FlattenSeq([i \in DOMAIN text |-> EscapedByte(text[i])])

EncodeValue(field, value) ==
  CASE field.type \in {"INTEGER", "BOOLEAN"} -> Digits[value.integer]
    [] field.type = "ENUMERATION" -> <<Word(field.values[value.integer + 1])>>
    [] field.type = "TOKEN" -> value.text
    [] field.type = "TEXT"  -> PercentEncode(value.text)

LineOf(message) ==
  LET fields == Descriptors[message.verb]
  IN  <<Word(message.verb)>>
      \o FlattenSeq([i \in DOMAIN fields |->
           <<Space, Word(fields[i].name), EqualsSign>> \o EncodeValue(fields[i], message.fields[i])])
      \o <<LineFeed>>

MessageIsValid(message) ==
  LET fields == Descriptors[message.verb]
  IN  \A i \in DOMAIN fields : ValueIsValid(fields[i], message.fields[i])

(* remote_protocol_encode: the line, or nothing when it is refused.        *)
Encode(message, capacity) ==
  IF /\ MessageIsValid(message)
     /\ Width(LineOf(message)) <= Min({capacity, MaxMessageLength})
  THEN LineOf(message) ELSE <<>>

-----------------------------------------------------------------------------
(* The parser.  A decoder returns the error, NONE when there is none, and  *)
(* what it decoded.                                                        *)
Decoded(value)  == [error |-> "NONE", value |-> value]
Refused(error)  == [error |-> error, value |-> [integer |-> 0, text |-> <<>>]]

HexValue(c) ==
  IF Digit(c) THEN c - 48 ELSE IF c \in 65 .. 70 THEN c - 55 ELSE -1

(***************************************************************************)
(* decode_text.  The scan holds the text so far and the escape begun; the  *)
(* first fault ends it.  An escape cut short by the end is one too.        *)
(***************************************************************************)
TakeByte(scan, c) ==
  IF c \notin 32 .. 126 THEN [scan EXCEPT !.error = "MALFORMED"]
  ELSE IF Len(scan.text) >= MaxTextLength THEN [scan EXCEPT !.error = "BAD_VALUE"]
  ELSE [scan EXCEPT !.text = Append(@, c)]

ByteOf(high, low) ==
  IF HexValue(high) < 0 \/ HexValue(low) < 0 THEN -1 ELSE 16 * HexValue(high) + HexValue(low)

ScanByte(scan, c) ==
  LET raw == Append(scan.escape, c)
  IN  IF scan.error # "NONE" THEN scan
      ELSE IF raw[1] # Percent THEN TakeByte(scan, IF IsUnreserved(c) THEN c ELSE -1)
      ELSE IF Len(raw) < 3 THEN [scan EXCEPT !.escape = raw]
      ELSE TakeByte([scan EXCEPT !.escape = <<>>], ByteOf(raw[2], raw[3]))

DecodeText(field, raw) ==
  LET scan == ScanOf(ScanByte, [error |-> "NONE", text |-> <<>>, escape |-> <<>>], raw)
  IN  IF scan.error # "NONE" THEN Refused(scan.error)
      ELSE IF scan.escape # <<>> THEN Refused("MALFORMED")
      ELSE IF ~TextIsValid(field, scan.text) THEN Refused("BAD_VALUE")
      ELSE Decoded([integer |-> 0, text |-> scan.text])

DecodeToken(field, raw) ==
  IF TextIsValid(field, raw) THEN Decoded([integer |-> 0, text |-> raw])
  ELSE Refused("BAD_VALUE")

(* decode_unsigned: one spelling per number; -1 for none.                  *)
Times10Plus(value, digit) == (value * 10 + digit) % (UintMax + 1)

AppendDigit(value, c) ==
  IF value < 0 \/ ~Digit(c) THEN -1
  ELSE IF value > (UintMax - (c - 48)) \div 10 THEN -1
  ELSE Times10Plus(value, c - 48)

(* Mutant: a number with leading zeros.                                    *)
DecodeUnsignedPadded(raw) ==
  IF Len(raw) \notin 1 .. MaxIntegerDigits THEN -1 ELSE ScanOf(AppendDigit, 0, raw)

DecodeUnsigned(raw) ==
  IF \/ Len(raw) \notin 1 .. MaxIntegerDigits
     \/ Len(raw) > 1 /\ raw[1] = 48
  THEN -1 ELSE ScanOf(AppendDigit, 0, raw)

DecodeEnumeration(field, raw) ==
  LET matches == {i \in DOMAIN field.values : raw = <<Word(field.values[i])>>}
  IN  IF matches = {} THEN -1 ELSE Min(matches) - 1

DecodeInteger(field, value) ==
  IF value >= 0 /\ IntegerIsValid(field, value)
  THEN Decoded([integer |-> value, text |-> <<>>]) ELSE Refused("BAD_VALUE")

DecodeFieldValue(field, raw) ==
  CASE field.type \in {"INTEGER", "BOOLEAN"} -> DecodeInteger(field, DecodeUnsigned(raw))
    [] field.type = "ENUMERATION" -> DecodeInteger(field, DecodeEnumeration(field, raw))
    [] field.type = "TOKEN" -> DecodeToken(field, raw)
    [] field.type = "TEXT"  -> DecodeText(field, raw)

-----------------------------------------------------------------------------
(* The tokens of a line: what stands between its separators.               *)
Separate(tokens, c) ==
  IF c = Space THEN Append(tokens, <<>>)
  ELSE [tokens EXCEPT ![Len(tokens)] = Append(@, c)]

Tokens(line) == ScanOf(Separate, <<<<>>>>, line)

NameEnd(token) == SelectInSeq(token, LAMBDA c : c = EqualsSign)
NameOf(token)  == SubSeq(token, 1, NameEnd(token) - 1)
ValueOf(token) == SubSeq(token, NameEnd(token) + 1, Len(token))

FieldIndex(verb, token) ==
  SelectInSeq(Descriptors[verb], LAMBDA field : NameOf(token) = <<Word(field.name)>>)

(***************************************************************************)
(* What the parser makes of token k, its name then its value, when those   *)
(* before it were accepted.                                                *)
(***************************************************************************)
DecodeTokenAt(verb, tokens, k) ==
  LET token == tokens[k]
      i     == FieldIndex(verb, token)
  IN  IF NameEnd(token) <= 1 THEN Refused("MALFORMED")
      ELSE IF i = 0 \/ \E j \in 2 .. k - 1 : FieldIndex(verb, tokens[j]) = i
           THEN Refused("BAD_FIELD")
      ELSE DecodeFieldValue(Descriptors[verb][i], ValueOf(token))

ParseError(error) == [kind |-> "ERROR", error |-> error]

(* remote_protocol_parse_line, on a line without its line feed.            *)
ParseFields(verb, tokens) ==
  LET results == [k \in 2 .. Len(tokens) |-> DecodeTokenAt(verb, tokens, k)]
      faults  == {k \in DOMAIN results : results[k].error # "NONE"}
      TokenOf(i) == CHOOSE k \in DOMAIN results : FieldIndex(verb, tokens[k]) = i
      fields  == DOMAIN Descriptors[verb]
      seen    == {FieldIndex(verb, tokens[k]) : k \in DOMAIN results}
  IN  IF faults # {} THEN ParseError(results[Min(faults)].error)
      ELSE IF ~(fields \subseteq seen) THEN ParseError("NO_FIELD")
      ELSE [kind |-> "MESSAGE", message |->
             [verb |-> verb, fields |-> [i \in fields |-> results[TokenOf(i)].value]]]

ParseLine(line) ==
  LET tokens == Tokens(line)
      named  == {verb \in Verbs : tokens[1] = <<Word(verb)>>}
  IN  IF \/ \E i \in DOMAIN line : ~IsPrintable(line[i])
         \/ \E k \in DOMAIN tokens : tokens[k] = <<>>
      THEN ParseError("MALFORMED")
      ELSE IF named = {} THEN ParseError("BAD_VERB")
      ELSE ParseFields(CHOOSE verb \in named : TRUE, tokens)

(* remote_protocol_feed_byte over a whole line, up to its line feed.       *)
ReceiveLine(line) ==
  IF Width(line) >= MaxMessageLength THEN ParseError("TOO_LONG") ELSE ParseLine(line)

VersionIsSupported(version) == version = 1
=============================================================================
