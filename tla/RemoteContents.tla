--------------------------- MODULE RemoteContents ---------------------------
(***************************************************************************)
(* What one record says, from the appliance's mind to the guest's phone:   *)
(* a message is made from what is meant, encoded to a line, perhaps        *)
(* damaged on the way, parsed, and shown as a screen, a code and a tag.    *)
(* The control around these steps (links, queues, retries) is in the other *)
(* modules; here every step is a function and only the contents matter.    *)
(*                                                                         *)
(* A text is spelled with scaled bounds.  The code's size depends on the   *)
(* real length of the payload, so the delivery of a payload that is not    *)
(* empty chooses a size for it among PayloadSizes.                         *)
(***************************************************************************)
EXTENDS RemoteCodec, RemoteNdef, RemoteLayout

CONSTANTS
  Meanings,      \* what the appliance may mean to show: a network, an address, or nothing
  Drafts,        \* the messages made without one, valid or not, a verb and values for its fields
  Garbage,       \* lines that were never encoded
  EditBytes,     \* the bytes that damage puts in a line
  MaxEdits,      \* how often a line is damaged
  Fragile,       \* the lines that damage begins with
  PayloadSizes   \* kinds and lengths of payloads, as the code sees them

ASSUME ContentsAssumption == PayloadSizes \subseteq [kind : CodeKind, length : Nat]

(* A line is of the codec's symbols; a draft gives an integer and a text   *)
(* for every field of its verb, as the program's message has them.         *)
ASSUME InputsAssumption ==
  /\ Garbage \subseteq Seq(0 .. 255 + Len(Names)) /\ EditBytes \subseteq 0 .. 255
  /\ \A draft \in Drafts :
       /\ draft.verb \in Verbs /\ DOMAIN draft.values = DOMAIN Descriptors[draft.verb]
       /\ \A i \in DOMAIN draft.values :
            draft.values[i] \in [integer : 0 .. UintMax, text : Seq(0 .. 255)]

(* A meaning is in the bytes that a text of the protocol can have.         *)
ASSUME MeaningsAssumption ==
  \A meaning \in Meanings :
    \/ meaning = [page |-> "NONE"]
    \/ meaning \in [page : {"WIFI"}, ssid : Seq(32 .. 126), key : Seq(32 .. 126)]
    \/ meaning \in [page : {"GUEST"}, address : Seq(32 .. 126)]

(***************************************************************************)
(* The buffers are large enough for each other: a line for the longest     *)
(* HELLO and for a record with the longest text unescaped, a text for the  *)
(* network that fits a credential with all of it escaped, a tag for that   *)
(* credential (remote_protocol_tables.h:23-34, remote_ndef.h:34-36).       *)
(***************************************************************************)
ASSUME RoomAssumption ==
  /\ MaxDeliveredCount <= 9999
  /\ 86 + MaxTextLength <= MaxMessageLength
  /\ 36 + MaxIntegerDigits + MaxTokenLength <= MaxMessageLength
  /\ 18 + 2 * (MaxSsidLength + MaxNetworkKeyLength) <= MaxTextLength
  /\ 18 + MaxSsidLength + MaxNetworkKeyLength <= ShortRecordMaxPayload
  /\ 44 + MaxSsidLength + MaxNetworkKeyLength <= MessageCapacity
  /\ MaxSecurityTypeLength >= 3

VARIABLES
  meant,    \* what the message says
  message,  \* the message, before it is encoded
  line,     \* what is on the wire, without its line feed
  edits,    \* how often it was damaged
  display,  \* display_state of the application
  screen,   \* composed_layout of the application
  tag       \* presented_message of the application

vars == <<meant, message, line, edits, display, screen, tag>>

-----------------------------------------------------------------------------
(* What the appliance spells a network as; the grammar is remote_ndef.h's. *)
Reserved == {Backslash, Semicolon, Colon, 44, 34}

WifiEscape(text) ==
  FlattenSeq([i \in DOMAIN text |->
    IF text[i] \in Reserved THEN <<Backslash, text[i]>> ELSE <<text[i]>>])

WifiCode(ssid, key) ==
  WifiStart \o <<KeyT, Colon>> \o Wpa \o <<Semicolon, KeyS, Colon>> \o WifiEscape(ssid)
  \o <<Semicolon, KeyP, Colon>> \o WifiEscape(key) \o <<Semicolon, Semicolon>>

PayloadOf(meaning) ==
  CASE meaning.page = "WIFI"  -> WifiCode(meaning.ssid, meaning.key)
    [] meaning.page = "GUEST" -> meaning.address
    [] meaning.page = "NONE"  -> <<>>

IndexOf(values, value) == (CHOOSE i \in DOMAIN values : values[i] = value) - 1

(* A message from a verb and a value for each of its fields, in order.     *)
Drafted(verb, values) ==
  LET Set(m, i) ==
        IF IsText(Descriptors[verb][i]) THEN SetText(m, i, values[i].text)
        ELSE SetInteger(m, i, values[i].integer)
  IN  ScanOf(Set, Initialised(verb), [i \in DOMAIN values |-> i])

(* A presenting record with a meaning.                                     *)
RecordOf(meaning) ==
  LET blank == Initialised("DISPLAY")
      paged == SetInteger(blank, 2, IndexOf(PageValues, meaning.page))
  IN  SetText(SetInteger(paged, 1, IndexOf(StatusValues, "PRESENTING")), 3, PayloadOf(meaning))

-----------------------------------------------------------------------------
(* remote_session_display: what the device shows, over a link that is down *)
(* unless it says otherwise, and of a record only when it is connected.    *)
NoMeaning == [page |-> "NONE"]

LinkDownDisplay(locked) ==
  [status |-> "READY", page |-> "NONE", payload |-> <<>>, kind |-> "BYTE", length |-> 0,
   delivered |-> 0, error |-> "NONE", link_connected |-> FALSE, link_connecting |-> FALSE,
   link_incompatible |-> FALSE, screen_locked |-> locked, nfc_presenting |-> FALSE]

LinkStates == {"LINK_DOWN", "HANDSHAKING", "INCOMPATIBLE"}

DisplayWithoutLink(state, locked) ==
  [LinkDownDisplay(locked) EXCEPT !.link_connecting = (state = "HANDSHAKING"),
                                  !.link_incompatible = (state = "INCOMPATIBLE")]

DisplayOf(record, size, locked) ==
  LET field(i) == record.fields[i]
  IN  [LinkDownDisplay(locked) EXCEPT
         !.link_connected = TRUE,
         !.status    = StatusValues[field(1).integer + 1],
         !.page      = PageValues[field(2).integer + 1],
         !.payload   = field(3).text,
         !.kind      = size.kind,
         !.length    = size.length,
         !.delivered = field(4).integer,
         !.error     = ErrorValues[field(5).integer + 1]]

(* recompose_screen: composed once without a tag, which decides the tag,   *)
(* and once more when there is one, so that the screen can speak of it.    *)
TagFor(state, layout) ==
  IF ~layout.code_page_active THEN NoMessage
  ELSE IF state.page = "WIFI" THEN WifiMessage(state.payload) ELSE UriMessage(state.payload)

(* Mutant: composed only once.                                             *)
RecomposeOnce(state) ==
  LET first == Compose(state)
      made  == TagFor(state, first)
  IN  /\ tag' = made
      /\ display' = IF made = NoMessage THEN state ELSE [state EXCEPT !.nfc_presenting = TRUE]
      /\ screen' = first

Recompose(state) ==
  LET first == Compose(state)
      made  == TagFor(state, first)
      shown == [state EXCEPT !.nfc_presenting = TRUE]
  IN  /\ tag' = made
      /\ display' = IF made = NoMessage THEN state ELSE shown
      /\ screen' = IF made = NoMessage THEN first ELSE Compose(shown)

-----------------------------------------------------------------------------
Init ==
  /\ meant = NoMeaning /\ message = Initialised("DISPLAY")
  /\ line = <<>> /\ edits = 0
  /\ display = LinkDownDisplay(FALSE) /\ screen = Compose(display) /\ tag = NoMessage

(* One message goes through at a time, each from the first screen.         *)
Fresh == line = <<>> /\ message = Initialised("DISPLAY") /\ display = LinkDownDisplay(FALSE)

Mean ==
  /\ Fresh
  /\ \E meaning \in Meanings : meant' = meaning /\ message' = RecordOf(meaning)
  /\ UNCHANGED <<line, edits, display, screen, tag>>

Draft ==
  /\ Fresh
  /\ \E draft \in Drafts : message' = Drafted(draft.verb, draft.values)
  /\ meant' = NoMeaning
  /\ UNCHANGED <<line, edits, display, screen, tag>>

(* send_record: what cannot be encoded is not sent.                        *)
Send ==
  /\ line = <<>> /\ ~display.link_connected
  /\ Encode(message, MaxMessageLength) # <<>>
  /\ line' = Front(Encode(message, MaxMessageLength))
  /\ UNCHANGED <<meant, message, edits, display, screen, tag>>

(* Lines of another origin.                                                *)
Babble ==
  /\ Fresh
  /\ line' \in Garbage /\ edits' = MaxEdits
  /\ UNCHANGED <<meant, message, display, screen, tag>>

(* Damage: a byte replaced, put in or lost, or the end of the line lost.   *)
(* Such a line no longer says what was meant.                              *)
Replaced(i, c) == [line EXCEPT ![i] = c]
Inserted(i, c) == InsertAt(line, i, c)
Lost(i)        == RemoveAt(line, i)
Truncated(i)   == SubSeq(line, 1, i - 1)

Damage ==
  /\ edits < MaxEdits /\ (edits = 0 => line \in Fragile)
  /\ \E i \in DOMAIN line :
       \/ \E c \in EditBytes : line' \in {Replaced(i, c), Inserted(i, c)}
       \/ line' \in {Lost(i), Truncated(i)}
  /\ edits' = edits + 1 /\ meant' = NoMeaning
  /\ UNCHANGED <<message, display, screen, tag>>

(* A record is shown; what it was made from is remembered.                 *)
IsARecord(outcome) == outcome.kind = "MESSAGE" /\ outcome.message.verb = "DISPLAY"

Deliver ==
  /\ line # <<>>
  /\ LET outcome == ReceiveLine(line)
     IN  /\ IsARecord(outcome)
         /\ \E size \in PayloadSizes :
              /\ (size.length = 0) = (outcome.message.fields[3].text = <<>>)
              /\ Recompose(DisplayOf(outcome.message, size, display.screen_locked))
  /\ line' = <<>> /\ edits' = 0 /\ message' = Initialised("DISPLAY")
  /\ UNCHANGED meant

(* A line that is refused, or is no record, leaves the screen alone; so    *)
(* does a message that cannot be sent.                                     *)
Discard ==
  /\ IF line = <<>> THEN Encode(message, MaxMessageLength) = <<>>
     ELSE ~IsARecord(ReceiveLine(line))
  /\ meant' = NoMeaning /\ message' = Initialised("DISPLAY")
  /\ line' = <<>> /\ edits' = 0
  /\ UNCHANGED <<display, screen, tag>>

ToggleLock ==
  /\ line = <<>> /\ message = Initialised("DISPLAY")
  /\ Recompose([display EXCEPT !.screen_locked = ~@, !.nfc_presenting = FALSE])
  /\ UNCHANGED <<meant, message, line, edits>>

(* The link drops, is being made, or is refused: the record is gone.       *)
LoseLink ==
  /\ line = <<>> /\ message = Initialised("DISPLAY")
  /\ \E state \in LinkStates : Recompose(DisplayWithoutLink(state, display.screen_locked))
  /\ meant' = NoMeaning
  /\ UNCHANGED <<message, line, edits>>

Next == Mean \/ Draft \/ Send \/ Babble \/ Damage \/ Deliver \/ Discard \/ ToggleLock \/ LoseLink

Spec == Init /\ [][Next]_vars

-----------------------------------------------------------------------------
(* The lines.                                                              *)
Again(outcome) == Encode(outcome.message, MaxMessageLength)

(***************************************************************************)
(* The oracle of fuzz_remote_protocol.c: whatever line the parser accepts, *)
(* its message can be encoded again and comes back the same, so nothing    *)
(* the table does not allow is let in by any spelling.                     *)
(***************************************************************************)
AcceptedLinesReencode ==
  LET outcome == ReceiveLine(line)
      again   == Again(outcome)
  IN  outcome.kind = "MESSAGE" => again # <<>> /\ ReceiveLine(Front(again)) = outcome

OverEscaped ==
  \E i \in 1 .. Len(line) - 2 :
    line[i] = Percent /\ IsUnreserved(ByteOf(line[i + 1], line[i + 2]))

(***************************************************************************)
(* A value has one spelling: an accepted line is the encoder's own but for *)
(* the order of its fields, and for unreserved bytes written as escapes,   *)
(* which remote_protocol.c:230-240 lets pass and which only lengthen it.   *)
(***************************************************************************)
SpellingIsKept ==
  LET outcome == ReceiveLine(line)
      again   == Again(outcome)
  IN  outcome.kind = "MESSAGE" =>
        /\ Width(again) <= Width(line) + 1
        /\ OverEscaped \/ ToSet(Tokens(Front(again))) = ToSet(Tokens(line))

(***************************************************************************)
(* So the parser takes a line for one message: no value the table refuses  *)
(* gets past it, and of a value no second spelling but one with a byte     *)
(* escaped that needed no escape (OverEscaped), which it does accept.      *)
(***************************************************************************)
LinesHaveOneMeaning == AcceptedLinesReencode /\ SpellingIsKept

-----------------------------------------------------------------------------
(* The messages.                                                           *)
JoinTokens(tokens) ==
  Tail(FlattenSeq([k \in DOMAIN tokens |-> <<Space>> \o tokens[k]]))

Rotated(tokens, shift) ==
  [k \in DOMAIN tokens |->
     IF k = 1 THEN tokens[1] ELSE tokens[2 + ((k + shift) % (Len(tokens) - 1))]]

(***************************************************************************)
(* What an encoder sends the other end takes for the same message, at the  *)
(* length bound too, and in whatever order the fields stand.               *)
(***************************************************************************)
EncodedLinesParse ==
  LET encoded == Encode(message, MaxMessageLength)
      tokens  == Tokens(Front(encoded))
  IN  line = <<>> /\ encoded # <<>> =>
        \A shift \in 1 .. Len(tokens) - 1 :
          ReceiveLine(JoinTokens(Rotated(tokens, shift)))
            = [kind |-> "MESSAGE", message |-> message]

(* The longest record with an empty payload, and what a text leaves free.  *)
LongestFrame == 86
RoomForEscapes == MaxMessageLength - LongestFrame - MaxTextLength

EscapedBytes(text) == Cardinality({i \in DOMAIN text : ~IsUnreserved(text[i])})

(***************************************************************************)
(* A record within the table's bounds that cannot be sent (send_record     *)
(* then says nothing) owes that to its escapes: they are more than half of *)
(* what the longest of everything leaves of the line.                      *)
(***************************************************************************)
RefusalIsForEscapes ==
  MessageIsValid(message) /\ Encode(message, MaxMessageLength) = <<>> =>
    message.verb = "DISPLAY" /\ 2 * EscapedBytes(message.fields[3].text) > RoomForEscapes

(***************************************************************************)
(* A message within the table's bounds arrives as it was, unless it is a   *)
(* record whose payload takes too many escapes.                            *)
(***************************************************************************)
MessagesGetThrough == EncodedLinesParse /\ RefusalIsForEscapes

-----------------------------------------------------------------------------
(* The tag, as a phone reads it.                                           *)
AttributeAt(bytes, at) ==
  LET length == 256 * bytes[at + 2] + bytes[at + 3]
  IN  [id |-> 256 * bytes[at] + bytes[at + 1], next |-> at + 4 + length,
       value |-> SubSeq(bytes, at + 4, at + 3 + length)]

ReadsAs(bytes, ssid, key) ==
  LET credential == AttributeAt(bytes, 1)
      first  == AttributeAt(credential.value, 1)
      second == AttributeAt(credential.value, first.next)
      third  == AttributeAt(credential.value, second.next)
  IN  /\ credential.id = Credential /\ credential.next = Len(bytes) + 1
      /\ <<first.id, second.id, third.id>> = <<Ssid, AuthType, NetworkKey>>
      /\ third.next = Len(credential.value) + 1
      /\ first.value = ssid /\ second.value = Wpa2Personal /\ third.value = key

NetworkFits(meaning) ==
  Len(meaning.ssid) \in 1 .. MaxSsidLength /\ Len(meaning.key) \in 1 .. MaxNetworkKeyLength

(***************************************************************************)
(* The network a phone reads from the tag is the one that was meant, its   *)
(* name and key byte for byte, through the two escapings on the way; one   *)
(* whose name or key is too long gives no tag rather than a shortened one. *)
(***************************************************************************)
PhoneJoinsTheNetworkMeant ==
  display.link_connected /\ meant.page = "WIFI" =>
    /\ (tag # NoMessage) = NetworkFits(meant)
    /\ tag # NoMessage => tag.type = "WSC" /\ ReadsAs(tag.payload, meant.ssid, meant.key)

AddressFits(address) ==
  LET length == 1 + Len(address) - Len(Abbreviated(PrefixCode(address)))
  IN  /\ address # <<>> /\ Len(address) <= MaxTextLength
      /\ length <= ShortRecordMaxPayload /\ length + 4 <= MessageCapacity

(***************************************************************************)
(* The address a phone reads from the tag is the one that was meant, but   *)
(* for the case of its scheme; one that is too long gives no tag.          *)
(***************************************************************************)
PhoneOpensTheAddressMeant ==
  display.link_connected /\ meant.page = "GUEST" =>
    /\ (tag # NoMessage) = AddressFits(meant.address)
    /\ tag # NoMessage =>
         LET scheme == Abbreviated(tag.payload[1])
         IN  /\ tag.type = "U"
             /\ StartsWithCaseInsensitive(meant.address, scheme)
             /\ Tail(tag.payload) = SubSeq(meant.address, Len(scheme) + 1, Len(meant.address))

(***************************************************************************)
(* The tag of either page says what the appliance meant.                   *)
(***************************************************************************)
PhoneReadsWhatWasMeant == PhoneJoinsTheNetworkMeant /\ PhoneOpensTheAddressMeant

(***************************************************************************)
(* parse_wifi_code agrees with the reading of the code as a whole on every *)
(* payload, well formed or not: what it takes is a code, with these        *)
(* values, and what is a code for a network it takes.                      *)
(***************************************************************************)
WifiScanAgrees ==
  LET code  == message.fields[3].text
      scan  == ParseWifiCode(code)
  IN  message.verb = "DISPLAY" =>
        /\ (scan.at = "END" /\ scan.seen = WifiKeys) = IsACode(code)
        /\ IsACode(code) => scan.value = ReadWhole(code)

-----------------------------------------------------------------------------
(* The capacities of ISO/IEC 18004, by version, then by level.             *)
StandardCapacity(kind) ==
  CASE kind = "NUMERIC"      -> <<<<41, 34, 27, 17>>, <<77, 63, 48, 34>>, <<127, 101, 77, 58>>>>
    [] kind = "ALPHANUMERIC" -> <<<<25, 20, 16, 10>>, <<47, 38, 29, 20>>, <<77, 61, 47, 35>>>>
    [] kind = "BYTE"         -> <<<<17, 14, 11, 7>>, <<32, 26, 20, 14>>, <<53, 42, 32, 24>>>>

(***************************************************************************)
(* A code page has a code exactly when the standard's version 3 holds the  *)
(* payload, and the code is the smallest that does, at the most robust     *)
(* level that costs it no modules (remote_qr.h:44-48).                     *)
(***************************************************************************)
CodeIsTheSmallest ==
  screen.code_page_active /\ display.length > 0 =>
    LET capacity == StandardCapacity(display.kind)
        code     == QrEncode(display.kind, display.length)
    IN  /\ screen.qr_area_shown = (display.length <= capacity[3][1])
        /\ screen.qr_area_shown =>
             /\ code.version = Min({v \in 1 .. 3 : display.length <= capacity[v][1]})
             /\ code.level + 1 = Max({l \in 1 .. 4 : display.length <= capacity[code.version][l]})

-----------------------------------------------------------------------------
(* The screen, as rectangles of pixels; a text stands on its baseline.     *)
TextBox(text) ==
  LET left == CASE text.anchor = "LEFT"   -> text.x
                [] text.anchor = "RIGHT"  -> text.x - text.width
                [] text.anchor = "CENTER" -> text.x - text.width \div 2
  IN  [left |-> left, right |-> left + text.width,
       top |-> text.y - FontHeight[text.font], bottom |-> text.y]

ShapeBox(shape) ==
  [left |-> shape.x, right |-> shape.x + shape.width,
   top |-> shape.y, bottom |-> shape.y + shape.height]

(* elements_button_center of the firmware draws in the last twelve rows.   *)
ButtonBox == [left |-> 0, right |-> DisplayWidth, top |-> DisplayHeight - 12,
              bottom |-> DisplayHeight]
CodeBox   == [left |-> QrX, right |-> QrX + CodeSize, top |-> QrY, bottom |-> QrY + CodeSize]

Apart(a, b) ==
  a.right <= b.left \/ b.right <= a.left \/ a.bottom <= b.top \/ b.bottom <= a.top
Inside(a, b) ==
  a.left >= b.left /\ a.right <= b.right /\ a.top >= b.top /\ a.bottom <= b.bottom

TextBoxes  == [k \in DOMAIN screen.texts |-> TextBox(screen.texts[k])]
ShapeBoxes == [k \in DOMAIN screen.shapes |-> ShapeBox(screen.shapes[k])]
Boxes      == {k \in DOMAIN screen.shapes : screen.shapes[k].kind = "BOX"}
Labels     == {screen.texts[k].label : k \in DOMAIN screen.texts}

(***************************************************************************)
(* Nothing is drawn over a code, whatever is written beside it             *)
(* (remote_display_layout.c:97-100): header, bands, marker and column.     *)
(***************************************************************************)
NothingCoversTheCode ==
  screen.qr_area_shown =>
    /\ \A k \in DOMAIN TextBoxes  : Apart(TextBoxes[k], CodeBox)
    /\ \A k \in DOMAIN ShapeBoxes : Apart(ShapeBoxes[k], CodeBox)

(***************************************************************************)
(* Every text can be read: on the screen, clear of the others and of the   *)
(* button, an inverted one on a band and a plain one clear of every band.  *)
(***************************************************************************)
TextsAreLegible ==
  \A k \in DOMAIN TextBoxes :
    /\ Inside(TextBoxes[k], [left |-> 0, right |-> DisplayWidth, top |-> 0, bottom |-> DisplayHeight])
    /\ \A j \in DOMAIN TextBoxes : j # k => Apart(TextBoxes[k], TextBoxes[j])
    /\ screen.center_button_shown => Apart(TextBoxes[k], ButtonBox)
    /\ IF screen.texts[k].inverted
       THEN \E box \in Boxes : Inside(TextBoxes[k], ShapeBoxes[box])
       ELSE \A box \in Boxes : Apart(TextBoxes[k], ShapeBoxes[box])

(***************************************************************************)
(* No shape and no text is dropped at the limits of the layout's arrays,   *)
(* and no label is cut; of the codes NOT_ALLOWED alone is, beside a code.  *)
(***************************************************************************)
NothingIsCut ==
  /\ Len(screen.shapes) = Len(Whole(display).shapes)
  /\ Len(screen.texts) = Len(Whole(display).texts)
  /\ \A k \in DOMAIN screen.texts :
       screen.texts[k].whole \/ (screen.texts[k].label = "NOT_ALLOWED" /\ ShowsACode(display))

(***************************************************************************)
(* The screen can be read, and all that was composed for it is there.      *)
(***************************************************************************)
ScreenIsLegible == TextsAreLegible /\ NothingIsCut

(***************************************************************************)
(* The screen speaks of a tap exactly when there is a tag to tap, and of a *)
(* payload too big exactly when the page has no code: the message in the   *)
(* code's place sends the guest to the tag, or says there is none.         *)
(***************************************************************************)
TheScreenTellsTheTag ==
  /\ ("NFC" \in Labels) = (tag # NoMessage)
  /\ ({"Too_big", "tap_to_join"} \subseteq Labels)
       = (screen.code_page_active /\ ~screen.qr_area_shown /\ tag # NoMessage)
  /\ ({"Code", "too_big"} \subseteq Labels)
       = (screen.code_page_active /\ ~screen.qr_area_shown /\ tag = NoMessage)
=============================================================================
