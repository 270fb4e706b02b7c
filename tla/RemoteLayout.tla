---------------------------- MODULE RemoteLayout ----------------------------
(***************************************************************************)
(* What goes where on the screen: remote_display_layout.c and the widths   *)
(* of remote_font_measure.c.  A text is a label or an error code, with the *)
(* width its glyphs add up to.                                             *)
(***************************************************************************)
EXTENDS Integers, Sequences, RemoteQr

DisplayWidth  == 128
DisplayHeight == 64
HeaderHeight  == 12
HeaderRightX  == DisplayWidth - 2
ColumnX       == 62
ColumnWidth   == 66
ColumnBandX   == ColumnX - 2
CentredX      == DisplayWidth \div 2
QrX == 0
QrY == 3
ErrorBandY == 52
MaxShapes == 6
MaxTexts  == 8
DeliveredDisplayCap == 999

FontHeight == [Primary |-> 8, Secondary |-> 7]

PrimaryAdvance ==
  [StopBath |-> 46, LOCKED |-> 42, Too_big |-> 37, Code |-> 26, WiFi |-> 28, Gallery |-> 36,
   Incompatible |-> 63, Connecting |-> 56, Pi_disconnected |-> 78, Unknown_status |-> 80,
   Ready |-> 31, Presenting |-> 54, Guest_joined |-> 63, Ending_session |-> 75,
   Recovery_needed |-> 85]

SecondaryAdvance ==
  [NFC |-> 18, tap_to_join |-> 42, too_big |-> 28, page_1_of_2 |-> 33, page_2_of_2 |-> 36,
   Guest_joined |-> 51, Presenting |-> 45, Update_remote |-> 63, Please_wait |-> 48,
   Reconnect_USB |-> 65, See_dashboard |-> 61, delivered |-> 40, plus |-> 6,
   one |-> 3, digit |-> 6,
   BAD_VERSION |-> 62, NO_HELLO |-> 48, MALFORMED |-> 58, BAD_VERB |-> 48, BAD_FIELD |-> 50,
   NO_FIELD |-> 44, BAD_VALUE |-> 54, TOO_LONG |-> 48, RATE_LIMIT |-> 54, GUARD |-> 30,
   ACTIVE |-> 32, NO_SESSION |-> 56, BAD_STATE |-> 54, NOT_ALLOWED |-> 68,
   START_FAIL |-> 56, END_FAIL |-> 44]

Advance == [Primary |-> PrimaryAdvance, Secondary |-> SecondaryAdvance]

(* The delivered line: up to three digits, of which 1 is the narrow one.   *)
DigitAdvance(digit) ==
  IF digit = 1 THEN SecondaryAdvance["one"] ELSE SecondaryAdvance["digit"]

CountWidth(count) ==
  (IF count >= 100 THEN DigitAdvance(count \div 100) ELSE 0)
  + (IF count >= 10 THEN DigitAdvance((count \div 10) % 10) ELSE 0)
  + DigitAdvance(count % 10)

DeliveredWidth(count) ==
  SecondaryAdvance["delivered"]
  + (IF count > DeliveredDisplayCap
     THEN CountWidth(DeliveredDisplayCap) + SecondaryAdvance["plus"] ELSE CountWidth(count))

-----------------------------------------------------------------------------
(* What is placed.  A text is cut to its limit, which keeps a prefix of it *)
(* no wider: its width here is the bound on what is left.                  *)
Placed(x, y, font, anchor, inverted, limit, label, width) ==
  [x |-> x, y |-> y, font |-> font, anchor |-> anchor, inverted |-> inverted, label |-> label,
   width |-> IF width > limit THEN limit ELSE width, whole |-> width <= limit]

Text(x, y, font, anchor, inverted, limit, label) ==
  Placed(x, y, font, anchor, inverted, limit, label, Advance[font][label])

FilledBox(x, y, width, height) ==
  [kind |-> "BOX", x |-> x, y |-> y, width |-> width, height |-> height]
Frame(x, y, width, height) ==
  [kind |-> "FRAME", x |-> x, y |-> y, width |-> width, height |-> height]

(* A part of a screen, and two of them drawn one after the other.          *)
Part(shapes, texts) == [shapes |-> shapes, texts |-> texts]
Nothing == Part(<<>>, <<>>)
Then(first, second) ==
  Part(first.shapes \o second.shapes, first.texts \o second.texts)

FullWidthHeader(locked) ==
  LET name == Text(2, 9, "Primary", "LEFT", locked, 70, "StopBath")
      lock == Text(HeaderRightX, 9, "Primary", "RIGHT", TRUE, 50, "LOCKED")
  IN  IF locked THEN Part(<<FilledBox(0, 0, DisplayWidth, HeaderHeight)>>, <<name, lock>>)
      ELSE Part(<<>>, <<name>>)

(* Beside a code the lock takes the place of the name.                     *)
ColumnText(y, font, inverted, label) ==
  Text(ColumnX, y, font, "LEFT", inverted, ColumnWidth, label)

ColumnBand(y, height) == FilledBox(ColumnBandX, y, DisplayWidth - ColumnBandX, height)

NfcMarker(locked, presenting) ==
  IF presenting THEN <<Text(HeaderRightX, 9, "Secondary", "RIGHT", locked, 24, "NFC")>>
  ELSE <<>>

ColumnHeader(locked, presenting) ==
  Part(IF locked THEN <<ColumnBand(0, HeaderHeight)>> ELSE <<>>,
       <<ColumnText(9, "Primary", locked, IF locked THEN "LOCKED" ELSE "StopBath")>>
       \o NfcMarker(locked, presenting))

CentredText(y, font, inverted, label) ==
  Text(CentredX, y, font, "CENTER", inverted, DisplayWidth - 4, label)

CentredLine(primary) == Part(<<>>, <<CentredText(34, "Primary", FALSE, primary)>>)
CentredLines(primary, secondary) ==
  Then(CentredLine(primary), Part(<<>>, <<CentredText(50, "Secondary", FALSE, secondary)>>))

-----------------------------------------------------------------------------
(* A page with a code.  A payload too big for one leaves a message in the  *)
(* code's place, which points to the tag when there is one.                *)
CodeAreaText(y, font, label) ==
  Text(QrX + CodeSize \div 2, y, font, "CENTER", FALSE, CodeSize - 4, label)

CodeUnavailable(presenting) ==
  Part(<<Frame(QrX, QrY, CodeSize, CodeSize)>>,
       <<CodeAreaText(30, "Primary", IF presenting THEN "Too_big" ELSE "Code"),
         CodeAreaText(44, "Secondary", IF presenting THEN "tap_to_join" ELSE "too_big")>>)

CodeFits(state) == state.length = 0 \/ QrCanEncode(state.kind, state.length)

StatusLine(status) == IF status = "GUEST_CONNECTED" THEN "Guest_joined" ELSE "Presenting"

(* Mutant: the count stays beside an error.                                *)
DeliveredLineAlways(state) ==
  IF state.delivered > 0
  THEN <<Placed(ColumnX, 56, "Secondary", "LEFT", FALSE, ColumnWidth, "delivered",
                  DeliveredWidth(state.delivered))>>
  ELSE <<>>

DeliveredLine(state) ==
  IF state.delivered > 0 /\ state.error = "NONE"
  THEN <<Placed(ColumnX, 56, "Secondary", "LEFT", FALSE, ColumnWidth, "delivered",
                  DeliveredWidth(state.delivered))>>
  ELSE <<>>

CodePage(state) ==
  LET wifi == state.page = "WIFI"
      column ==
        <<ColumnText(23, "Primary", FALSE, IF wifi THEN "WiFi" ELSE "Gallery"),
          ColumnText(34, "Secondary", FALSE, IF wifi THEN "page_1_of_2" ELSE "page_2_of_2"),
          ColumnText(45, "Secondary", FALSE, StatusLine(state.status))>>
        \o DeliveredLine(state)
  IN  Then(IF CodeFits(state) THEN Nothing ELSE CodeUnavailable(state.nfc_presenting),
           Part(<<>>, column))

(* Mutant: the band is as wide beside a code.                              *)
ErrorBandWide(state, besideACode) ==
  IF state.error = "NONE" THEN Nothing
  ELSE Part(<<FilledBox(0, ErrorBandY, DisplayWidth, 12)>>,
            <<CentredText(61, "Secondary", TRUE, state.error)>>)

ErrorBand(state, besideACode) ==
  IF state.error = "NONE" THEN Nothing
  ELSE IF besideACode
  THEN Part(<<ColumnBand(ErrorBandY, 12)>>, <<ColumnText(61, "Secondary", TRUE, state.error)>>)
  ELSE Part(<<FilledBox(0, ErrorBandY, DisplayWidth, 12)>>,
            <<CentredText(61, "Secondary", TRUE, state.error)>>)

-----------------------------------------------------------------------------
(* A screen's state: what the record says, "NONE" for no error, and what   *)
(* the device knows.  A status or a page outside the sets is unknown.      *)
Active(state)    == state.status \in {"PRESENTING", "GUEST_CONNECTED"}
PageNamed(state) == state.page \in {"WIFI", "GUEST"}

ShowsACode(state) == state.link_connected /\ Active(state) /\ PageNamed(state)

(* The record is shown only over a link that is up and compatible.         *)
ShowsTheRecord(state) == state.link_connected /\ ~state.link_incompatible

LinkFact(state) ==
  IF state.link_incompatible THEN CentredLines("Incompatible", "Update_remote")
  ELSE IF state.link_connecting THEN CentredLines("Connecting", "Please_wait")
  ELSE CentredLines("Pi_disconnected", "Reconnect_USB")

RecordBody(state) ==
  CASE state.status = "READY"             -> CentredLine("Ready")
    [] state.status = "TERMINATING"       -> CentredLines("Ending_session", "Please_wait")
    [] state.status = "RECOVERY_REQUIRED" -> CentredLines("Recovery_needed", "See_dashboard")
    [] Active(state) /\ ~PageNamed(state) -> CentredLine(StatusLine(state.status))
    [] Active(state) /\ PageNamed(state)  -> CodePage(state)
    [] OTHER                              -> CentredLine("Unknown_status")

Header(state) ==
  IF ShowsACode(state) THEN ColumnHeader(state.screen_locked, state.nfc_presenting)
  ELSE FullWidthHeader(state.screen_locked)

Whole(state) ==
  Then(Header(state),
       IF ShowsTheRecord(state)
       THEN Then(RecordBody(state), ErrorBand(state, ShowsACode(state)))
       ELSE LinkFact(state))

(* add_shape and add_text: what comes after the limit is dropped.          *)
FirstOf(seq, limit) == SubSeq(seq, 1, IF Len(seq) < limit THEN Len(seq) ELSE limit)

(* remote_display_layout_compose.                                          *)
Compose(state) ==
  LET active == ShowsTheRecord(state) /\ ShowsACode(state)
  IN  [shapes |-> FirstOf(Whole(state).shapes, MaxShapes),
       texts  |-> FirstOf(Whole(state).texts, MaxTexts),
       center_button_shown |->
         ShowsTheRecord(state) /\ state.status = "READY" /\ state.error = "NONE",
       qr_area_shown    |-> active /\ CodeFits(state),
       code_page_active |-> active]
=============================================================================
